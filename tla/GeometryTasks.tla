----------------------------- MODULE GeometryTasks ----------------------------
(***************************************************************************)
(* Which product gets which geometry: mapping::get_representations()       *)
(* (src/IFC/src/ifcgeom/mapping/mapping.cpp) turns the representations of  *)
(* the selected contexts into conversion tasks, sharing one geometry       *)
(* between products where that is allowed; create_element_() (Iterator.h)  *)
(* and Converter.cpp carry a task out.                                     *)
(*                                                                         *)
(* A "use" <<p, r>> says that product p is shown by representation r of    *)
(* its own; a task is a representation with the uses it is converted for.  *)
(***************************************************************************)
EXTENDS Integers, Sequences, FiniteSets

CONSTANTS
  Products,
  Representations,
  Materials,
  None,          \* no representation, no material, no product
  Inputs,        \* what a file says, with the settings of the conversion
  Filters        \* the sets of products that the filters let through

(* file.order: the representations in the selected contexts                *)
(* file.shown[r]: the products that r represents directly                  *)
(* file.item[r]: the representation whose map the mapped item of r uses    *)
(* file.plain: r has this one item, without style or transformation        *)
(* file.maps: the representations that have an IfcRepresentationMap        *)
(* file.opened, file.layered: products with openings, with layer sets      *)
(* file.material, file.type_material: single material of product, of type  *)
FileType ==
  [order : Seq(Representations),
   shown : [Representations -> SUBSET Products],
   item : [Representations -> Representations \cup {None}],
   plain : SUBSET Representations,
   maps : SUBSET Representations,
   opened : SUBSET Products, layered : SUBSET Products,
   material : [Products -> Materials \cup {None}],
   type_material : [Products -> Materials \cup {None}]]

SettingsType == [world : BOOLEAN, layersets : BOOLEAN, no_openings : BOOLEAN]

(* A representation is in one context, once. The map of a mapped item has a *)
(* representation, which then has a map. *)
WellFormed(f) ==
  /\ \A m, n \in 1..Len(f.order) : f.order[m] = f.order[n] => m = n
  /\ \A r \in Representations : f.item[r] # None => f.item[r] \in f.maps

ASSUME NoneAssumption ==
  None \notin Products /\ None \notin Representations /\ None \notin Materials
ASSUME InputsAssumption ==
  /\ Inputs \subseteq [file : FileType, settings : SettingsType]
  /\ \A i \in Inputs : WellFormed(i.file)
ASSUME FiltersAssumption == Filters \subseteq SUBSET Products

VARIABLES
  file, settings, passing,      \* the input; passing: products that pass the filters
  position,                     \* of the loop over the representations
  not_reusable_maps_,
  ok_mapped_representations,
  tasks,
  converted,                    \* the tasks create_element_() is done with
  elements                      \* what the last of them resulted in

input == <<file, settings, passing>>
planning == <<position, not_reusable_maps_, ok_mapped_representations, tasks>>
vars == <<input, planning, converted, elements>>

Init ==
  /\ \E i \in Inputs : file = i.file /\ settings = i.settings
  /\ passing \in Filters
  /\ position = 1
  /\ not_reusable_maps_ = {} /\ ok_mapped_representations = {}
  /\ tasks = {} /\ converted = {} /\ elements = {}

Uses == Products \X Representations
Single(uses) == \E u \in uses : uses = {u}
------------------------------------------------------------------------------
(* Products whose openings are subtracted, whose layers are applied. *)
HasOpenings(p) == p \in file.opened /\ ~settings.no_openings
HasLayers(p) == p \in file.layered /\ settings.layersets

Direct(r) == {<<p, r>> : p \in file.shown[r]}

representation_mapped_to(r) == IF r \in file.plain THEN file.item[r] ELSE None

(* The uses of r, those by means of mapped items included as long as the    *)
(* map of r is not known to be unfit for reuse.                             *)
products_represented_by(r) ==
  Direct(r) \cup
    (IF r \in file.maps \ not_reusable_maps_
       THEN UNION {Direct(q) : q \in {s \in Representations : representation_mapped_to(s) = r}}
       ELSE {})

filter_products(uses) == {u \in uses : u[1] \in passing}

(* Mutant: world coordinates do not keep products from sharing. *)
ReuseInWorldCoords(uses) ==
  \/ Single(uses)
  \/ /\ uses # {}
     /\ \A u \in uses : ~HasOpenings(u[1]) /\ ~HasLayers(u[1])
     /\ \A u, v \in uses : file.material[u[1]] = file.material[v[1]]

(* Mutant: products of different materials share their geometry. *)
ReuseAcrossMaterials(uses) ==
  /\ ~settings.world
  /\ \/ Single(uses)
     \/ uses # {} /\ \A u \in uses : ~HasOpenings(u[1]) /\ ~HasLayers(u[1])

(* One geometry will do for all of these uses. *)
reuse_ok_(uses) ==
  /\ ~settings.world
  /\ \/ Single(uses)
     \/ /\ uses # {}
        /\ \A u \in uses : ~HasOpenings(u[1]) /\ ~HasLayers(u[1])
        /\ \A u, v \in uses : file.material[u[1]] = file.material[v[1]]
------------------------------------------------------------------------------
(* One round of the loop in get_representations(). *)
representation == file.order[position]
ifcproducts == filter_products(products_represented_by(representation))
geometry_reuse_ok == reuse_ok_(ifcproducts)

Round ==
  /\ position \in DOMAIN file.order
  /\ position' = position + 1
  /\ UNCHANGED <<input, converted, elements>>

(* Mutant: also for a representation without a map. *)
NoteAll ==
  not_reusable_maps_' = not_reusable_maps_ \cup {r \in {representation} : ~geometry_reuse_ok}

(* The map of a representation that may not be shared is remembered. *)
NoteMap ==
  not_reusable_maps_' = not_reusable_maps_ \cup
    {r \in {representation} \cap file.maps : ~geometry_reuse_ok}

SkipEmpty ==
  /\ Round
  /\ ifcproducts = {}
  /\ UNCHANGED <<not_reusable_maps_, ok_mapped_representations, tasks>>

(* Some IfcMappedItem uses the map of r, styled or transformed or not. *)
MapIsUsed(r) == \E q \in Representations : file.item[q] = r

(* Mutant: an unused map is taken for a used one. *)
LeftToUsersAlways ==
  ~geometry_reuse_ok /\ representation \in file.maps

(* The products are converted with the representations that use the map. *)
LeftToUsers ==
  ~geometry_reuse_ok /\ representation \in file.maps /\ MapIsUsed(representation)

(* Mutant: only mapped representations that were met before count. *)
LeftToMappedSeen ==
  representation_mapped_to(representation) \in ok_mapped_representations

(* The products were converted, or will be, with the mapped representation. *)
(* Here the products are not filtered.                                      *)
LeftToMapped ==
  LET mapped == representation_mapped_to(representation)
  IN mapped # None /\ geometry_reuse_ok
     /\ (mapped \in ok_mapped_representations \/ reuse_ok_(products_represented_by(mapped)))

LeaveToUsers ==
  /\ Round
  /\ ifcproducts # {} /\ LeftToUsers
  /\ NoteMap
  /\ UNCHANGED <<ok_mapped_representations, tasks>>

LeaveToMapped ==
  /\ Round
  /\ ifcproducts # {} /\ ~LeftToUsers /\ LeftToMapped
  /\ NoteMap
  /\ ok_mapped_representations' =
       ok_mapped_representations \cup {representation_mapped_to(representation)}
  /\ UNCHANGED tasks

Task(uses) == [representation |-> representation, uses |-> uses]

(* A task for each product, or one for all. *)
MakeTasks ==
  /\ Round
  /\ ifcproducts # {} /\ ~LeftToUsers /\ ~LeftToMapped
  /\ NoteMap
  /\ tasks' = tasks \cup
       IF geometry_reuse_ok THEN {Task(ifcproducts)}
                            ELSE {Task({u}) : u \in ifcproducts}
  /\ UNCHANGED ok_mapped_representations

Planned == position > Len(file.order)
------------------------------------------------------------------------------
(* The single material of the product or else that of its type. *)
MaterialOf(p) ==
  IF file.material[p] # None THEN file.material[p] ELSE file.type_material[p]

(* What subtracting the openings came to: the openings are cut; an          *)
(* exception left fewer shapes than there were and the uncut ones are kept; *)
(* or it failed without std::exception, and what there is replaces them.    *)
Subtractions(p) == IF HasOpenings(p) THEN {"cut", "kept", "lost"} ELSE {"no openings"}

(* The matrix of the element of product p: the identity once the placement  *)
(* is in the coordinates of the shapes. *)
PlaceOf(p, baked) == IF baked # None THEN None ELSE p

(* Uncut shapes that are kept are not moved to world coordinates. *)
BakedFor(p, subtraction) == IF settings.world /\ subtraction # "kept" THEN p ELSE None

(* The geometry made for product p: with whose openings, layers, material,  *)
(* and placed for whom. *)
Geometry(p, subtraction) ==
  [subtraction |-> subtraction,
   openings |-> IF HasOpenings(p) THEN p ELSE None,
   layers |-> IF HasLayers(p) THEN p ELSE None,
   material |-> MaterialOf(p),
   baked |-> BakedFor(p, subtraction)]

Element(u, geometry, place) ==
  [product |-> u[1], of |-> u[2], geometry |-> geometry, place |-> place]

(* create_brep_for_representation_and_product() for the first product,      *)
(* create_brep_for_processed_representation() for the others: the same      *)
(* geometry, with their own placement. *)
Convert(task, first, subtraction) ==
  /\ Planned
  /\ converted' = converted \cup {task}
  /\ LET geometry == Geometry(first[1], subtraction)
     IN elements' =
          {Element(first, geometry, PlaceOf(first[1], geometry.baked))} \cup
          {Element(u, geometry, u[1]) : u \in task.uses \ {first}}
  /\ UNCHANGED <<input, planning>>

(* Directly represented products come first. *)
MayBeFirst(task, u) ==
  u[2] = task.representation \/ \A v \in task.uses : v[2] # task.representation

(* The representation cannot be mapped, or the kernel does not convert it. *)
ConvertFails(task) ==
  /\ Planned
  /\ converted' = converted \cup {task}
  /\ elements' = {}
  /\ UNCHANGED <<input, planning>>

(* With nothing left to do the model stutters. *)
AllConverted ==
  /\ Planned /\ converted = tasks
  /\ UNCHANGED vars

Next ==
  \/ SkipEmpty \/ LeaveToUsers \/ LeaveToMapped \/ MakeTasks
  \/ \E task \in tasks \ converted :
       \/ \E first \in task.uses :
            /\ MayBeFirst(task, first)
            /\ \E subtraction \in Subtractions(first[1]) : Convert(task, first, subtraction)
       \/ ConvertFails(task)
  \/ AllConverted

Spec == Init /\ [][Next]_vars
------------------------------------------------------------------------------
Geometries ==
  [subtraction : {"cut", "kept", "lost", "no openings"},
   openings : Products \cup {None}, layers : Products \cup {None},
   material : Materials \cup {None}, baked : Products \cup {None}]

(* Every variable has its type: a task has at least one use, and only a     *)
(* task of the plan is converted. *)
TypeOK ==
  /\ file \in FileType /\ settings \in SettingsType /\ passing \in Filters
  /\ position \in 1..(Len(file.order) + 1)
  /\ not_reusable_maps_ \subseteq file.maps
  /\ ok_mapped_representations \subseteq Representations
  /\ tasks \subseteq [representation : Representations, uses : (SUBSET Uses) \ {{}}]
  /\ converted \subseteq tasks
  /\ elements \subseteq [product : Products, of : Representations,
                         geometry : Geometries, place : Products \cup {None}]

(* A product never gets a geometry that was made for a different looking    *)
(* one: with openings or layers it does not have, without those it has, or  *)
(* of another material (mapping.cpp:123-162 against Converter.cpp:48-228).  *)
(* reuse_ok_() does not look at the materials of types, so that products    *)
(* without a material of their own are left out.                            *)
SharedGeometryFits ==
  \A e \in elements :
    /\ e.geometry.openings = (IF HasOpenings(e.product) THEN e.product ELSE None)
    /\ e.geometry.layers = (IF HasLayers(e.product) THEN e.product ELSE None)
    /\ file.material[e.product] # None => e.geometry.material = file.material[e.product]

(* The placement of a product is applied exactly once: it is in the         *)
(* coordinates of its shapes or in its matrix (Converter.cpp:211-228,       *)
(* 259-270), also for products that share a geometry and when subtracting   *)
(* the openings failed.                                                     *)
PlacedOnce ==
  \A e \in elements :
    \/ e.geometry.baked = e.product /\ e.place = None
    \/ e.geometry.baked = None /\ e.place = e.product

(* The uses that the plan must cover. *)
Wanted ==
  {u \in Uses : /\ u[1] \in file.shown[u[2]] /\ u[1] \in passing
                /\ \E n \in DOMAIN file.order : file.order[n] = u[2]}

Mapped == {r \in Representations : MapIsUsed(r)}

(* What the plan relies on: a mapped representation is in the selected      *)
(* contexts, not shown directly by a product as well, and not itself made   *)
(* of a mapped item. *)
Orderly ==
  \A r \in Mapped :
    /\ \E n \in DOMAIN file.order : file.order[n] = r
    /\ file.shown[r] = {}
    /\ representation_mapped_to(r) = None

(* In an orderly file no product is left out because each of two            *)
(* representations is left to the other (mapping.cpp:245-272).              *)
NothingLeftOut ==
  Planned /\ Orderly => \A u \in Wanted : \E t \in tasks : u \in t.uses

(* No product is converted twice with the same representation: the comment  *)
(* at mapping.cpp:259 promises a check whether it "has (or will be)         *)
(* processed as part its mapped representation".                            *)
ConvertedOnce ==
  \A t1, t2 \in tasks : t1.uses \cap t2.uses # {} => t1 = t2

(* ConvertedOnce for runs without filters. *)
ConvertedOnceUnfiltered == passing = Products => ConvertedOnce
------------------------------------------------------------------------------
Covered(u) == \E t \in tasks : u \in t.uses

(* The map of m is fit for reuse by all that use it. *)
Shares(m) == m \in file.maps \ not_reusable_maps_ /\ reuse_ok_(products_represented_by(m))

(* Why nothing is left out: a mapped representation to which others are     *)
(* left stays fit for reuse; the products of a representation that was      *)
(* passed are covered or left to such a one; and when that one is passed,   *)
(* all of its uses are covered.                                             *)
PlanInv ==
  Orderly =>
    /\ \A m \in ok_mapped_representations : m \in Mapped /\ Shares(m)
    /\ \A n \in 1..position-1 : \A u \in Direct(file.order[n]) :
         u[1] \in passing =>
           \/ Covered(u)
           \/ representation_mapped_to(file.order[n]) \in ok_mapped_representations
    /\ \A n \in 1..position-1 :
         file.order[n] \in Mapped /\ Shares(file.order[n]) =>
           \A u \in filter_products(products_represented_by(file.order[n])) : Covered(u)

(* Why nothing is converted twice: a task is for a representation that was  *)
(* passed, and that could not be left to its mapped representation; and it  *)
(* has uses of other representations only if it is shared.                  *)
OnceInv ==
  passing = Products =>
    /\ \A t \in tasks : \E n \in 1..position-1 : file.order[n] = t.representation
    /\ \A t \in tasks : ~Shares(representation_mapped_to(t.representation))
    /\ \A t \in tasks : \A u \in t.uses :
         \/ u[2] = t.representation
         \/ /\ representation_mapped_to(u[2]) = t.representation
            /\ Shares(t.representation)
    /\ ConvertedOnce

(* Why shared geometry fits: a task has one use, or uses that may share. *)
ShareInv == \A t \in tasks : Single(t.uses) \/ reuse_ok_(t.uses)

(* The inductive invariant *)
IInv ==
  /\ TypeOK /\ WellFormed(file)
  /\ ShareInv /\ PlanInv /\ OnceInv
  /\ SharedGeometryFits /\ PlacedOnce
==============================================================================
