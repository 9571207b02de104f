-------------------------- MODULE GeometryTasks_proofs --------------------------
(***************************************************************************)
(* Theorems about GeometryTasks, for every file, setting and filter.       *)
(***************************************************************************)
EXTENDS GeometryTasks, SequenceTheorems, TLAPS

(* If one geometry will do for some uses, it will do for fewer.            *)
LEMMA ReuseSubset ==
  ASSUME NEW S, NEW T, T \subseteq S, T # {}, reuse_ok_(S)
  PROVE  reuse_ok_(T)
<1>1. CASE Single(S)
  <2>1. PICK u \in S : S = {u}
    BY <1>1 DEF Single
  <2>2. T = {u}
    BY <2>1
  <2>3. QED
    BY <2>2 DEF reuse_ok_, Single
<1>2. CASE ~Single(S)
  BY <1>2 DEF reuse_ok_
<1>3. QED
  BY <1>1, <1>2

(* Nothing but uses comes out of a file.                                   *)
LEMMA UsesType ==
  ASSUME file \in FileType, NEW r \in Representations
  PROVE  /\ Direct(r) \subseteq Uses
         /\ products_represented_by(r) \subseteq Uses
         /\ filter_products(products_represented_by(r)) \subseteq Uses
         /\ representation_mapped_to(r) \in Representations \cup {None}
<1>1. \A q \in Representations : Direct(q) \subseteq Uses
  BY DEF FileType, Direct, Uses
<1>2. products_represented_by(r) \subseteq Uses
  BY <1>1 DEF products_represented_by
<1>3. representation_mapped_to(r) \in Representations \cup {None}
  BY DEF representation_mapped_to, FileType
<1>4. QED
  BY <1>1, <1>2, <1>3 DEF filter_products

(* The input stays what it is.                                             *)
LEMMA InputKept == [Next]_vars => UNCHANGED input
<1> USE DEF Round, vars, input, planning
<1>1. SkipEmpty \/ LeaveToUsers \/ LeaveToMapped \/ MakeTasks => UNCHANGED input
  BY DEF SkipEmpty, LeaveToUsers, LeaveToMapped, MakeTasks
<1>2. \A t, u, s : Convert(t, u, s) => UNCHANGED input
  BY DEF Convert
<1>3. \A t : ConvertFails(t) => UNCHANGED input
  BY DEF ConvertFails
<1>4. QED
  BY <1>1, <1>2, <1>3 DEF Next, AllConverted

(* What a round of the loop does to the plan, whichever way it goes.       *)
LEMMA RoundEffect ==
  ASSUME TypeOK, SkipEmpty \/ LeaveToUsers \/ LeaveToMapped \/ MakeTasks
  PROVE  /\ UNCHANGED input /\ UNCHANGED <<converted, elements>>
         /\ position \in 1..Len(file.order) /\ position \in Nat
         /\ position' = position + 1
         /\ Len(file.order) \in Nat
         /\ representation \in Representations
         /\ tasks \subseteq tasks'
         /\ ok_mapped_representations \subseteq ok_mapped_representations'
         /\ not_reusable_maps_ \subseteq not_reusable_maps_'
         /\ \A r \in not_reusable_maps_' \ not_reusable_maps_ :
              r = representation /\ r \in file.maps /\ ~geometry_reuse_ok /\ ifcproducts # {}
<1>1. file.order \in Seq(Representations)
  BY DEF TypeOK, FileType
<1>2. Round
  BY DEF SkipEmpty, LeaveToUsers, LeaveToMapped, MakeTasks
<1>3. /\ position \in 1..Len(file.order) /\ position \in Nat
      /\ Len(file.order) \in Nat
      /\ position' = position + 1
      /\ UNCHANGED input /\ UNCHANGED <<converted, elements>>
  BY <1>1, <1>2, LenProperties DEF Round, TypeOK
<1>4. representation \in Representations
  BY <1>1, <1>3, ElementOfSeq DEF representation
<1>5. CASE SkipEmpty
  BY <1>3, <1>4, <1>5 DEF SkipEmpty
<1>6. CASE LeaveToUsers
  BY <1>3, <1>4, <1>6 DEF LeaveToUsers, NoteMap
<1>7. CASE LeaveToMapped
  BY <1>3, <1>4, <1>7 DEF LeaveToMapped, NoteMap
<1>8. CASE MakeTasks
  BY <1>3, <1>4, <1>8 DEF MakeTasks, NoteMap
<1>9. QED
  BY <1>5, <1>6, <1>7, <1>8
------------------------------------------------------------------------------
LEMMA InitInvariant == Init => IInv
<1> SUFFICES ASSUME Init PROVE IInv
  OBVIOUS
<1>1. PICK i \in Inputs : file = i.file /\ settings = i.settings
  BY DEF Init
<1>2. i \in [file : FileType, settings : SettingsType] /\ WellFormed(i.file)
  BY <1>1, InputsAssumption
<1>3. file \in FileType /\ settings \in SettingsType /\ WellFormed(file)
  BY <1>1, <1>2
<1>4. Len(file.order) \in Nat
  BY <1>3, LenProperties DEF FileType
<1>5. TypeOK
  BY <1>3, <1>4 DEF Init, TypeOK
<1>6. ShareInv /\ SharedGeometryFits /\ PlacedOnce
  BY DEF Init, ShareInv, SharedGeometryFits, PlacedOnce
<1>7. PlanInv /\ OnceInv
  BY DEF Init, PlanInv, OnceInv, ConvertedOnce
<1>8. QED
  BY <1>3, <1>5, <1>6, <1>7 DEF IInv

(* Every task that is made has a use, and one or uses that may share.      *)
LEMMA MadeTasks ==
  ASSUME TypeOK, MakeTasks, NEW t \in tasks' \ tasks
  PROVE  /\ t \in [representation : Representations, uses : (SUBSET Uses) \ {{}}]
         /\ Single(t.uses) \/ reuse_ok_(t.uses)
<1>1. representation \in Representations
  BY RoundEffect
<1>2. ifcproducts \subseteq Uses /\ ifcproducts # {}
  BY <1>1, UsesType DEF ifcproducts, TypeOK, MakeTasks
<1>3. CASE geometry_reuse_ok
  <2>1. t = Task(ifcproducts)
    BY <1>3 DEF MakeTasks
  <2>2. ifcproducts \in (SUBSET Uses) \ {{}}
    BY <1>2
  <2>3. QED
    BY <1>1, <1>3, <2>1, <2>2 DEF Task, geometry_reuse_ok
<1>4. CASE ~geometry_reuse_ok
  <2>1. PICK u \in ifcproducts : t = Task({u})
    BY <1>4 DEF MakeTasks
  <2>2. {u} \in (SUBSET Uses) \ {{}}
    BY <1>2
  <2>3. Single({u})
    BY DEF Single
  <2>4. QED
    BY <1>1, <2>1, <2>2, <2>3 DEF Task
<1>5. QED
  BY <1>3, <1>4

(* The elements of a task have the types of elements.                      *)
LEMMA ConvertType ==
  ASSUME TypeOK, NEW t \in tasks, NEW first \in t.uses,
         NEW s \in Subtractions(first[1]), Convert(t, first, s)
  PROVE  elements' \subseteq [product : Products, of : Representations,
                              geometry : Geometries, place : Products \cup {None}]
<1>1. t.uses \subseteq Uses
  BY DEF TypeOK
<1>2. \A u \in t.uses : u[1] \in Products /\ u[2] \in Representations
  BY <1>1 DEF Uses
<1>3. \A p \in Products : /\ file.material[p] \in Materials \cup {None}
                          /\ file.type_material[p] \in Materials \cup {None}
  BY DEF TypeOK, FileType
<1>4. s \in {"cut", "kept", "lost", "no openings"}
  BY DEF Subtractions
<1>5. Geometry(first[1], s) \in Geometries
  BY <1>2, <1>3, <1>4 DEF Geometry, Geometries, MaterialOf, BakedFor
<1>6. PlaceOf(first[1], Geometry(first[1], s).baked) \in Products \cup {None}
  BY <1>2 DEF PlaceOf
<1>7. QED
  BY <1>2, <1>5, <1>6 DEF Convert, Element

LEMMA TypeInvariant == IInv /\ [Next]_vars => TypeOK'
<1> SUFFICES ASSUME IInv, [Next]_vars PROVE TypeOK'
  OBVIOUS
<1>1. TypeOK
  BY DEF IInv
<1>2. UNCHANGED input
  BY InputKept
<1>3. CASE SkipEmpty \/ LeaveToUsers \/ LeaveToMapped \/ MakeTasks
  <2>1. /\ position \in 1..Len(file.order) /\ position \in Nat
        /\ position' = position + 1
        /\ Len(file.order) \in Nat
        /\ representation \in Representations
        /\ UNCHANGED <<converted, elements>>
        /\ tasks \subseteq tasks'
        /\ \A r \in not_reusable_maps_' \ not_reusable_maps_ : r \in file.maps
    BY <1>1, <1>3, RoundEffect
  <2>2. position' \in 1..(Len(file'.order) + 1)
    BY <1>2, <2>1 DEF input
  <2>3. not_reusable_maps_' \subseteq file'.maps
    BY <1>1, <1>2, <2>1 DEF TypeOK, input
  <2>4. ok_mapped_representations' \subseteq Representations
    <3>1. CASE LeaveToMapped
      <4>1. representation_mapped_to(representation) \in Representations
        BY <1>1, <2>1, <3>1, UsesType DEF TypeOK, LeaveToMapped, LeftToMapped
      <4>2. QED
        BY <1>1, <3>1, <4>1 DEF TypeOK, LeaveToMapped
    <3>2. CASE SkipEmpty \/ LeaveToUsers \/ MakeTasks
      BY <1>1, <3>2 DEF TypeOK, SkipEmpty, LeaveToUsers, MakeTasks
    <3>3. QED
      BY <1>3, <3>1, <3>2
  <2>5. tasks' \subseteq [representation : Representations, uses : (SUBSET Uses) \ {{}}]
    <3>1. CASE MakeTasks
      BY <1>1, <3>1, MadeTasks DEF TypeOK
    <3>2. CASE SkipEmpty \/ LeaveToUsers \/ LeaveToMapped
      BY <1>1, <3>2 DEF TypeOK, SkipEmpty, LeaveToUsers, LeaveToMapped
    <3>3. QED
      BY <1>3, <3>1, <3>2
  <2>6. QED
    BY <1>1, <1>2, <2>1, <2>2, <2>3, <2>4, <2>5 DEF TypeOK, input
<1>4. ASSUME NEW t \in tasks \ converted, NEW first \in t.uses,
             NEW s \in Subtractions(first[1]), Convert(t, first, s)
      PROVE  TypeOK'
  <2>1. elements' \subseteq [product : Products, of : Representations,
                             geometry : Geometries, place : Products \cup {None}]
    BY <1>1, <1>4, ConvertType
  <2>2. UNCHANGED planning /\ converted' \subseteq tasks'
    BY <1>1, <1>4 DEF Convert, planning, TypeOK
  <2>3. QED
    BY <1>1, <1>2, <2>1, <2>2 DEF TypeOK, input, planning
<1>5. ASSUME NEW t \in tasks \ converted, ConvertFails(t)
      PROVE  TypeOK'
  BY <1>1, <1>2, <1>5 DEF ConvertFails, TypeOK, input, planning
<1>6. CASE UNCHANGED vars
  BY <1>1, <1>6 DEF TypeOK, vars, input, planning
<1>7. QED
  BY <1>3, <1>4, <1>5, <1>6 DEF Next, AllConverted
------------------------------------------------------------------------------
LEMMA ShareInvariant == IInv /\ [Next]_vars => ShareInv'
<1> SUFFICES ASSUME IInv, [Next]_vars PROVE ShareInv'
  OBVIOUS
<1>1. TypeOK /\ ShareInv
  BY DEF IInv
<1>2. UNCHANGED <<file, settings>>
  BY InputKept DEF input
<1>3. SUFFICES \A t \in tasks' : Single(t.uses) \/ reuse_ok_(t.uses)
  BY <1>2 DEF ShareInv, Single, reuse_ok_, HasOpenings, HasLayers
<1>4. CASE MakeTasks
  BY <1>1, <1>4, MadeTasks DEF ShareInv
<1>5. CASE ~MakeTasks
  <2>1. tasks' = tasks
    BY <1>5 DEF Next, SkipEmpty, LeaveToUsers, LeaveToMapped, Convert, ConvertFails,
                AllConverted, planning, vars
  <2>2. QED
    BY <1>1, <2>1 DEF ShareInv
<1>6. QED
  BY <1>4, <1>5

(* The elements of one task fit the products, and are placed once.         *)
LEMMA ElementsInvariant ==
  IInv /\ [Next]_vars => SharedGeometryFits' /\ PlacedOnce'
<1> SUFFICES ASSUME IInv, [Next]_vars PROVE SharedGeometryFits' /\ PlacedOnce'
  OBVIOUS
<1>1. TypeOK /\ ShareInv /\ SharedGeometryFits /\ PlacedOnce
  BY DEF IInv
<1>2. UNCHANGED <<file, settings>>
  BY InputKept DEF input
<1>3. ASSUME NEW t \in tasks \ converted, NEW first \in t.uses,
             NEW s \in Subtractions(first[1]), Convert(t, first, s)
      PROVE  SharedGeometryFits' /\ PlacedOnce'
  <2> DEFINE g == Geometry(first[1], s)
  <2>1. elements' = {Element(first, g, PlaceOf(first[1], g.baked))} \cup
                    {Element(u, g, u[1]) : u \in t.uses \ {first}}
    BY <1>3 DEF Convert
  <2>2. \A u \in t.uses : u[1] \in Products
    BY <1>1 DEF TypeOK, Uses
  <2>3. /\ g.openings = (IF HasOpenings(first[1]) THEN first[1] ELSE None)
        /\ g.layers = (IF HasLayers(first[1]) THEN first[1] ELSE None)
        /\ g.material = MaterialOf(first[1])
        /\ g.baked = BakedFor(first[1], s)
    BY DEF Geometry
  <2> HIDE DEF g
  <2>4. \A u \in t.uses \ {first} :
          /\ ~HasOpenings(u[1]) /\ ~HasLayers(u[1])
          /\ ~HasOpenings(first[1]) /\ ~HasLayers(first[1])
          /\ file.material[u[1]] = file.material[first[1]]
          /\ ~settings.world
    <3>1. SUFFICES ASSUME NEW u \in t.uses \ {first}
                   PROVE  /\ ~HasOpenings(u[1]) /\ ~HasLayers(u[1])
                          /\ ~HasOpenings(first[1]) /\ ~HasLayers(first[1])
                          /\ file.material[u[1]] = file.material[first[1]]
                          /\ ~settings.world
      OBVIOUS
    <3>2. ~Single(t.uses)
      BY <3>1 DEF Single
    <3>3. reuse_ok_(t.uses)
      BY <1>1, <3>2 DEF ShareInv
    <3>4. QED
      BY <3>1, <3>2, <3>3 DEF reuse_ok_
  <2>5. \A u \in t.uses :
          /\ g.openings = (IF HasOpenings(u[1]) THEN u[1] ELSE None)
          /\ g.layers = (IF HasLayers(u[1]) THEN u[1] ELSE None)
          /\ file.material[u[1]] # None => g.material = file.material[u[1]]
    <3>1. SUFFICES ASSUME NEW u \in t.uses
                   PROVE  /\ g.openings = (IF HasOpenings(u[1]) THEN u[1] ELSE None)
                          /\ g.layers = (IF HasLayers(u[1]) THEN u[1] ELSE None)
                          /\ file.material[u[1]] # None => g.material = file.material[u[1]]
      OBVIOUS
    <3>2. CASE u = first
      BY <2>3, <3>2 DEF MaterialOf
    <3>3. CASE u # first
      BY <2>3, <2>4, <3>1, <3>3 DEF MaterialOf
    <3>4. QED
      BY <3>2, <3>3
  <2>6. \A e \in elements' : \E u \in t.uses :
          /\ e.product = u[1] /\ e.geometry = g
          /\ \/ u = first /\ e.place = PlaceOf(first[1], g.baked)
             \/ u # first /\ e.place = u[1]
    BY <2>1 DEF Element
  <2>7. SharedGeometryFits'
    <3>1. SUFFICES ASSUME NEW e \in elements'
                   PROVE
            /\ e.geometry.openings = (IF HasOpenings(e.product) THEN e.product ELSE None)
            /\ e.geometry.layers = (IF HasLayers(e.product) THEN e.product ELSE None)
            /\ file.material[e.product] # None => e.geometry.material = file.material[e.product]
      BY <1>2 DEF SharedGeometryFits, HasOpenings, HasLayers
    <3>2. QED
      BY <2>5, <2>6, <3>1
  <2>8. PlacedOnce'
    <3>1. SUFFICES ASSUME NEW e \in elements'
                   PROVE  \/ e.geometry.baked = e.product /\ e.place = None
                          \/ e.geometry.baked = None /\ e.place = e.product
      BY DEF PlacedOnce
    <3>2. PICK u \in t.uses :
            /\ e.product = u[1] /\ e.geometry = g
            /\ \/ u = first /\ e.place = PlaceOf(first[1], g.baked)
               \/ u # first /\ e.place = u[1]
      BY <2>6
    <3>3. CASE u = first
      BY <2>2, <2>3, <3>2, <3>3, NoneAssumption DEF PlaceOf, BakedFor
    <3>4. CASE u # first
      BY <2>3, <2>4, <3>2, <3>4 DEF BakedFor
    <3>5. QED
      BY <3>3, <3>4
  <2>9. QED
    BY <2>7, <2>8
<1>4. CASE \E t \in tasks \ converted : ConvertFails(t)
  BY <1>4 DEF ConvertFails, SharedGeometryFits, PlacedOnce
<1>5. CASE \/ SkipEmpty \/ LeaveToUsers \/ LeaveToMapped \/ MakeTasks
           \/ AllConverted \/ UNCHANGED vars
  <2>1. elements' = elements
    BY <1>5 DEF SkipEmpty, LeaveToUsers, LeaveToMapped, MakeTasks, Round, AllConverted, vars
  <2>2. QED
    BY <1>1, <1>2, <2>1 DEF SharedGeometryFits, PlacedOnce, HasOpenings, HasLayers
<1>6. QED
  BY <1>3, <1>4, <1>5 DEF Next
------------------------------------------------------------------------------
(* A representation that is shared in the next state is shared in this one, *)
(* with the same products.                                                 *)
LEMMA SharesKept ==
  ASSUME UNCHANGED <<file, settings, passing>>,
         not_reusable_maps_ \subseteq not_reusable_maps_',
         NEW m, m \notin not_reusable_maps_'
  PROVE  /\ Shares(m)' <=> Shares(m)
         /\ products_represented_by(m)' = products_represented_by(m)
         /\ filter_products(products_represented_by(m))' =
              filter_products(products_represented_by(m))
<1>1. products_represented_by(m)' = products_represented_by(m)
  BY DEF products_represented_by, Direct, representation_mapped_to
<1>2. \A S : reuse_ok_(S)' <=> reuse_ok_(S)
  BY DEF reuse_ok_, HasOpenings, HasLayers, Single
<1>3. Shares(m)' <=> Shares(m)
  BY <1>1, <1>2 DEF Shares
<1>4. filter_products(products_represented_by(m))' =
        filter_products(products_represented_by(m))
  BY <1>1 DEF filter_products
<1>5. QED
  BY <1>1, <1>3, <1>4

(* Passing a representation that is shared does not end that.              *)
LEMMA RoundKeepsShared ==
  ASSUME TypeOK, SkipEmpty \/ LeaveToUsers \/ LeaveToMapped \/ MakeTasks,
         NEW m, Shares(m)
  PROVE  m \notin not_reusable_maps_' /\ Shares(m)'
<1>1. m \notin not_reusable_maps_'
  <2>1. SUFFICES ASSUME m \in not_reusable_maps_' PROVE FALSE
    OBVIOUS
  <2>2. m \notin not_reusable_maps_
    BY DEF Shares
  <2>3. m = representation /\ ~geometry_reuse_ok /\ ifcproducts # {}
    BY <2>1, <2>2, RoundEffect
  <2>4. ifcproducts \subseteq products_represented_by(m)
    BY <2>3 DEF ifcproducts, filter_products
  <2>5. geometry_reuse_ok
    BY <2>3, <2>4, ReuseSubset DEF Shares, geometry_reuse_ok
  <2>6. QED
    BY <2>3, <2>5
<1>2. QED
  BY <1>1, RoundEffect, SharesKept DEF input

(* In an orderly file, a representation with products of its own has tasks  *)
(* for them or is left to its mapped representation.                       *)
LEMMA DirectIsPlanned ==
  ASSUME TypeOK, Orderly, SkipEmpty \/ LeaveToUsers \/ LeaveToMapped \/ MakeTasks,
         NEW u \in Direct(representation), u[1] \in passing
  PROVE  \/ \E t \in tasks' : u \in t.uses
         \/ representation_mapped_to(representation) \in ok_mapped_representations'
<1>1. u \in ifcproducts
  BY DEF ifcproducts, filter_products, products_represented_by
<1>2. ~LeftToUsers
  <2>1. file.shown[representation] # {}
    BY DEF Direct
  <2>2. ~MapIsUsed(representation)
    BY <2>1, RoundEffect DEF Orderly, Mapped
  <2>3. QED
    BY <2>2 DEF LeftToUsers
<1>3. CASE LeaveToMapped
  BY <1>3 DEF LeaveToMapped
<1>4. CASE MakeTasks
  <2>1. CASE geometry_reuse_ok
    <3>1. Task(ifcproducts) \in tasks' /\ Task(ifcproducts).uses = ifcproducts
      BY <1>4, <2>1 DEF MakeTasks, Task
    <3>2. QED
      BY <1>1, <3>1
  <2>2. CASE ~geometry_reuse_ok
    <3>1. Task({u}) \in tasks' /\ Task({u}).uses = {u}
      BY <1>1, <1>4, <2>2 DEF MakeTasks, Task
    <3>2. QED
      BY <3>1
  <2>3. QED
    BY <2>1, <2>2
<1>5. QED
  BY <1>1, <1>2, <1>3, <1>4 DEF SkipEmpty, LeaveToUsers

(* A shared mapped representation covers all of its uses.                  *)
LEMMA MappedIsPlanned ==
  ASSUME TypeOK, Orderly, SkipEmpty \/ LeaveToUsers \/ LeaveToMapped \/ MakeTasks,
         representation \in Mapped, Shares(representation),
         NEW u \in filter_products(products_represented_by(representation))
  PROVE  \E t \in tasks' : u \in t.uses
<1>1. u \in ifcproducts /\ ifcproducts \subseteq products_represented_by(representation)
  BY DEF ifcproducts, filter_products
<1>2. geometry_reuse_ok
  BY <1>1, ReuseSubset DEF Shares, geometry_reuse_ok
<1>3. ~LeftToUsers /\ ~LeftToMapped
  BY <1>2 DEF LeftToUsers, LeftToMapped, Orderly
<1>4. MakeTasks
  BY <1>1, <1>3 DEF SkipEmpty, LeaveToUsers, LeaveToMapped
<1>5. Task(ifcproducts) \in tasks' /\ Task(ifcproducts).uses = ifcproducts
  BY <1>2, <1>4 DEF MakeTasks, Task
<1>6. QED
  BY <1>1, <1>5

(* A representation to which products are left is shared.                  *)
LEMMA LeftToShared ==
  ASSUME TypeOK, WellFormed(file), Orderly, LeaveToMapped,
         \A m \in ok_mapped_representations : m \in Mapped /\ Shares(m)
  PROVE  /\ representation_mapped_to(representation) \in Mapped
         /\ Shares(representation_mapped_to(representation))
<1> DEFINE m == representation_mapped_to(representation)
<1>1. representation \in Representations
  BY RoundEffect
<1>2. /\ m # None
      /\ m \in ok_mapped_representations \/ reuse_ok_(products_represented_by(m))
  BY DEF LeaveToMapped, LeftToMapped
<1>3. m = file.item[representation]
  BY <1>2 DEF representation_mapped_to
<1>4. m \in Representations
  BY <1>1, <1>2, UsesType DEF TypeOK
<1>5. m \in file.maps
  BY <1>1, <1>2, <1>3 DEF WellFormed
<1>6. m \in Mapped
  BY <1>1, <1>3, <1>4 DEF Mapped, MapIsUsed
<1> HIDE DEF m
<1>7. CASE m \in ok_mapped_representations
  BY <1>7 DEF m
<1>8. CASE reuse_ok_(products_represented_by(m))
  <2>1. m \notin not_reusable_maps_
    <3>1. SUFFICES ASSUME m \in not_reusable_maps_ PROVE FALSE
      OBVIOUS
    <3>2. Direct(m) = {}
      BY <1>6 DEF Orderly, Direct
    <3>3. products_represented_by(m) = {}
      BY <3>1, <3>2 DEF products_represented_by
    <3>4. ~reuse_ok_({})
      BY DEF reuse_ok_, Single
    <3>5. QED
      BY <1>8, <3>3, <3>4
  <2>2. QED
    BY <1>5, <1>6, <1>8, <2>1 DEF Shares, m
<1>9. QED
  BY <1>2, <1>7, <1>8

LEMMA PlanInvariant == IInv /\ [Next]_vars => PlanInv'
<1> SUFFICES ASSUME IInv, [Next]_vars, Orderly' PROVE PlanInv'
  BY DEF PlanInv
<1>1. TypeOK /\ WellFormed(file) /\ PlanInv
  BY DEF IInv
<1>2. UNCHANGED <<file, settings, passing>>
  BY InputKept DEF input
<1>3. Orderly
  BY <1>2 DEF Orderly, Mapped, MapIsUsed, representation_mapped_to
<1>4. Mapped' = Mapped
  BY <1>2 DEF Mapped, MapIsUsed
<1>5. CASE SkipEmpty \/ LeaveToUsers \/ LeaveToMapped \/ MakeTasks
  <2>1. /\ position \in Nat /\ position' = position + 1
        /\ representation \in Representations
        /\ tasks \subseteq tasks'
        /\ ok_mapped_representations \subseteq ok_mapped_representations'
        /\ not_reusable_maps_ \subseteq not_reusable_maps_'
    BY <1>1, <1>5, RoundEffect
  <2>2. \A n \in 1..position'-1 : n \in 1..position-1 \/ n = position
    BY <2>1
  <2>3. \A u : Covered(u) => Covered(u)'
    BY <2>1 DEF Covered
  <2>4. ASSUME NEW m \in ok_mapped_representations'
        PROVE  m \in Mapped' /\ Shares(m)'
    <3>1. m \in Mapped /\ Shares(m)
      <4>1. CASE m \in ok_mapped_representations
        BY <1>1, <1>3, <4>1 DEF PlanInv
      <4>2. CASE m \notin ok_mapped_representations
        <5>1. LeaveToMapped /\ m = representation_mapped_to(representation)
          BY <1>5, <2>4, <4>2 DEF SkipEmpty, LeaveToUsers, LeaveToMapped, MakeTasks
        <5>2. QED
          BY <1>1, <1>3, <5>1, LeftToShared DEF PlanInv
      <4>3. QED
        BY <4>1, <4>2
    <3>2. QED
      BY <1>1, <1>4, <1>5, <3>1, RoundKeepsShared
  <2>5. ASSUME NEW n \in 1..position'-1, NEW u \in Direct(file.order[n])', (u[1] \in passing)'
        PROVE  \/ Covered(u)'
               \/ representation_mapped_to(file.order[n])' \in ok_mapped_representations'
    <3>1. /\ u \in Direct(file.order[n]) /\ u[1] \in passing
          /\ representation_mapped_to(file.order[n])' = representation_mapped_to(file.order[n])
      BY <1>2, <2>5 DEF Direct, representation_mapped_to
    <3>2. CASE n \in 1..position-1
      BY <1>1, <1>3, <2>1, <2>3, <3>1, <3>2 DEF PlanInv
    <3>3. CASE n = position
      <4>1. file.order[n] = representation
        BY <3>3 DEF representation
      <4>2. QED
        BY <1>1, <1>3, <1>5, <3>1, <4>1, DirectIsPlanned DEF Covered
    <3>4. QED
      BY <2>2, <2>5, <3>2, <3>3
  <2>6. ASSUME NEW n \in 1..position'-1,
               (file.order[n] \in Mapped /\ Shares(file.order[n]))',
               NEW u \in filter_products(products_represented_by(file.order[n]))'
        PROVE  Covered(u)'
    <3> DEFINE r == file.order[n]
    <3>1. file.order[n]' = r /\ r \in Mapped /\ Shares(r)' /\ r \notin not_reusable_maps_'
      BY <1>2, <1>4, <2>6 DEF Shares
    <3>2. Shares(r) /\ u \in filter_products(products_represented_by(r))
      BY <1>2, <2>1, <2>6, <3>1, SharesKept
    <3> HIDE DEF r
    <3>3. CASE n \in 1..position-1
      BY <1>1, <1>3, <2>3, <3>1, <3>2, <3>3 DEF PlanInv, r
    <3>4. CASE n = position
      <4>1. r = representation
        BY <3>4 DEF representation, r
      <4>2. QED
        BY <1>1, <1>3, <1>5, <3>1, <3>2, <4>1, MappedIsPlanned DEF Covered
    <3>5. QED
      BY <2>2, <2>6, <3>3, <3>4
  <2>7. QED
    BY <2>4, <2>5, <2>6 DEF PlanInv
<1>6. CASE UNCHANGED <<input, planning>>
  <2> USE DEF input, planning
  <2>1. \A r : /\ products_represented_by(r)' = products_represented_by(r)
               /\ Direct(r)' = Direct(r)
               /\ representation_mapped_to(r)' = representation_mapped_to(r)
    BY <1>6 DEF products_represented_by, Direct, representation_mapped_to
  <2>2. \A S : reuse_ok_(S)' <=> reuse_ok_(S)
    BY <1>6 DEF reuse_ok_, HasOpenings, HasLayers, Single
  <2>3. \A r : Shares(r)' <=> Shares(r)
    BY <1>6, <2>1, <2>2 DEF Shares
  <2>4. \A r : filter_products(products_represented_by(r))' =
                 filter_products(products_represented_by(r))
    BY <1>6, <2>1 DEF filter_products
  <2>5. \A u : Covered(u)' <=> Covered(u)
    BY <1>6 DEF Covered
  <2>6. \A m \in ok_mapped_representations' : m \in Mapped' /\ Shares(m)'
    BY <1>1, <1>3, <1>4, <1>6, <2>3 DEF PlanInv
  <2>7. \A n \in 1..position'-1 : \A u \in Direct(file.order[n])' :
          (u[1] \in passing)' =>
            \/ Covered(u)'
            \/ representation_mapped_to(file.order[n])' \in ok_mapped_representations'
    BY <1>1, <1>3, <1>6, <2>1, <2>5 DEF PlanInv
  <2>8. \A n \in 1..position'-1 :
          (file.order[n] \in Mapped /\ Shares(file.order[n]))' =>
            \A u \in filter_products(products_represented_by(file.order[n]))' : Covered(u)'
    BY <1>1, <1>3, <1>4, <1>6, <2>3, <2>4, <2>5 DEF PlanInv
  <2>9. QED
    BY <2>6, <2>7, <2>8 DEF PlanInv
<1>7. QED
  BY <1>5, <1>6 DEF Next, Convert, ConvertFails, AllConverted, vars

(* Without filters, a round that makes tasks for others than the direct     *)
(* products of the representation shares it, and it was not possible to     *)
(* leave them to the mapped representation.                                *)
LEMMA MadeOnce ==
  ASSUME TypeOK, WellFormed(file), passing = Products, MakeTasks
  PROVE  /\ ~Shares(representation_mapped_to(representation))
         /\ \A u \in ifcproducts :
              \/ u[2] = representation
              \/ /\ representation_mapped_to(u[2]) = representation
                 /\ Shares(representation)
<1>1. representation \in Representations
  BY RoundEffect
<1>2. ifcproducts = products_represented_by(representation)
  <2>1. products_represented_by(representation) \subseteq Uses
    BY <1>1, UsesType DEF TypeOK
  <2>2. QED
    BY <2>1 DEF ifcproducts, filter_products, Uses
<1>3. ifcproducts # {} /\ ~LeftToUsers /\ ~LeftToMapped
  BY DEF MakeTasks
<1>4. CASE geometry_reuse_ok
  <2>1. ~Shares(representation_mapped_to(representation))
    <3> DEFINE m == representation_mapped_to(representation)
    <3>1. SUFFICES ASSUME Shares(m) PROVE FALSE
      OBVIOUS
    <3>2. m # None
      BY <3>1, NoneAssumption DEF Shares, TypeOK, FileType
    <3>3. QED
      BY <1>3, <1>4, <3>1, <3>2 DEF LeftToMapped, Shares
  <2>2. ASSUME NEW u \in ifcproducts, u[2] # representation
        PROVE  representation_mapped_to(u[2]) = representation /\ Shares(representation)
    <3>1. /\ representation \in file.maps \ not_reusable_maps_
          /\ \E q \in Representations :
               representation_mapped_to(q) = representation /\ u \in Direct(q)
      BY <1>2, <2>2 DEF products_represented_by, Direct
    <3>2. representation_mapped_to(u[2]) = representation
      BY <3>1 DEF Direct
    <3>3. QED
      BY <1>2, <1>4, <3>1, <3>2 DEF Shares, geometry_reuse_ok
  <2>3. QED
    BY <2>1, <2>2
<1>5. CASE ~geometry_reuse_ok
  <2>1. ifcproducts = Direct(representation)
    <3>1. CASE representation \notin file.maps
      BY <1>2, <3>1 DEF products_represented_by
    <3>2. CASE ~MapIsUsed(representation)
      <4>1. \A q \in Representations : representation_mapped_to(q) # representation
        BY <1>1, <3>2, NoneAssumption DEF MapIsUsed, representation_mapped_to
      <4>2. QED
        BY <1>2, <4>1 DEF products_represented_by
    <3>3. QED
      BY <1>3, <1>5, <3>1, <3>2 DEF LeftToUsers
  <2>2. \A u \in ifcproducts : u[2] = representation
    BY <2>1 DEF Direct
  <2>3. ~Shares(representation_mapped_to(representation))
    <3> DEFINE m == representation_mapped_to(representation)
    <3>1. SUFFICES ASSUME Shares(m) PROVE FALSE
      OBVIOUS
    <3>2. Direct(representation) \subseteq products_represented_by(m)
      BY <1>1, <3>1 DEF Shares, products_represented_by
    <3>3. reuse_ok_(ifcproducts)
      BY <1>3, <2>1, <3>1, <3>2, ReuseSubset DEF Shares
    <3>4. QED
      BY <1>5, <3>3 DEF geometry_reuse_ok
  <2>4. QED
    BY <2>2, <2>3
<1>6. QED
  BY <1>4, <1>5

(* The tasks of one round have no use in common.                           *)
LEMMA MadeDisjoint ==
  ASSUME MakeTasks, NEW t \in tasks' \ tasks
  PROVE  /\ t.representation = representation /\ t.uses \subseteq ifcproducts
         /\ \A t1 \in tasks' \ tasks : t1.uses \cap t.uses # {} => t1 = t
<1>1. CASE geometry_reuse_ok
  BY <1>1 DEF MakeTasks, Task
<1>2. CASE ~geometry_reuse_ok
  <2>1. \A t1 \in tasks' \ tasks : \E u \in ifcproducts : t1 = Task({u})
    BY <1>2 DEF MakeTasks
  <2>2. \A u : Task({u}).uses = {u} /\ Task({u}).representation = representation
    BY DEF Task
  <2>3. PICK u \in ifcproducts : t = Task({u})
    BY <2>1
  <2>4. t.representation = representation /\ t.uses = {u}
    BY <2>2, <2>3
  <2>5. ASSUME NEW t1 \in tasks' \ tasks, t1.uses \cap t.uses # {}
        PROVE  t1 = t
    <3>1. PICK w \in ifcproducts : t1 = Task({w})
      BY <2>1
    <3>2. t1.uses = {w}
      BY <2>2, <3>1
    <3>3. w = u
      BY <2>4, <2>5, <3>2
    <3>4. QED
      BY <2>3, <3>1, <3>3
  <2>6. t.uses \subseteq ifcproducts
    BY <2>3, <2>4
  <2>7. QED
    BY <2>4, <2>5, <2>6
<1>3. QED
  BY <1>1, <1>2

LEMMA OnceInvariant == IInv /\ [Next]_vars => OnceInv'
<1> SUFFICES ASSUME IInv, [Next]_vars, (passing = Products)' PROVE OnceInv'
  BY DEF OnceInv
<1>1. TypeOK /\ WellFormed(file) /\ OnceInv
  BY DEF IInv
<1>2. UNCHANGED <<file, settings, passing>> /\ passing = Products
  BY InputKept DEF input
<1>3. \A r : representation_mapped_to(r)' = representation_mapped_to(r)
  BY <1>2 DEF representation_mapped_to
<1>4. CASE SkipEmpty \/ LeaveToUsers \/ LeaveToMapped \/ MakeTasks
  <2>1. /\ position \in Nat /\ position' = position + 1
        /\ position \in 1..Len(file.order)
        /\ Len(file.order) \in Nat
        /\ tasks \subseteq tasks'
        /\ not_reusable_maps_ \subseteq not_reusable_maps_'
    BY <1>1, <1>4, RoundEffect
  <2>2. \A m : Shares(m) <=> Shares(m)'
    <3>1. \A m : Shares(m) => Shares(m)'
      BY <1>1, <1>4, RoundKeepsShared
    <3>2. \A m : Shares(m)' => Shares(m)
      BY <1>2, <2>1, SharesKept DEF Shares
    <3>3. QED
      BY <3>1, <3>2
  <2>3. \A t \in tasks : \E n \in 1..position-1 : file.order[n] = t.representation
    BY <1>1, <1>2 DEF OnceInv
  <2>4. \A t \in tasks' \ tasks : MakeTasks
    BY <1>4 DEF SkipEmpty, LeaveToUsers, LeaveToMapped
  <2>5. \A t \in tasks' \ tasks : t.representation = representation /\ t.uses \subseteq ifcproducts
    BY <2>4, MadeDisjoint
  <2>6. \A t \in tasks' : \E n \in 1..position'-1 : file.order[n] = t.representation
    <3>1. 1..position-1 \subseteq 1..position'-1 /\ position \in 1..position'-1
      BY <2>1
    <3>2. file.order[position] = representation
      BY DEF representation
    <3>3. QED
      BY <2>3, <2>5, <3>1, <3>2
  <2>7. \A t \in tasks' : ~Shares(representation_mapped_to(t.representation))
    BY <1>1, <1>2, <2>4, <2>5, MadeOnce DEF OnceInv
  <2>8. \A t \in tasks' : \A u \in t.uses :
          \/ u[2] = t.representation
          \/ /\ representation_mapped_to(u[2]) = t.representation
             /\ Shares(t.representation)
    BY <1>1, <1>2, <2>4, <2>5, MadeOnce DEF OnceInv
  <2>9. \A t1, t2 \in tasks' :
          t1.uses \cap t2.uses # {} => t1.representation = t2.representation
    <3>1. SUFFICES ASSUME NEW t1 \in tasks', NEW t2 \in tasks',
                          NEW u \in t1.uses, u \in t2.uses
                   PROVE  t1.representation = t2.representation
      OBVIOUS
    <3>2. /\ ~Shares(representation_mapped_to(t1.representation))
          /\ ~Shares(representation_mapped_to(t2.representation))
      BY <2>7
    <3>3. QED
      BY <2>8, <3>1, <3>2
  <2>10. \A t \in tasks : t.representation # representation
    BY <1>1, <2>1, <2>3 DEF WellFormed, representation
  <2>11. \A t1, t2 \in tasks' : t1.uses \cap t2.uses # {} => t1 = t2
    <3>1. SUFFICES ASSUME NEW t1 \in tasks', NEW t2 \in tasks', t1.uses \cap t2.uses # {}
                   PROVE  t1 = t2
      OBVIOUS
    <3>2. t1.representation = t2.representation
      BY <2>9, <3>1
    <3>3. CASE t1 \in tasks /\ t2 \in tasks
      BY <1>1, <1>2, <3>1, <3>3 DEF OnceInv, ConvertedOnce
    <3>4. CASE t1 \notin tasks /\ t2 \notin tasks
      BY <2>4, <3>1, <3>4, MadeDisjoint
    <3>5. QED
      BY <2>5, <2>10, <3>2, <3>3, <3>4
  <2>12. OnceInv'
    BY <1>2, <1>3, <2>2, <2>6, <2>7, <2>8, <2>11 DEF OnceInv, ConvertedOnce
  <2>13. QED
    BY <2>12
<1>5. CASE UNCHANGED <<input, planning>>
  <2> USE DEF input, planning
  <2>1. \A r : products_represented_by(r)' = products_represented_by(r)
    BY <1>5 DEF products_represented_by, Direct, representation_mapped_to
  <2>2. \A S : reuse_ok_(S)' <=> reuse_ok_(S)
    BY <1>5 DEF reuse_ok_, HasOpenings, HasLayers, Single
  <2>3. \A r : Shares(r)' <=> Shares(r)
    BY <1>5, <2>1, <2>2 DEF Shares
  <2>4. QED
    BY <1>1, <1>2, <1>3, <1>5, <2>3 DEF OnceInv, ConvertedOnce
<1>6. QED
  BY <1>4, <1>5 DEF Next, Convert, ConvertFails, AllConverted, vars

(* The invariant holds in every reachable state.                           *)
LEMMA InvariantHolds == Spec => []IInv
<1>1. WellFormed(file) /\ [Next]_vars => WellFormed(file)'
  BY InputKept DEF WellFormed, input
<1>2. IInv /\ [Next]_vars => IInv'
  BY <1>1, TypeInvariant, ShareInvariant, ElementsInvariant, PlanInvariant,
     OnceInvariant DEF IInv
<1>3. QED
  BY <1>2, InitInvariant, PTL DEF Spec

(* The plan and the elements are well typed.                               *)
THEOREM TypeCorrect == Spec => []TypeOK
<1>1. IInv => TypeOK
  BY DEF IInv
<1>2. QED
  BY <1>1, InvariantHolds, PTL

(* A geometry that products share fits each of them, whatever the file and  *)
(* the settings.                                                           *)
THEOREM SharingFits == Spec => []SharedGeometryFits
<1>1. IInv => SharedGeometryFits
  BY DEF IInv
<1>2. QED
  BY <1>1, InvariantHolds, PTL

(* The placement of a product is applied exactly once, whether or not its   *)
(* geometry is shared and whatever became of its openings.                 *)
THEOREM PlacementOnce == Spec => []PlacedOnce
<1>1. IInv => PlacedOnce
  BY DEF IInv
<1>2. QED
  BY <1>1, InvariantHolds, PTL

(* In an orderly file of any size, every product that passes the filters is *)
(* in a task of each of its representations or of what these map.          *)
THEOREM NoProductLeftOut == Spec => []NothingLeftOut
<1>1. IInv => NothingLeftOut
  <2>1. SUFFICES ASSUME IInv, Planned, Orderly, NEW u \in Wanted
                 PROVE  \E t \in tasks : u \in t.uses
    BY DEF NothingLeftOut
  <2>2. TypeOK /\ PlanInv /\ file.order \in Seq(Representations)
    BY <2>1 DEF IInv, TypeOK, FileType
  <2>3. /\ Len(file.order) \in Nat /\ DOMAIN file.order = 1..Len(file.order)
        /\ position \in Nat /\ position > Len(file.order)
    BY <2>1, <2>2, LenProperties DEF TypeOK, Planned
  <2>4. DOMAIN file.order \subseteq 1..position-1
    BY <2>3
  <2>5. PICK n \in DOMAIN file.order : file.order[n] = u[2]
    BY DEF Wanted
  <2>6. u \in Direct(file.order[n]) /\ u[1] \in passing /\ file.order[n] \in Representations
    BY <2>5 DEF Wanted, Uses, Direct
  <2>7. CASE Covered(u)
    BY <2>7 DEF Covered
  <2>8. CASE ~Covered(u)
    <3> DEFINE m == representation_mapped_to(file.order[n])
    <3>1. m \in ok_mapped_representations
      BY <2>1, <2>2, <2>4, <2>5, <2>6, <2>8 DEF PlanInv
    <3>2. m \in Mapped /\ Shares(m)
      BY <2>1, <2>2, <3>1 DEF PlanInv
    <3>3. PICK k \in DOMAIN file.order : file.order[k] = m
      BY <2>1, <3>2 DEF Orderly
    <3>4. u \in filter_products(products_represented_by(m))
      BY <2>6, <3>2 DEF Shares, filter_products, products_represented_by
    <3>5. QED
      BY <2>1, <2>2, <2>4, <2>8, <3>2, <3>3, <3>4 DEF PlanInv
  <2>9. QED
    BY <2>7, <2>8
<1>2. QED
  BY <1>1, InvariantHolds, PTL

(* Without filters no product is converted twice with one representation,   *)
(* nested maps and files that are not orderly included.                    *)
THEOREM NothingTwice == Spec => []ConvertedOnceUnfiltered
<1>1. IInv => ConvertedOnceUnfiltered
  BY DEF IInv, OnceInv, ConvertedOnceUnfiltered
<1>2. QED
  BY <1>1, InvariantHolds, PTL
================================================================================
