--------------------------- MODULE MCGeometryTasks ----------------------------
(* Small instances of GeometryTasks for TLC. *)
EXTENDS GeometryTasks

CONSTANTS p1, p2, m, q1, q2, wood, steel

(* m is the mapped representation, q1 and q2 may have an item that uses it; *)
(* in one of the files m itself uses q1. The mapped representation first,   *)
(* between or after those that use it, or                                   *)
(* outside the selected contexts. *)
Orders == {<<m, q1, q2>>, <<q1, m, q2>>, <<q1, q2, m>>, <<q1, q2>>}

Items == {[r \in Representations |-> IF r \in users THEN m ELSE None] : users \in SUBSET {q1, q2}}
         \cup {[r \in Representations |-> IF r = q2 THEN m ELSE IF r = m THEN q1 ELSE None]}

Shown == {[r \in Representations |-> IF r = m THEN a ELSE IF r = q1 THEN b ELSE c] :
            a \in {{}, {p1}, {p1, p2}}, b \in {{}, {p1}, {p1, p2}}, c \in {{}, {p1}, {p2}}}

(* Openings, layers, materials, and the settings with which they matter. *)
Plain == [opened |-> {}, layered |-> {}, material |-> [p \in Products |-> None],
          type_material |-> [p \in Products |-> None]]
Made(a, b) == [p \in Products |-> IF p = p1 THEN a ELSE b]
Traits ==
  {Plain,
   [Plain EXCEPT !.opened = {p2}],
   [Plain EXCEPT !.layered = {p2}],
   [Plain EXCEPT !.material = Made(wood, steel)],
   [Plain EXCEPT !.material = Made(None, wood)],
   [Plain EXCEPT !.material = Made(wood, wood), !.opened = {p1, p2}],
   [Plain EXCEPT !.type_material = Made(wood, steel)]}

Default == [world |-> FALSE, layersets |-> FALSE, no_openings |-> FALSE]
SettingsFor(t) ==
  {Default, [Default EXCEPT !.world = TRUE]}
  \cup (IF t.opened # {} THEN {[Default EXCEPT !.no_openings = TRUE]} ELSE {})
  \cup (IF t.layered # {} THEN {[Default EXCEPT !.layersets = TRUE]} ELSE {})
Cases == UNION {{[traits |-> t, settings |-> s] : s \in SettingsFor(t)} : t \in Traits}

MCInputs ==
  {[settings |-> c.settings,
    file |-> [order |-> o, shown |-> s, item |-> i, plain |-> pl,
              maps |-> ({i[r] : r \in Representations} \cup extra) \ {None},
              opened |-> c.traits.opened, layered |-> c.traits.layered,
              material |-> c.traits.material, type_material |-> c.traits.type_material]] :
      o \in Orders, s \in Shown, i \in Items, pl \in {{q1, q2, m}, {q1}},
      extra \in {{}, {m}, {q1}}, c \in Cases}

MCFilters == {{p1, p2}, {p1}}
==============================================================================
