----------------------------- MODULE MCGeomServer -----------------------------
(* Small instances of GeomServer for TLC. *)
EXTENDS GeomServer

(* The first and the third representation are shared by three products. *)
MCProducts == [t \in 1..NumTasks |-> IF t % 2 = 1 THEN 3 ELSE 1]
==============================================================================
