------------------------ MODULE MCConcurrentIterator ------------------------
(* Small instances of ConcurrentIterator for TLC. *)
EXTENDS ConcurrentIterator

(* One representation is shared by two products, the others have one. *)
MCProducts == [t \in 1..NumTasks |-> IF t = 1 THEN 2 ELSE 1]
=============================================================================
