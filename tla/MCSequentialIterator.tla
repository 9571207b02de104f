------------------------ MODULE MCSequentialIterator ------------------------
(* Small instances of SequentialIterator for TLC. *)
EXTENDS SequentialIterator

(* Every other representation is shared by three products. *)
MCProducts == [t \in 1..NumTasks |-> IF t % 2 = 1 THEN 3 ELSE 1]
=============================================================================
