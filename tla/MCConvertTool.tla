---------------------------- MODULE MCConvertTool -----------------------------
(* Small instances of ConvertTool for TLC. *)
EXTENDS ConvertTool

(* The first and the third representation are shared by two products. *)
MCProducts == [t \in 1..NumTasks |-> IF t % 2 = 1 THEN 2 ELSE 1]
==============================================================================
