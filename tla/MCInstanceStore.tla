-------------------------- MODULE MCInstanceStore --------------------------
(* Small instances of InstanceStore for TLC. *)
EXTENDS InstanceStore

(* Odd numbers refer to even ones. *)
MCRank == [o \in Objects |-> o % 2]

Origins(own, foreign, copies) ==
  [o \in Objects |-> IF o \in own THEN "none" ELSE IF o \in foreign THEN "other"
                     ELSE IF o \in copies THEN "unborn" ELSE "freed"]

(* Two instances of its own and one of another file, and everything but     *)
(* graphs under a given name.                                               *)
Careless ==
  [calls |-> {"unset", "batch order", "shared guid"}, explicit |-> {1},
   origin |-> Origins({1, 4}, {3}, {5})]

(* An instance of its own and two of another file. *)
Diligent ==
  [calls |-> {}, explicit |-> {2}, origin |-> Origins({1}, {3, 4}, {5, 6})]

(* Two instances of its own, whose attributes it unsets. *)
Unsetting ==
  [calls |-> {"unset"}, explicit |-> {1}, origin |-> Origins({1, 2}, {}, {})]

BothClients == {Careless, Diligent}
UnsettingClient == {Unsetting}
=============================================================================
