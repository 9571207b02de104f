---------------------------- MODULE ElementStream ----------------------------
(***************************************************************************)
(* What a geometry iterator promises to its client, whatever the number of *)
(* threads behind it: a stream of elements to which the results of one     *)
(* representation (a "task") are appended together, at most once and in    *)
(* product order; a reader that takes the elements one by one; and an end  *)
(* that is only announced after the last element has been appended.        *)
(*                                                                         *)
(* ConcurrentIterator and SequentialIterator implement this specification. *)
(***************************************************************************)
EXTENDS Integers, Sequences

CONSTANT Tasks      \* the representations to convert

VARIABLES
  stream,           \* every element produced so far, <<task, product>> pairs
  closed,           \* nothing more will be appended
  taken,            \* how many elements the reader has been given
  ended             \* the last answer to the reader was "no more"

streamVars == <<stream, closed, taken, ended>>

StreamInit ==
  /\ stream = <<>>
  /\ closed = FALSE
  /\ taken = 0
  /\ ended = FALSE

(***************************************************************************)
(* The elements of task t, in the order of its products, go to the end of  *)
(* the stream. A task is published once, and the last one may close it.    *)
(***************************************************************************)
Publish(t) ==
  /\ ~closed
  /\ \A n \in 1..Len(stream) : stream[n][1] # t
  /\ Len(stream') > Len(stream)
  /\ \A n \in 1..Len(stream) : stream'[n] = stream[n]
  /\ \A n \in Len(stream)+1..Len(stream') : stream'[n][1] = t
  /\ \A m, n \in Len(stream)+1..Len(stream') :
        m < n => stream'[m][2] < stream'[n][2]
  /\ closed' \in BOOLEAN
  /\ UNCHANGED <<taken, ended>>

Close ==
  /\ closed' = TRUE
  /\ UNCHANGED <<stream, taken, ended>>

(* The reader is given the next element, also when it asks once more after  *)
(* it was told that there is none.                                         *)
Take ==
  /\ taken < Len(stream)
  /\ taken' = taken + 1
  /\ ended' = FALSE
  /\ UNCHANGED <<stream, closed>>

(* The reader is told that there are no more elements. *)
End ==
  /\ closed
  /\ ended' = TRUE
  /\ UNCHANGED <<stream, closed, taken>>

StreamNext == (\E t \in Tasks : Publish(t)) \/ Close \/ Take \/ End

StreamSpec == StreamInit /\ [][StreamNext]_streamVars
==============================================================================
