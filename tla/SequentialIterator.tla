-------------------------- MODULE SequentialIterator --------------------------
(***************************************************************************)
(* IfcGeom::Iterator with num_threads_ = 1 (src/IFC/src/ifcgeom/Iterator.h)*)
(*                                                                         *)
(* There is one thread: a representation is converted inside the call of   *)
(* initialize() or next() that needs its first element. An exception ends  *)
(* that call with a null pointer, as the end of the file does.             *)
(***************************************************************************)
EXTENDS Integers, Sequences

CONSTANTS
  NumTasks,     \* bound: the largest number of representations found
  Products      \* Products[t]: how many products share representation t

Tasks == 1..NumTasks

ASSUME TasksAssumption == NumTasks \in Nat
ASSUME ProductsAssumption == Products \in [Tasks -> Nat \ {0}]

VARIABLES
  total,        \* tasks_.size(), the number of representations found
  elements,     \* all_processed_elements_
  cursor,       \* task_result_iterator_, as a position; 0: not initialised
  next_task,    \* task_iterator_
  had_error,    \* had_error_processing_elements_
  outcome,      \* initialization_outcome_
  answer,       \* the last result: "null" and "failed" are both nullptr
  client        \* where the client is: inside create(), outside a call, gone

vars == <<total, elements, cursor, next_task, had_error, outcome, answer, client>>

Init ==
  /\ total = 0
  /\ elements = <<>> /\ cursor = 0
  /\ next_task = 1
  /\ had_error = FALSE
  /\ outcome = "unset" /\ answer = "none" /\ client = "free"

(* What create_element_() can leave in rep->elements: nothing, or an        *)
(* element of the first product and of any of the others, in order.        *)
Results(t) ==
  {<<>>} \cup
  {r \in UNION {[1..k -> {t} \X (1..Products[t])] : k \in 1..Products[t]} :
     r[1][2] = 1 /\ \A m, n \in DOMAIN r : m < n => r[m][2] < r[n][2]}

(* The result of create(), as initialize() or next() uses it. *)
Answer(a) ==
  /\ answer' = a
  /\ client' = "free"
  /\ outcome' = IF outcome = "unset" THEN IF a = "element" THEN "true" ELSE "false"
                ELSE outcome

Initialize ==
  /\ client = "free" /\ outcome = "unset"
  /\ total' \in Tasks
  /\ client' = "create"
  /\ UNCHANGED <<elements, cursor, next_task, had_error, outcome, answer>>

InitializeNoTasks ==
  /\ client = "free" /\ outcome = "unset"
  /\ Answer("null")
  /\ UNCHANGED <<total, elements, cursor, next_task, had_error>>

(* Mutant: off by one at the end of the list. *)
NextElementPastEnd ==
  /\ client = "free" /\ outcome = "true" /\ cursor <= Len(elements)
  /\ cursor' = cursor + 1
  /\ Answer("element")
  /\ UNCHANGED <<total, elements, next_task, had_error>>

(* Mutant: the cursor is advanced twice. *)
NextElementSkips ==
  /\ client = "free" /\ outcome = "true" /\ cursor < Len(elements)
  /\ cursor' = IF cursor + 1 < Len(elements) THEN cursor + 2 ELSE cursor + 1
  /\ Answer("element")
  /\ UNCHANGED <<total, elements, next_task, had_error>>

(* next() within the elements of the current representation *)
NextElement ==
  /\ client = "free" /\ outcome = "true" /\ cursor < Len(elements)
  /\ cursor' = cursor + 1
  /\ Answer("element")
  /\ UNCHANGED <<total, elements, next_task, had_error>>

(* next() on the last element converted so far *)
NextTask ==
  /\ client = "free" /\ outcome = "true" /\ cursor = Len(elements)
  /\ client' = "create"
  /\ UNCHANGED <<total, elements, cursor, next_task, had_error, outcome, answer>>

(* Mutant: the iterator over the tasks is not advanced. *)
ConvertTaskAgain ==
  /\ client = "create" /\ next_task <= total
  /\ \E result \in Results(next_task) :
       /\ elements' = elements \o result
       /\ cursor' = IF cursor = 0 /\ result # <<>> THEN 1 ELSE cursor
       /\ client' = IF result = <<>> THEN "create" ELSE "created"
  /\ UNCHANGED <<total, next_task, had_error, outcome, answer>>

(* One turn of the loop in create_shape_model_for_next_entity(). A task     *)
(* without elements is passed over; otherwise process_finished_rep()        *)
(* appends its elements, and next() advances.                              *)
ConvertTask ==
  /\ client = "create" /\ next_task <= total
  /\ next_task' = next_task + 1
  /\ \E result \in Results(next_task) :
       /\ elements' = elements \o result
       /\ cursor' = IF cursor = 0 /\ result # <<>> THEN 1 ELSE cursor
       /\ client' = IF result = <<>> THEN "create" ELSE "created"
  /\ UNCHANGED <<total, had_error, outcome, answer>>

Created ==
  /\ client = "created"
  /\ cursor' = IF outcome = "true" THEN cursor + 1 ELSE cursor
  /\ Answer("element")
  /\ UNCHANGED <<total, elements, next_task, had_error>>

(* create_element_() throws; create() logs it and returns nullptr. What     *)
(* the task had produced stays in the task and is never delivered.         *)
ConvertThrows ==
  /\ client = "create" /\ next_task <= total
  /\ next_task' = next_task + 1
  /\ had_error' = TRUE
  /\ Answer("failed")
  /\ UNCHANGED <<total, elements, cursor>>

(* Mutant: the iterator over the tasks is advanced past their end. *)
NoTaskLeftAdvances ==
  /\ client = "create" /\ next_task > total
  /\ next_task' = next_task + 1
  /\ Answer("null")
  /\ UNCHANGED <<total, elements, cursor, had_error>>

NoTaskLeft ==
  /\ client = "create" /\ next_task > total
  /\ Answer("null")
  /\ UNCHANGED <<total, elements, cursor, next_task, had_error>>

Destroy ==
  /\ client = "free"
  /\ client' = "gone"
  /\ UNCHANGED <<total, elements, cursor, next_task, had_error, outcome, answer>>

Gone == client = "gone" /\ UNCHANGED vars

Call == ConvertTask \/ Created \/ ConvertThrows \/ NoTaskLeft

Next == Initialize \/ InitializeNoTasks \/ NextElement \/ NextTask \/ Call \/ Destroy \/ Gone

Spec == Init /\ [][Next]_vars
------------------------------------------------------------------------------
TypeOK ==
  /\ total \in 0..NumTasks
  /\ elements \in Seq(Tasks \X (Nat \ {0}))
  /\ cursor \in Nat /\ next_task \in 1..total+1
  /\ had_error \in BOOLEAN
  /\ outcome \in {"unset", "true", "false"}
  /\ answer \in {"none", "element", "null", "failed"}
  /\ client \in {"free", "create", "created", "gone"}

(* After a successful initialize(), get() is on an element, also when       *)
(* next() has answered that there are no more or has swallowed an           *)
(* exception; and the answer "element" means that get() moved.             *)
GetIsValid ==
  client = "free" /\ outcome = "true" =>
    /\ cursor \in 1..Len(elements)
    /\ answer \in {"null", "failed"} => cursor = Len(elements)

(* initialize() answers false only if nothing was produced so far, so no    *)
(* element is hidden behind a cursor that was never set.                   *)
FalseMeansNothing ==
  outcome = "false" => elements = <<>> /\ (had_error \/ next_task > total)

(* Why all this holds: the elements are those of the tasks that were begun; *)
(* the cursor is on the last one when another task is begun, and before the *)
(* end when one was converted; and "no more" is only said after all tasks.  *)
CallInv ==
  /\ cursor = 0 <=> elements = <<>>
  /\ cursor <= Len(elements)
  /\ \A n \in 1..Len(elements) : elements[n][1] < next_task
  /\ client \in {"create", "created"} => total > 0 /\ outcome # "false"
  /\ client = "create" => cursor = Len(elements)
  /\ client = "created" => elements # <<>>
  /\ outcome = "unset" <=> answer = "none"
  /\ outcome = "unset" => cursor <= 1
  /\ outcome = "unset" /\ client # "created" => elements = <<>>
  /\ outcome = "unset" /\ client = "free" => total = 0
  /\ outcome = "true" =>
       total > 0 /\ cursor > 0 /\ (client = "created" => cursor < Len(elements))
  /\ answer = "null" => next_task > total
  /\ answer = "failed" => had_error
  /\ outcome = "true" /\ client = "free" /\ answer \in {"null", "failed"} =>
       cursor = Len(elements)

(* The inductive invariant *)
IInv == TypeOK /\ CallInv /\ FalseMeansNothing

(* The sequential iterator implements the same stream as the concurrent     *)
(* one. An exception does not count as the announcement of the end.        *)
taken == IF outcome = "true" THEN cursor ELSE 0

Stream == INSTANCE ElementStream WITH
  stream <- elements, closed <- total > 0 /\ next_task > total,
  ended <- (answer = "null" /\ total > 0)

ImplementsStream == Stream!StreamSpec
==============================================================================
