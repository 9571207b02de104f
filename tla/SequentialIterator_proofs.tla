----------------------- MODULE SequentialIterator_proofs -----------------------
(***************************************************************************)
(* Theorems about SequentialIterator, for any number of representations    *)
(* and of products that share them.                                        *)
(***************************************************************************)
EXTENDS SequentialIterator, SequenceTheorems, TLAPS

Elements == Tasks \X (Nat \ {0})

(* A conversion yields elements of its own task, in the order of products. *)
LEMMA ResultsProperties ==
  ASSUME NEW t \in Tasks, NEW r \in Results(t)
  PROVE  /\ r \in Seq(Elements)
         /\ \A n \in 1..Len(r) : r[n][1] = t
         /\ \A m, n \in 1..Len(r) : m < n => r[m][2] < r[n][2]
<1>1. CASE r = <<>>
  BY <1>1, EmptySeq
<1>2. CASE r # <<>>
  <2>1. PICK k \in 1..Products[t] :
          /\ r \in [1..k -> {t} \X (1..Products[t])]
          /\ \A m, n \in DOMAIN r : m < n => r[m][2] < r[n][2]
    BY <1>2 DEF Results
  <2>2. k \in Nat /\ Products[t] \in Nat
    BY ProductsAssumption
  <2>3. r \in Seq({t} \X (1..Products[t]))
    BY <2>1, <2>2, SeqDef
  <2>4. Len(r) = k /\ DOMAIN r = 1..k
    BY <2>1, <2>2, <2>3, LenProperties
  <2>5. {t} \X (1..Products[t]) \subseteq Elements
    BY <2>2 DEF Elements
  <2>6. r \in Seq(Elements)
    BY <2>3, <2>5, SeqMonotonic
  <2>7. \A n \in 1..Len(r) : r[n][1] = t
    BY <2>1, <2>4
  <2>8. QED
    BY <2>1, <2>4, <2>6, <2>7
<1>3. QED
  BY <1>1, <1>2

(* Where the elements of the converted task end up in the list.            *)
LEMMA ConvertEffect ==
  ASSUME TypeOK, NEW r \in Seq(Elements), elements' = elements \o r
  PROVE  /\ elements' \in Seq(Elements)
         /\ elements \in Seq(Elements)
         /\ Len(elements) \in Nat /\ Len(r) \in Nat
         /\ Len(elements') = Len(elements) + Len(r)
         /\ \A n \in 1..Len(elements) : elements'[n] = elements[n]
         /\ \A n \in Len(elements)+1..Len(elements') :
              /\ n - Len(elements) \in 1..Len(r)
              /\ elements'[n] = r[n - Len(elements)]
         /\ r # <<>> => Len(r) > 0
         /\ r = <<>> => elements' = elements
<1>1. elements \in Seq(Elements)
  BY DEF TypeOK, Elements
<1>2. Len(elements) \in Nat /\ Len(r) \in Nat
  BY <1>1, LenProperties
<1>3. /\ elements' \in Seq(Elements)
      /\ Len(elements') = Len(elements) + Len(r)
      /\ \A n \in 1..Len(elements) + Len(r) :
           elements'[n] = IF n <= Len(elements) THEN elements[n] ELSE r[n - Len(elements)]
  BY <1>1, ConcatProperties
<1>4. r # <<>> => Len(r) > 0
  BY EmptySeq
<1>5. r = <<>> => elements' = elements
  BY <1>1, ConcatEmptySeq
<1>6. QED
  BY <1>1, <1>2, <1>3, <1>4, <1>5

(* A task that is begun is one of the representations.                     *)
LEMMA TaskInRange ==
  ASSUME TypeOK, next_task <= total
  PROVE  next_task \in Tasks /\ total \in Nat /\ next_task \in Nat
BY TasksAssumption DEF TypeOK, Tasks

LEMMA InitInvariant == Init => IInv
<1> SUFFICES ASSUME Init PROVE IInv
  OBVIOUS
<1>1. <<>> \in Seq(Elements) /\ Len(<<>>) = 0
  BY EmptySeq
<1>2. TypeOK
  <2>1. elements \in Seq(Tasks \X (Nat \ {0}))
    BY <1>1 DEF Init, Elements
  <2>2. total \in 0..NumTasks /\ next_task \in 1..total+1 /\ cursor \in Nat
    BY TasksAssumption DEF Init
  <2>3. QED
    BY <2>1, <2>2 DEF Init, TypeOK
<1>3. CallInv /\ FalseMeansNothing
  BY <1>1 DEF Init, CallInv, FalseMeansNothing
<1>4. QED
  BY <1>2, <1>3 DEF IInv

(* The conversion of one task keeps the invariant.                         *)
LEMMA ConvertTaskInvariant == IInv /\ ConvertTask => IInv'
<1> SUFFICES ASSUME IInv, ConvertTask PROVE IInv'
  OBVIOUS
<1>1. TypeOK /\ CallInv /\ FalseMeansNothing
  BY DEF IInv
<1>2. /\ client = "create" /\ next_task <= total /\ next_task' = next_task + 1
      /\ UNCHANGED <<total, had_error, outcome, answer>>
  BY DEF ConvertTask
<1>3. next_task \in Tasks /\ total \in Nat /\ next_task \in Nat
  BY <1>1, <1>2, TaskInRange
<1>4. PICK r \in Results(next_task) :
        /\ elements' = elements \o r
        /\ cursor' = IF cursor = 0 /\ r # <<>> THEN 1 ELSE cursor
        /\ client' = IF r = <<>> THEN "create" ELSE "created"
  BY DEF ConvertTask
<1>5. r \in Seq(Elements) /\ \A n \in 1..Len(r) : r[n][1] = next_task
  BY <1>3, <1>4, ResultsProperties
<1>6. /\ elements' \in Seq(Elements)
      /\ elements \in Seq(Elements)
      /\ Len(elements) \in Nat /\ Len(r) \in Nat
      /\ Len(elements') = Len(elements) + Len(r)
      /\ \A n \in 1..Len(elements) : elements'[n] = elements[n]
      /\ \A n \in Len(elements)+1..Len(elements') :
           /\ n - Len(elements) \in 1..Len(r)
           /\ elements'[n] = r[n - Len(elements)]
      /\ r # <<>> => Len(r) > 0
      /\ r = <<>> => elements' = elements
  BY <1>1, <1>4, <1>5, ConvertEffect
<1>7. TypeOK'
  BY <1>1, <1>2, <1>3, <1>4, <1>6 DEF TypeOK, Elements
<1>8. \A n \in 1..Len(elements') : elements'[n][1] < next_task'
  <2>1. \A n \in 1..Len(elements) : elements[n] \in Elements
    BY <1>6, ElementOfSeq
  <2>2. \A n \in 1..Len(elements) : elements[n][1] \in Nat
    BY <2>1, TasksAssumption DEF Elements, Tasks
  <2>3. \A n \in 1..Len(elements) : elements'[n][1] < next_task'
    <3>1. \A n \in 1..Len(elements) : elements[n][1] < next_task
      BY <1>1 DEF CallInv
    <3>2. \A n \in 1..Len(elements) : elements[n][1] < next_task + 1
      BY <1>3, <2>2, <3>1
    <3>3. QED
      BY <1>2, <1>6, <3>2
  <2>4. \A n \in Len(elements)+1..Len(elements') : elements'[n][1] < next_task'
    BY <1>2, <1>3, <1>5, <1>6, SMTT(20)
  <2>5. QED
    BY <1>6, <2>3, <2>4
<1>9. elements = <<>> => Len(elements) = 0
  BY EmptySeq
<1>10. elements # <<>> => Len(elements) > 0
  BY <1>6, EmptySeq
<1>11. Len(elements') > 0 => elements' # <<>>
  BY EmptySeq
<1>12. CallInv'
  BY <1>1, <1>2, <1>3, <1>4, <1>6, <1>7, <1>8, <1>9, <1>10, <1>11 DEF CallInv, TypeOK
<1>13. FalseMeansNothing'
  BY <1>1, <1>2 DEF CallInv, FalseMeansNothing
<1>14. QED
  BY <1>7, <1>12, <1>13 DEF IInv

LEMMA NextInvariant == IInv /\ [Next]_vars => IInv'
<1> SUFFICES ASSUME IInv, [Next]_vars PROVE IInv'
  OBVIOUS
<1>0. \A k \in Nat : 1 \in 1..k+1
  OBVIOUS
<1> USE DEF IInv, TypeOK, CallInv, FalseMeansNothing
<1>1. Len(elements) \in Nat /\ (elements # <<>> => Len(elements) > 0)
  BY LenProperties, EmptySeq
<1>2. Len(<<>>) = 0
  BY EmptySeq
<1>3. CASE Initialize
  <2>1. total' \in 0..NumTasks /\ total' > 0 /\ total = 0 /\ next_task = 1
    BY <1>3, TasksAssumption DEF Initialize, Tasks
  <2>2. TypeOK'
    <3>1. total' \in Nat /\ next_task' = 1
      BY <1>3, <2>1, TasksAssumption DEF Initialize
    <3>2. next_task' \in 1..total'+1
      BY <1>0, <3>1, Zenon
    <3>3. QED
      BY <1>3, <2>1, <3>2 DEF Initialize
  <2>3. CallInv' /\ FalseMeansNothing'
    BY <1>1, <1>2, <1>3, <2>1 DEF Initialize
  <2>4. QED
    BY <2>2, <2>3
<1>4. CASE InitializeNoTasks
  <2>1. TypeOK'
    BY <1>4 DEF InitializeNoTasks, Answer
  <2>2. CallInv' /\ FalseMeansNothing'
    BY <1>1, <1>2, <1>4, TasksAssumption DEF InitializeNoTasks, Answer
  <2>3. QED
    BY <2>1, <2>2
<1>5. CASE NextElement
  BY <1>1, <1>2, <1>5, TasksAssumption DEF NextElement, Answer
<1>6. CASE NextTask
  <2>1. TypeOK'
    BY <1>6 DEF NextTask
  <2>2. CallInv' /\ FalseMeansNothing'
    BY <1>1, <1>2, <1>6 DEF NextTask
  <2>3. QED
    BY <2>1, <2>2
<1>7. CASE ConvertTask
  BY <1>7, ConvertTaskInvariant
<1>8. CASE Created
  BY <1>1, <1>2, <1>8, TasksAssumption DEF Created, Answer
<1>9. CASE ConvertThrows
  <2>1. next_task \in Tasks /\ total \in Nat /\ next_task \in Nat
    BY <1>9, TaskInRange DEF ConvertThrows
  <2>2. \A n \in 1..Len(elements) : elements[n][1] \in Nat
    <3>1. \A n \in 1..Len(elements) : elements[n] \in Elements
      BY ElementOfSeq DEF Elements
    <3>2. QED
      BY <3>1, TasksAssumption DEF Elements, Tasks
  <2>3. QED
    BY <1>1, <1>2, <1>9, <2>1, <2>2, TasksAssumption DEF ConvertThrows, Answer
<1>10. CASE NoTaskLeft
  BY <1>1, <1>2, <1>10, TasksAssumption DEF NoTaskLeft, Answer
<1>11. CASE Destroy
  BY <1>1, <1>2, <1>11 DEF Destroy
<1>12. CASE Gone \/ UNCHANGED vars
  BY <1>12 DEF Gone, vars
<1>13. QED
  BY <1>3, <1>4, <1>5, <1>6, <1>7, <1>8, <1>9, <1>10, <1>11, <1>12 DEF Next, Call

(* The invariant holds in every reachable state. *)
LEMMA InvariantHolds == Spec => []IInv
BY InitInvariant, NextInvariant, PTL DEF Spec

(* What was produced stays, in its place.                                   *)
LEMMA ElementsGrow ==
  ASSUME IInv, [Next]_vars
  PROVE  /\ Len(elements) \in Nat /\ Len(elements') \in Nat
         /\ Len(elements) <= Len(elements')
         /\ \A n \in 1..Len(elements) : elements'[n] = elements[n]
<1>1. Len(elements) \in Nat /\ TypeOK
  BY LenProperties DEF IInv, TypeOK
<1>2. CASE ConvertTask
  <2>1. next_task \in Tasks
    BY <1>1, <1>2, TaskInRange DEF ConvertTask
  <2>2. PICK r \in Results(next_task) : elements' = elements \o r
    BY <1>2 DEF ConvertTask
  <2>3. r \in Seq(Elements)
    BY <2>1, ResultsProperties
  <2>4. QED
    BY <1>1, <2>2, <2>3, ConvertEffect
<1>3. CASE ~ConvertTask
  <2>1. elements' = elements
    BY <1>3 DEF Next, Call, Initialize, InitializeNoTasks, NextElement, NextTask, Created,
                ConvertThrows, NoTaskLeft, Destroy, Gone, vars
  <2>2. QED
    BY <1>1, <2>1
<1>4. QED
  BY <1>2, <1>3

(* What the invariant of the iterator says to its user.                    *)
LEMMA IteratorFacts ==
  ASSUME IInv
  PROVE  /\ elements \in Seq((1..NumTasks) \X (Nat \ {0})) /\ Len(elements) \in Nat
         /\ cursor \in Nat /\ cursor <= Len(elements)
         /\ outcome = "true" => cursor > 0
         /\ outcome = "true" /\ client = "free" =>
              /\ cursor \in 1..Len(elements)
              /\ answer # "element" =>
                   cursor = Len(elements) /\ (next_task > total \/ had_error)
         /\ client = "create" => cursor = Len(elements)
         /\ client \in {"create", "created"} => outcome # "false"
         /\ client = "created" /\ outcome = "unset" => cursor = 1
<1>1. TypeOK /\ CallInv
  BY DEF IInv
<1>2. elements \in Seq((1..NumTasks) \X (Nat \ {0})) /\ cursor \in Nat
  BY <1>1 DEF TypeOK, Tasks
<1>3. Len(elements) \in Nat
  BY <1>2, LenProperties
<1>4. answer \in {"none", "element", "null", "failed"}
  BY <1>1 DEF TypeOK
<1>5. client = "created" /\ outcome = "unset" => cursor = 1
  BY <1>1, <1>2 DEF CallInv
<1>6. outcome = "true" /\ client = "free" =>
        /\ cursor \in 1..Len(elements)
        /\ answer # "element" =>
             cursor = Len(elements) /\ (next_task > total \/ had_error)
  BY <1>1, <1>2, <1>3, <1>4 DEF CallInv
<1>7. QED
  BY <1>1, <1>2, <1>3, <1>5, <1>6 DEF CallInv

(* What a call of the iterator does, while initialize() or next() is made. *)
LEMMA CallEffect ==
  ASSUME IInv, Call
  PROVE  /\ client \in {"create", "created"}
         /\ client' \in {"free", "create", "created"}
         /\ outcome = "true" =>
              /\ outcome' = "true"
              /\ client' = "free" /\ answer' = "element" => cursor' = cursor + 1
              /\ ~(client' = "free" /\ answer' = "element") => cursor' = cursor
         /\ outcome = "unset" /\ outcome' = "true" => client' = "free" /\ cursor' = 1
<1>1. CASE ConvertTask
  BY <1>1, IteratorFacts DEF ConvertTask
<1>2. CASE Created
  BY <1>2, IteratorFacts DEF Created, Answer
<1>3. CASE ConvertThrows \/ NoTaskLeft
  BY <1>3, IteratorFacts DEF ConvertThrows, NoTaskLeft, Answer
<1>4. QED
  BY <1>1, <1>2, <1>3 DEF Call

(* The state of the sequential iterator is well typed: in particular the    *)
(* iterator over the tasks never leaves the list of representations.       *)
THEOREM TypeCorrect == Spec => []TypeOK
<1>1. IInv => TypeOK
  BY DEF IInv
<1>2. QED
  BY <1>1, InvariantHolds, PTL

(* After a successful initialize() get() always has an element, also after  *)
(* next() has answered that there are no more or swallowed an exception.   *)
THEOREM GetAlwaysValid == Spec => []GetIsValid
<1>1. IInv => GetIsValid
  BY LenProperties DEF IInv, TypeOK, CallInv, GetIsValid
<1>2. QED
  BY <1>1, InvariantHolds, PTL

(* initialize() answers false only if no element was produced.             *)
THEOREM FalseHidesNothing == Spec => []FalseMeansNothing
<1>1. IInv => FalseMeansNothing
  BY DEF IInv
<1>2. QED
  BY <1>1, InvariantHolds, PTL

(* The conversion of a task publishes its elements, if it has any; the last *)
(* task closes the stream.                                                 *)
LEMMA ConvertingPublishes ==
  ASSUME IInv, ConvertTask
  PROVE  Stream!StreamNext \/ UNCHANGED Stream!streamVars
<1>1. TypeOK /\ CallInv
  BY DEF IInv
<1>2. /\ client = "create" /\ next_task <= total /\ next_task' = next_task + 1
      /\ UNCHANGED <<total, had_error, outcome, answer>>
  BY DEF ConvertTask
<1>3. next_task \in Tasks /\ total \in Nat /\ next_task \in Nat
  BY <1>1, <1>2, TaskInRange
<1>4. PICK r \in Results(next_task) :
        /\ elements' = elements \o r
        /\ cursor' = IF cursor = 0 /\ r # <<>> THEN 1 ELSE cursor
  BY DEF ConvertTask
<1>5. /\ r \in Seq(Elements) /\ \A n \in 1..Len(r) : r[n][1] = next_task
      /\ \A m, n \in 1..Len(r) : m < n => r[m][2] < r[n][2]
  BY <1>3, <1>4, ResultsProperties
<1>6. /\ elements \in Seq(Elements)
      /\ Len(elements) \in Nat /\ Len(r) \in Nat
      /\ Len(elements') = Len(elements) + Len(r)
      /\ \A n \in 1..Len(elements) : elements'[n] = elements[n]
      /\ \A n \in Len(elements)+1..Len(elements') :
           /\ n - Len(elements) \in 1..Len(r)
           /\ elements'[n] = r[n - Len(elements)]
      /\ r # <<>> => Len(r) > 0
      /\ r = <<>> => elements' = elements
  BY <1>1, <1>4, <1>5, ConvertEffect
<1>7. taken' = taken /\ (answer = "null" /\ total > 0)' = (answer = "null" /\ total > 0)
  <2>1. outcome = "true" => cursor > 0
    BY <1>1 DEF CallInv
  <2>2. QED
    BY <1>2, <1>4, <2>1 DEF taken
<1>8. CASE r = <<>>
  <2>1. elements' = elements
    BY <1>6, <1>8
  <2>2. CASE next_task' > total
    <3>1. (total > 0 /\ next_task > total)' = TRUE
      BY <1>2, <1>3, <2>2 DEF Tasks
    <3>2. QED
      BY <1>7, <2>1, <3>1 DEF Stream!StreamNext, Stream!Close
  <2>3. CASE ~(next_task' > total)
    <3>1. (total > 0 /\ next_task > total)' = (total > 0 /\ next_task > total)
      BY <1>2, <1>3, <2>3
    <3>2. QED
      BY <1>7, <2>1, <3>1 DEF Stream!streamVars
  <2>4. QED
    BY <2>2, <2>3
<1>9. CASE r # <<>>
  <2>1. ~(total > 0 /\ next_task > total)
    BY <1>2, <1>3
  <2>2. \A n \in 1..Len(elements) : elements[n][1] # next_task
    <3>1. \A n \in 1..Len(elements) : elements[n] \in Elements
      BY <1>6, ElementOfSeq
    <3>2. \A n \in 1..Len(elements) : elements[n][1] \in Nat
      BY <3>1, TasksAssumption DEF Elements, Tasks
    <3>3. QED
      BY <1>1, <1>3, <3>2 DEF CallInv
  <2>3. Len(elements') > Len(elements)
    BY <1>6, <1>9
  <2>4. \A n \in Len(elements)+1..Len(elements') : elements'[n][1] = next_task
    BY <1>5, <1>6
  <2>5. \A m, n \in Len(elements)+1..Len(elements') :
          m < n => elements'[m][2] < elements'[n][2]
    <3>1. SUFFICES ASSUME NEW m \in Len(elements)+1..Len(elements'),
                          NEW n \in Len(elements)+1..Len(elements'), m < n
                   PROVE  elements'[m][2] < elements'[n][2]
      OBVIOUS
    <3>2. m - Len(elements) < n - Len(elements)
      BY <1>6, <3>1
    <3>3. r[m - Len(elements)][2] < r[n - Len(elements)][2]
      BY <1>5, <1>6, <3>2
    <3>4. QED
      BY <1>6, <3>3
  <2>6. (total > 0 /\ next_task > total)' \in BOOLEAN
    OBVIOUS
  <2>7. Stream!Publish(next_task)
    BY <1>6, <1>7, <2>1, <2>2, <2>3, <2>4, <2>5, <2>6, Zenon DEF Stream!Publish
  <2>8. QED
    BY <1>3, <2>7 DEF Stream!StreamNext
<1>10. QED
  BY <1>8, <1>9

(* The iterator implements ElementStream, as the concurrent one does: one   *)
(* task is published at a time, and "no more" is only announced at the end.*)
THEOREM IteratorImplementsStream == Spec => ImplementsStream
<1>1. Init => Stream!StreamInit
  BY DEF Init, Stream!StreamInit, taken
<1>2. IInv /\ [Next]_vars => [Stream!StreamNext]_(Stream!streamVars)
  <2> SUFFICES ASSUME IInv, [Next]_vars
               PROVE  Stream!StreamNext \/ UNCHANGED Stream!streamVars
    OBVIOUS
  <2>1. TypeOK /\ CallInv /\ total \in Nat /\ next_task \in Nat /\ Len(elements) \in Nat
    BY TasksAssumption, LenProperties DEF IInv, TypeOK
  <2> USE DEF Stream!streamVars, taken, Answer
  <2>2. CASE Initialize
    BY <2>1, <2>2 DEF Initialize, CallInv, TypeOK, Tasks
  <2>3. CASE InitializeNoTasks
    BY <2>1, <2>3 DEF InitializeNoTasks, CallInv, TypeOK
  <2>4. CASE NextElement
    BY <2>1, <2>4 DEF NextElement, Stream!StreamNext, Stream!Take
  <2>5. CASE NextTask
    BY <2>5 DEF NextTask
  <2>6. CASE ConvertTask
    BY <2>6, ConvertingPublishes
  <2>7. CASE Created
    <3>1. taken' = taken + 1 /\ taken < Len(elements)
      BY <2>1, <2>7, EmptySeq DEF Created, CallInv, TypeOK
    <3>2. QED
      BY <2>7, <3>1 DEF Created, Stream!StreamNext, Stream!Take
  <2>8. CASE ConvertThrows
    <3>1. answer # "null"
      BY <2>1, <2>8 DEF ConvertThrows, CallInv
    <3>2. taken' = taken /\ elements' = elements
      BY <2>1, <2>8 DEF ConvertThrows, CallInv, TypeOK
    <3>3. (answer = "null" /\ total > 0)' = (answer = "null" /\ total > 0)
      BY <2>8, <3>1 DEF ConvertThrows
    <3>4. CASE next_task' > total
      <4>1. (total > 0 /\ next_task > total)' = TRUE
        BY <2>1, <2>8, <3>4 DEF ConvertThrows, CallInv
      <4>2. QED
        BY <3>2, <3>3, <4>1 DEF Stream!StreamNext, Stream!Close
    <3>5. CASE ~(next_task' > total)
      <4>1. (total > 0 /\ next_task > total)' = (total > 0 /\ next_task > total)
        BY <2>1, <2>8, <3>5 DEF ConvertThrows
      <4>2. QED
        BY <3>2, <3>3, <4>1
    <3>6. QED
      BY <3>4, <3>5
  <2>9. CASE NoTaskLeft
    <3>1. taken' = taken
      BY <2>1, <2>9 DEF NoTaskLeft, CallInv, TypeOK
    <3>2. QED
      BY <2>1, <2>9, <3>1 DEF NoTaskLeft, CallInv, Stream!StreamNext, Stream!End
  <2>10. CASE Destroy
    BY <2>10 DEF Destroy
  <2>11. CASE Gone \/ UNCHANGED vars
    BY <2>11 DEF Gone, vars
  <2>12. QED
    BY <2>2, <2>3, <2>4, <2>5, <2>6, <2>7, <2>8, <2>9, <2>10, <2>11 DEF Next, Call
<1>3. QED
  BY <1>1, <1>2, InvariantHolds, PTL DEF Spec, ImplementsStream, Stream!StreamSpec
================================================================================
