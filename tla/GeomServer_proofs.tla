--------------------------- MODULE GeomServer_proofs ----------------------------
(***************************************************************************)
(* Theorems about GeomServer, for any number of models, representations    *)
(* and commands. What it needs of the iterator are the invariant and the   *)
(* lemmas of SequentialIterator_proofs.                                    *)
(***************************************************************************)
EXTENDS GeomServer, SequenceTheorems, TLAPS

ItProofs == INSTANCE SequentialIterator_proofs

(* The iterator of the server is the one of the proofs.                      *)
LEMMA SameIterator ==
  /\ It!IInv <=> ItProofs!IInv
  /\ It!IInv' <=> ItProofs!IInv'
  /\ It!Call => ItProofs!Call
  /\ [It!Next]_(It!vars) => [ItProofs!Next]_(ItProofs!vars)
<1>1. ItProofs!IInv <=> It!IInv
  BY DEF It!IInv, It!TypeOK, It!CallInv, It!FalseMeansNothing, It!Tasks,
         ItProofs!IInv, ItProofs!TypeOK, ItProofs!CallInv,
         ItProofs!FalseMeansNothing, ItProofs!Tasks
<1>2. ItProofs!IInv' <=> It!IInv'
  BY DEF It!IInv, It!TypeOK, It!CallInv, It!FalseMeansNothing, It!Tasks,
         ItProofs!IInv, ItProofs!TypeOK, ItProofs!CallInv,
         ItProofs!FalseMeansNothing, ItProofs!Tasks
<1>3. /\ It!Call => ItProofs!Call
      /\ [It!Next]_(It!vars) => [ItProofs!Next]_(ItProofs!vars)
  <2>1. \A t : It!Results(t) = ItProofs!Results(t)
    BY DEF It!Results, ItProofs!Results
  <2>2. It!Call => ItProofs!Call
    BY <2>1, Zenon
       DEF It!Call, It!ConvertTask, It!Created, It!ConvertThrows, It!NoTaskLeft, It!Answer,
           ItProofs!Call, ItProofs!ConvertTask, ItProofs!Created, ItProofs!ConvertThrows,
       ItProofs!NoTaskLeft, ItProofs!Answer
  <2>3. It!Next => ItProofs!Next
    BY <2>2, Zenon
       DEF It!Next, It!Initialize, It!InitializeNoTasks, It!NextElement, It!NextTask,
           It!Destroy, It!Gone, It!Answer, It!Tasks, It!vars,
           ItProofs!Next, ItProofs!Initialize, ItProofs!InitializeNoTasks,
           ItProofs!NextElement, ItProofs!NextTask, ItProofs!Destroy, ItProofs!Gone,
           ItProofs!Answer, ItProofs!Tasks, ItProofs!vars
  <2>4. QED
    BY <2>2, <2>3 DEF It!vars, ItProofs!vars
<1>4. QED
  BY <1>1, <1>2, <1>3

(* The assumptions about the constants are those of the iterator.          *)
LEMMA ItAssumptions == ItProofs!TasksAssumption /\ ItProofs!ProductsAssumption
BY TasksAssumption, ProductsAssumption
   DEF ItProofs!TasksAssumption, ItProofs!ProductsAssumption, ItProofs!Tasks

(* A step of the iterator keeps its invariant, and what it has produced.   *)
LEMMA IteratorStep ==
  ASSUME It!IInv, It!Next
  PROVE  /\ It!IInv'
         /\ Len(elements) \in Nat /\ Len(elements') \in Nat
         /\ Len(elements) <= Len(elements')
         /\ \A n \in 1..Len(elements) : elements'[n] = elements[n]
<1>1. ItProofs!IInv /\ [ItProofs!Next]_(ItProofs!vars)
  BY SameIterator
<1>2. ItProofs!IInv'
  BY <1>1, ItAssumptions, ItProofs!NextInvariant
<1>3. /\ Len(elements) \in Nat /\ Len(elements') \in Nat
      /\ Len(elements) <= Len(elements')
      /\ \A n \in 1..Len(elements) : elements'[n] = elements[n]
  BY <1>1, ItAssumptions, ItProofs!ElementsGrow
<1>4. QED
  BY <1>2, <1>3, SameIterator

(* While the iterator rests, so does its invariant.                        *)
LEMMA IteratorRests == It!IInv /\ UNCHANGED iteratorVars => It!IInv'
BY DEF It!IInv, It!TypeOK, It!CallInv, It!FalseMeansNothing, iteratorVars

LEMMA IteratorInit == It!Init => It!IInv
<1>1. It!Init => ItProofs!Init
  BY DEF It!Init, ItProofs!Init
<1>2. QED
  BY <1>1, ItAssumptions, ItProofs!InitInvariant, SameIterator

Elements == (1..NumTasks) \X (Nat \ {0})

(* A new iterator satisfies its invariant.                                 *)
LEMMA FreshIterator == NewIterator => It!IInv'
<1> SUFFICES ASSUME NewIterator PROVE It!IInv'
  OBVIOUS
<1>1. <<>> \in Seq((1..NumTasks) \X (Nat \ {0})) /\ Len(<<>>) = 0
  BY EmptySeq
<1>2. elements' \in Seq(It!Tasks \X (Nat \ {0})) /\ Len(elements') = 0 /\ elements' = <<>>
  BY <1>1 DEF NewIterator, It!Tasks
<1>3. total' \in 0..NumTasks /\ next_task' \in 1..total'+1 /\ cursor' \in Nat
  BY TasksAssumption DEF NewIterator
<1>4. It!TypeOK'
  BY <1>2, <1>3 DEF NewIterator, It!TypeOK
<1>5. It!CallInv' /\ It!FalseMeansNothing'
  BY <1>2 DEF NewIterator, It!CallInv, It!FalseMeansNothing
<1>6. QED
  BY <1>4, <1>5 DEF It!IInv

LEMMA InitInvariant == Init => IInv
<1> SUFFICES ASSUME Init PROVE IInv
  OBVIOUS
<1>1. It!IInv
  BY IteratorInit DEF Init
<1>2. <<>> \in Seq(Elements)
  BY EmptySeq
<1>3. TypeOK
  <2>1. /\ models = 0 /\ iterator = 0 /\ has_more = FALSE /\ told = FALSE
        /\ deflection = 0 /\ meshed = 0 /\ pc = "read" /\ exit_code = -1
        /\ offered = <<>> /\ fruitful = {} /\ leaked = {}
        /\ careless = FALSE /\ unreadable = FALSE
    BY DEF Init, Null
  <2>2. It!TypeOK
    BY <1>1 DEF It!IInv
  <2>3. iterator \in 0..models /\ models \in 0..MaxModels
    BY <2>1, ModelsAssumption
  <2>4. /\ has_more \in BOOLEAN /\ told \in BOOLEAN
        /\ careless \in BOOLEAN /\ unreadable \in BOOLEAN
    BY <2>1
  <2>5. /\ deflection \in Deflections /\ meshed \in Deflections
        /\ offered \in Seq((1..NumTasks) \X (Nat \ {0}))
    BY <1>2, <2>1, DeflectionsAssumption DEF Elements
  <2>6. QED
    BY <2>1, <2>2, <2>3, <2>4, <2>5 DEF TypeOK
<1>4. OfferedInv /\ ModelInv
  <2>1. /\ models = 0 /\ iterator = Null /\ ~told /\ has_more = told
        /\ pc = "read" /\ client = "free"
    BY DEF Init, It!Init
  <2>2. OfferedInv
    BY <2>1 DEF OfferedInv
  <2>3. ModelInv
    BY <2>1 DEF ModelInv
  <2>4. QED
    BY <2>2, <2>3
<1>5. OnlyEmptyModelsLeak /\ DeflectionIsCurrent
  BY DEF Init, OnlyEmptyModelsLeak, DeflectionIsCurrent
<1>6. QED
  BY <1>1, <1>3, <1>4, <1>5 DEF IInv

(* Whatever the command, the iterator keeps its invariant.                 *)
LEMMA IteratorInvariant == IInv /\ [Next]_vars => It!IInv'
<1> SUFFICES ASSUME IInv, [Next]_vars PROVE It!IInv'
  OBVIOUS
<1>1. CASE UNCHANGED iteratorVars
  BY <1>1, IteratorRests DEF IInv
<1>2. CASE IfcModel
  BY <1>2, FreshIterator DEF IfcModel
<1>3. CASE Initializing
  BY <1>3, IteratorStep DEF Initializing, IInv, It!Next
<1>4. CASE NextCommand
  BY <1>4, IteratorStep DEF NextCommand, IInv, It!Next
<1>5. CASE Advancing
  BY <1>5, IteratorStep DEF Advancing, IInv, It!Next
<1>6. QED
  BY <1>1, <1>2, <1>3, <1>4, <1>5
     DEF Next, Running, IfcModelUnreadable, Get, GetRefused, NextCrashes, Deflection,
         SettingOrGetLog, Refused, Bye, Initialized, Advanced, Ended, vars

(* The element under the cursor of an iterator that is at rest.            *)
LEMMA CursorFacts ==
  ASSUME IInv, outcome = "true", client = "free"
  PROVE  /\ cursor \in 1..Len(elements) /\ Len(elements) \in Nat
         /\ elements \in Seq(Elements) /\ elements[cursor] \in Elements
<1>1. /\ cursor \in 1..Len(elements) /\ Len(elements) \in Nat
      /\ elements \in Seq(Elements)
  BY SameIterator, ItAssumptions, ItProofs!IteratorFacts DEF IInv, Elements
<1>2. QED
  BY <1>1, ElementOfSeq

LEMMA TypeInvariant == IInv /\ [Next]_vars => TypeOK'
<1> SUFFICES ASSUME IInv, [Next]_vars PROVE TypeOK'
  OBVIOUS
<1>1. TypeOK /\ It!TypeOK' /\ models \in Nat
  BY IteratorInvariant, ModelsAssumption DEF IInv, It!IInv, TypeOK
<1>2. offered \in Seq(Elements)
  BY <1>1 DEF TypeOK, Elements
<1> USE DEF TypeOK, Stop, Null
<1>3. CASE IfcModel
  <2>1. models' \in 0..MaxModels /\ models' = models + 1
    BY <1>1, <1>3, ModelsAssumption DEF IfcModel
  <2>2. iterator' \in 0..models' /\ fruitful' \subseteq 1..models'
    BY <1>1, <1>3, <2>1 DEF IfcModel
  <2>3. leaked' \subseteq 1..models'
    BY <1>1, <1>3, <2>1 DEF IfcModel
  <2>4. <<>> \in Seq((1..NumTasks) \X (Nat \ {0}))
    BY EmptySeq
  <2>5. has_more' = has_more /\ told' = told /\ careless' \in BOOLEAN
    BY <1>1, <1>3 DEF IfcModel
  <2>6. QED
    BY <1>1, <1>3, <2>1, <2>2, <2>3, <2>4, <2>5 DEF IfcModel
<1>4. CASE Initialized
  <2>1. CASE outcome = "true"
    <3>1. elements[cursor] \in Elements /\ iterator \in 1..models
      BY <1>1, <1>4, <2>1, CursorFacts DEF Initialized, IInv, OfferedInv
    <3>2. offered' \in Seq((1..NumTasks) \X (Nat \ {0}))
      <4>1. offered' = Append(offered, elements[cursor])
        BY <1>4, <2>1 DEF Initialized, AnswerMore
      <4>2. Append(offered, elements[cursor]) \in Seq(Elements)
        BY <1>2, <3>1, AppendProperties
      <4>3. QED
        BY <4>1, <4>2 DEF Elements
    <3>3. fruitful' \subseteq 1..models'
      BY <1>1, <1>4, <2>1, <3>1 DEF Initialized, AnswerMore
    <3>4. has_more' = TRUE /\ told' = TRUE /\ pc' = "read"
      BY <1>4, <2>1 DEF Initialized, AnswerMore
    <3>5. QED
      BY <1>1, <1>4, <3>2, <3>3, <3>4 DEF Initialized
  <2>2. CASE outcome # "true"
    <3>1. /\ has_more' = FALSE /\ told' = FALSE /\ pc' = "read"
          /\ UNCHANGED <<offered, fruitful>>
      BY <1>4, <2>2 DEF Initialized, AnswerMore
    <3>2. QED
      BY <1>1, <1>4, <3>1 DEF Initialized
  <2>3. QED
    BY <2>1, <2>2
<1>5. CASE Advanced
  <2>1. iterator' \in 0..models'
    BY <1>1, <1>5 DEF Advanced
  <2>2. CASE answer = "element"
    <3>1. elements[cursor] \in Elements /\ iterator \in 1..models
      BY <1>1, <1>5, CursorFacts DEF Advanced, IInv, OfferedInv
    <3>2. offered' \in Seq((1..NumTasks) \X (Nat \ {0}))
      <4>1. offered' = Append(offered, elements[cursor])
        BY <1>5, <2>2 DEF Advanced, AnswerMore
      <4>2. Append(offered, elements[cursor]) \in Seq(Elements)
        BY <1>2, <3>1, AppendProperties
      <4>3. QED
        BY <4>1, <4>2 DEF Elements
    <3>3. fruitful' \subseteq 1..models'
      BY <1>1, <1>5, <2>2, <3>1 DEF Advanced, AnswerMore
    <3>4. has_more' = TRUE /\ told' = TRUE /\ pc' = "read"
      BY <1>5, <2>2 DEF Advanced, AnswerMore
    <3>5. QED
      BY <1>1, <1>5, <2>1, <3>2, <3>3, <3>4 DEF Advanced
  <2>3. CASE answer # "element"
    <3>1. /\ has_more' = FALSE /\ told' = FALSE /\ pc' = "read"
          /\ UNCHANGED <<offered, fruitful>>
      BY <1>5, <2>3 DEF Advanced, AnswerMore
    <3>2. QED
      BY <1>1, <1>5, <2>1, <3>1 DEF Advanced
  <2>4. QED
    BY <2>2, <2>3
<1>6. CASE IfcModelUnreadable \/ GetRefused \/ NextCrashes
  BY <1>1, <1>6 DEF IfcModelUnreadable, GetRefused, NextCrashes
<1>7. CASE Initializing
  BY <1>1, <1>7 DEF Initializing, mainVars, history
<1>8. CASE NextCommand
  BY <1>1, <1>8 DEF NextCommand, history
<1>9. CASE Advancing
  BY <1>1, <1>9 DEF Advancing, mainVars, history
<1>10. CASE \E d \in Deflections : Deflection(d)
  BY <1>1, <1>10 DEF Deflection, history
<1>11. CASE Refused \/ Bye
  BY <1>1, <1>11 DEF Refused, Bye, history
<1>12. CASE UNCHANGED vars
  BY <1>1, <1>12 DEF vars, mainVars, history
<1>13. QED
  BY <1>3, <1>4, <1>5, <1>6, <1>7, <1>8, <1>9, <1>10, <1>11, <1>12
     DEF Next, Running, Get, SettingOrGetLog, Ended

LEMMA ModelInvariant ==
  IInv /\ [Next]_vars => ModelInv' /\ OnlyEmptyModelsLeak' /\ DeflectionIsCurrent'
<1> SUFFICES ASSUME IInv, [Next]_vars
             PROVE  ModelInv' /\ OnlyEmptyModelsLeak' /\ DeflectionIsCurrent'
  OBVIOUS
<1>1. /\ ModelInv /\ OnlyEmptyModelsLeak /\ DeflectionIsCurrent
      /\ models \in Nat /\ leaked \subseteq 1..models /\ fruitful \subseteq 1..models
      /\ iterator \in 0..models
  BY ModelsAssumption DEF IInv, TypeOK
<1> USE DEF ModelInv, OnlyEmptyModelsLeak, DeflectionIsCurrent, Null, Stop
<1>2. CASE IfcModel
  <2>1. /\ iterator' = models' /\ models' = models + 1 /\ outcome' = "unset" /\ meshed' = deflection'
        /\ has_more' = told' /\ pc' = "initialize" /\ fruitful' = fruitful
    BY <1>1, <1>2 DEF IfcModel, NewIterator
  <2>2. leaked' \subseteq 1..models
    BY <1>1, <1>2 DEF IfcModel
  <2>3. models' \notin leaked' /\ models' \notin fruitful'
    BY <1>1, <2>1, <2>2
  <2>4. ~careless' => leaked' \cap fruitful' = {}
    <3>1. SUFFICES ASSUME ~careless' PROVE leaked' \cap fruitful' = {}
      OBVIOUS
    <3>2. ~careless /\ ~told /\ pc = "read"
      BY <1>2, <3>1 DEF IfcModel
    <3>3. iterator # Null => iterator \notin fruitful
      BY <1>1, <3>2 DEF IInv, OfferedInv
    <3>4. QED
      BY <1>1, <1>2, <3>2, <3>3 DEF IfcModel
  <2>5. QED
    BY <2>1, <2>3, <2>4
<1>3. CASE Initialized
  <2>1. pc = "initialize" /\ iterator = models /\ iterator # Null /\ models \notin leaked
    BY <1>1, <1>3 DEF Initialized, IInv, OfferedInv
  <2>2. CASE outcome = "true"
    BY <1>1, <1>3, <2>1, <2>2 DEF Initialized, AnswerMore, iteratorVars
  <2>3. CASE outcome # "true"
    BY <1>1, <1>3, <2>1, <2>3 DEF Initialized, AnswerMore, iteratorVars
  <2>4. QED
    BY <2>2, <2>3
<1>4. CASE Advanced
  <2>1. pc = "next" /\ iterator = models /\ iterator # Null /\ models \notin leaked
        /\ outcome = "true"
    BY <1>1, <1>4 DEF Advanced, IInv, OfferedInv
  <2>2. CASE answer = "element"
    BY <1>1, <1>4, <2>1, <2>2 DEF Advanced, AnswerMore, iteratorVars
  <2>3. CASE answer # "element"
    BY <1>1, <1>4, <2>1, <2>3 DEF Advanced, AnswerMore, iteratorVars
  <2>4. QED
    BY <2>2, <2>3
<1>5. CASE Initializing
  <2>1. pc = "initialize" /\ UNCHANGED <<mainVars, history>>
    BY <1>5 DEF Initializing
  <2>2. outcome = "true" => outcome' = "true"
    <3>1. CASE It!Call
      BY <3>1, SameIterator, ItAssumptions, ItProofs!CallEffect DEF IInv
    <3>2. CASE It!Initialize \/ It!InitializeNoTasks
      BY <3>2 DEF It!Initialize, It!InitializeNoTasks
    <3>3. QED
      BY <1>5, <3>1, <3>2 DEF Initializing
  <2>3. QED
    BY <1>1, <2>1, <2>2 DEF mainVars, history
<1>6. CASE NextCommand
  <2>1. outcome' = "true"
    BY <1>6 DEF NextCommand, It!NextElement, It!NextTask, It!Answer
  <2>2. QED
    BY <1>1, <1>6, <2>1 DEF NextCommand, history
<1>7. CASE Advancing
  <2>1. outcome' = "true"
    BY <1>7, SameIterator, ItAssumptions, ItProofs!CallEffect DEF Advancing, IInv, OfferedInv
  <2>2. QED
    BY <1>1, <1>7, <2>1 DEF Advancing, mainVars, history
<1>8. CASE IfcModelUnreadable \/ GetRefused \/ NextCrashes
  BY <1>1, <1>8 DEF IfcModelUnreadable, GetRefused, NextCrashes, iteratorVars
<1>9. CASE \E d \in Deflections : Deflection(d)
  BY <1>1, <1>9 DEF Deflection, history, iteratorVars
<1>10. CASE Refused \/ Bye
  BY <1>1, <1>10 DEF Refused, Bye, history, iteratorVars
<1>11. CASE UNCHANGED vars
  BY <1>1, <1>11 DEF vars, mainVars, history, iteratorVars
<1>12. QED
  BY <1>2, <1>3, <1>4, <1>5, <1>6, <1>7, <1>8, <1>9, <1>10, <1>11
     DEF Next, Running, Get, SettingOrGetLog, Ended

(* More(true) offers the element under the cursor, after those before it.  *)
LEMMA OfferOneMore ==
  ASSUME IInv, outcome = "true", client = "free", OfferedUpTo(cursor - 1),
         AnswerMore(TRUE), UNCHANGED iteratorVars
  PROVE  OfferedUpTo(cursor)'
<1>1. /\ cursor \in 1..Len(elements) /\ Len(elements) \in Nat
      /\ elements[cursor] \in Elements /\ offered \in Seq(Elements)
  BY CursorFacts DEF IInv, TypeOK, Elements
<1>2. offered' = Append(offered, elements[cursor]) /\ elements' = elements /\ cursor' = cursor
  BY DEF AnswerMore, iteratorVars
<1>3. /\ Len(offered') = cursor
      /\ \A n \in 1..cursor-1 : offered'[n] = offered[n]
      /\ offered'[cursor] = elements[cursor]
  BY <1>1, <1>2, AppendProperties DEF OfferedUpTo
<1>4. \A n \in 1..cursor : offered'[n] = elements[n]
  BY <1>1, <1>3 DEF OfferedUpTo
<1>5. QED
  BY <1>2, <1>3, <1>4 DEF OfferedUpTo

LEMMA OfferedInvariant == IInv /\ [Next]_vars => OfferedInv'
<1> SUFFICES ASSUME IInv, [Next]_vars PROVE OfferedInv'
  OBVIOUS
<1>1. /\ OfferedInv /\ It!IInv /\ ModelInv /\ models \in Nat
  BY ModelsAssumption DEF IInv, TypeOK
<1>2. CASE IfcModel
  BY <1>1, <1>2 DEF IfcModel, NewIterator, OfferedInv, Null
<1>3. CASE Initializing
  <2>1. pc = "initialize" /\ UNCHANGED <<mainVars, history>>
    BY <1>3 DEF Initializing
  <2>2. outcome' = "true" => client' = "free" /\ cursor' = 1
    <3>1. CASE It!Initialize \/ It!InitializeNoTasks
      BY <1>1, <2>1, <3>1 DEF It!Initialize, It!InitializeNoTasks, It!Answer
    <3>2. CASE It!Call
      <4>1. outcome = "unset"
        BY <1>1, <2>1, <3>2, SameIterator, ItAssumptions, ItProofs!CallEffect,
           ItProofs!IteratorFacts DEF OfferedInv, It!IInv, It!TypeOK
      <4>2. QED
        BY <1>1, <3>2, <4>1, SameIterator, ItAssumptions, ItProofs!CallEffect
    <3>3. QED
      BY <1>3, <3>1, <3>2 DEF Initializing
  <2>3. QED
    BY <1>1, <2>1, <2>2 DEF OfferedInv, mainVars, history
<1>4. CASE Initialized
  <2>1. pc = "initialize" /\ client = "free" /\ outcome # "unset" /\ offered = <<>> /\ iterator # Null
    BY <1>1, <1>4 DEF Initialized, OfferedInv
  <2>2. CASE outcome = "true"
    <3>1. cursor = 1 /\ OfferedUpTo(cursor - 1)
      BY <1>1, <2>1, <2>2, EmptySeq DEF OfferedInv, OfferedUpTo
    <3>2. AnswerMore(TRUE)
      BY <1>4, <2>2 DEF Initialized
    <3>3. OfferedUpTo(cursor)'
      BY <1>4, <2>1, <2>2, <3>1, <3>2, OfferOneMore DEF Initialized
    <3>4. told' = TRUE /\ pc' = "read"
      BY <3>2 DEF AnswerMore
    <3>5. QED
      BY <1>4, <2>1, <2>2, <3>3, <3>4 DEF Initialized, OfferedInv, iteratorVars
  <2>3. CASE outcome # "true"
    <3>1. outcome = "false" /\ elements = <<>> /\ (had_error \/ next_task > total)
      BY <1>1, <2>1, <2>3 DEF It!IInv, It!TypeOK, It!FalseMeansNothing
    <3>2. told' = FALSE /\ pc' = "read" /\ offered' = offered
      BY <1>4, <2>3 DEF Initialized, AnswerMore
    <3>3. QED
      BY <1>4, <2>1, <3>1, <3>2 DEF Initialized, OfferedInv, iteratorVars
  <2>4. QED
    BY <2>2, <2>3
<1>5. CASE NextCommand
  <2>1. /\ pc = "read" /\ iterator # Null /\ client = "free" /\ outcome = "true"
        /\ UNCHANGED history /\ pc' = "next" /\ iterator' = iterator
    BY <1>5 DEF NextCommand, It!NextElement, It!NextTask
  <2>2. OfferedUpTo(cursor) /\ told
    BY <1>1, <2>1 DEF OfferedInv
  <2>3. cursor \in 1..Len(elements) /\ Len(elements) \in Nat
    BY <2>1, CursorFacts
  <2>4. CASE It!NextElement
    <3>1. /\ cursor' = cursor + 1 /\ client' = "free" /\ answer' = "element"
          /\ outcome' = "true" /\ elements' = elements
      BY <2>1, <2>4 DEF It!NextElement, It!Answer
    <3>2. cursor' - 1 = cursor
      BY <2>3, <3>1
    <3>3. OfferedUpTo(cursor - 1)'
      BY <2>1, <2>2, <3>1, <3>2 DEF OfferedUpTo, history
    <3>4. QED
      BY <2>1, <3>1, <3>3 DEF OfferedInv, Null
  <2>5. CASE It!NextTask
    <3>1. /\ cursor' = cursor /\ client' = "create" /\ outcome' = "true"
          /\ elements' = elements
      BY <2>1, <2>5 DEF It!NextTask
    <3>2. OfferedUpTo(cursor)'
      BY <2>1, <2>2, <3>1 DEF OfferedUpTo, history
    <3>3. QED
      BY <2>1, <3>1, <3>2 DEF OfferedInv, Null
  <2>6. QED
    BY <1>5, <2>4, <2>5 DEF NextCommand
<1>6. CASE Advancing
  <2>1. /\ pc = "next" /\ outcome = "true" /\ It!Call /\ UNCHANGED <<mainVars, history>>
        /\ client \in {"create", "created"}
    BY <1>1, <1>6, SameIterator, ItAssumptions, ItProofs!CallEffect DEF Advancing, OfferedInv
  <2>2. /\ OfferedUpTo(cursor) /\ cursor \in Nat /\ cursor <= Len(elements)
        /\ Len(elements) \in Nat
    BY <1>1, <2>1, SameIterator, ItAssumptions, ItProofs!IteratorFacts DEF OfferedInv
  <2>3. \A n \in 1..cursor : offered'[n] = elements'[n]
    <3>1. \A n \in 1..Len(elements) : elements'[n] = elements[n]
      BY <1>1, <2>1, IteratorStep DEF It!Next
    <3>2. QED
      BY <2>1, <2>2, <3>1 DEF OfferedUpTo, history
  <2>4. Len(offered') = cursor
    BY <2>1, <2>2 DEF OfferedUpTo, history
  <2>5. /\ outcome' = "true" /\ client' \in {"free", "create", "created"}
        /\ client' = "free" /\ answer' = "element" => cursor' = cursor + 1
        /\ ~(client' = "free" /\ answer' = "element") => cursor' = cursor
    BY <1>1, <2>1, SameIterator, ItAssumptions, ItProofs!CallEffect
  <2>6. OfferedUpTo(IF client = "free" /\ answer = "element" THEN cursor - 1 ELSE cursor)'
    <3>1. CASE client' = "free" /\ answer' = "element"
      <4>1. cursor' - 1 = cursor
        BY <2>2, <2>5, <3>1
      <4>2. OfferedUpTo(cursor - 1)'
        BY <2>3, <2>4, <4>1 DEF OfferedUpTo
      <4>3. QED
        BY <3>1, <4>2
    <3>2. CASE ~(client' = "free" /\ answer' = "element")
      <4>1. OfferedUpTo(cursor)'
        BY <2>3, <2>4, <2>5, <3>2 DEF OfferedUpTo
      <4>2. QED
        BY <3>2, <4>1
    <3>3. QED
      BY <3>1, <3>2
  <2>7. QED
    BY <1>1, <2>1, <2>5, <2>6 DEF OfferedInv, mainVars, history
<1>7. CASE Advanced
  <2>1. pc = "next" /\ client = "free" /\ outcome = "true" /\ iterator # Null
    BY <1>1, <1>7 DEF Advanced, OfferedInv
  <2>2. CASE answer = "element"
    <3>1. AnswerMore(TRUE) /\ OfferedUpTo(cursor - 1)
      BY <1>1, <1>7, <2>1, <2>2 DEF Advanced, OfferedInv
    <3>2. OfferedUpTo(cursor)'
      BY <1>7, <2>1, <3>1, OfferOneMore DEF Advanced
    <3>3. told' = TRUE /\ pc' = "read"
      BY <3>1 DEF AnswerMore
    <3>4. QED
      BY <1>7, <2>1, <2>2, <3>2, <3>3 DEF Advanced, OfferedInv, iteratorVars
  <2>3. CASE answer # "element"
    <3>1. OfferedUpTo(cursor)
      BY <1>1, <2>1, <2>3 DEF OfferedInv
    <3>2. /\ elements \in Seq(Elements) /\ cursor = Len(elements)
          /\ next_task > total \/ had_error
      BY <1>1, <2>1, <2>3, SameIterator, ItAssumptions, ItProofs!IteratorFacts DEF Elements
    <3>3. offered = elements
      <4>1. offered \in Seq(Elements)
        BY DEF IInv, TypeOK, Elements
      <4>2. QED
        BY <3>1, <3>2, <4>1, SeqEqual DEF OfferedUpTo
    <3>4. told' = FALSE /\ pc' = "read" /\ offered' = offered /\ iterator' = Null
      BY <1>7, <2>3 DEF Advanced, AnswerMore
    <3>5. QED
      BY <1>7, <2>1, <3>2, <3>3, <3>4 DEF Advanced, OfferedInv, iteratorVars
  <2>4. QED
    BY <2>2, <2>3
<1> USE DEF OfferedInv, Stop
<1>8. CASE IfcModelUnreadable \/ GetRefused \/ NextCrashes
  BY <1>8 DEF IfcModelUnreadable, GetRefused, NextCrashes
<1>9. CASE \E d \in Deflections : Deflection(d)
  <2>1. pc = "read" /\ iterator = Null /\ UNCHANGED <<iteratorVars, iterator, pc, history>>
    BY <1>9 DEF Deflection
  <2>2. QED
    BY <1>1, <2>1 DEF history, iteratorVars
<1>10. CASE Refused \/ Bye
  BY <1>10 DEF Refused, Bye
<1>11. CASE UNCHANGED vars
  BY <1>1, <1>11 DEF vars, mainVars, history, iteratorVars, OfferedUpTo
<1>12. QED
  BY <1>2, <1>3, <1>4, <1>5, <1>6, <1>7, <1>8, <1>9, <1>10, <1>11
     DEF Next, Running, Get, SettingOrGetLog, Ended

(* The invariant holds in every reachable state.                           *)
LEMMA InvariantHolds == Spec => []IInv
<1>1. IInv /\ [Next]_vars => IInv'
  BY IteratorInvariant, TypeInvariant, ModelInvariant, OfferedInvariant DEF IInv
<1>2. QED
  BY <1>1, InitInvariant, PTL DEF Spec

(* The state of the server and of its iterator is well typed.              *)
THEOREM TypeCorrect == Spec => []TypeOK
<1>1. IInv => TypeOK
  BY DEF IInv
<1>2. QED
  BY <1>1, InvariantHolds, PTL

(* A client that asks for elements only while there are some never makes    *)
(* the server use a null pointer or a cursor that is not set.              *)
THEOREM ObedientSafe == Spec => []ObedientClientIsSafe
<1>1. IInv => ObedientClientIsSafe
  <2>1. SUFFICES ASSUME IInv, ~careless
                 PROVE  /\ pc = "crashed" => unreadable
                        /\ pc = "read" /\ told => /\ has_more /\ iterator # Null
                                                  /\ outcome = "true"
                                                  /\ cursor \in 1..Len(elements)
    BY DEF ObedientClientIsSafe
  <2>2. pc = "read" /\ told => client = "free" /\ outcome = "true"
    BY <2>1 DEF IInv, OfferedInv
  <2>3. QED
    BY <2>1, <2>2, CursorFacts DEF IInv, OfferedInv, ModelInv
<1>2. QED
  BY <1>1, InvariantHolds, PTL

(* The elements that the server announces are those of the iterator, in     *)
(* order; it announces the end when there is none left.                    *)
THEOREM ElementsOffered == Spec => []EveryElementOffered
<1>1. IInv => EveryElementOffered
  <2>1. SUFFICES ASSUME IInv, pc = "read", models > 0, told
                 PROVE  offered = SubSeq(elements, 1, cursor)
    BY DEF EveryElementOffered, IInv, OfferedInv
  <2>2. OfferedUpTo(cursor) /\ client = "free" /\ outcome = "true"
    BY <2>1 DEF IInv, OfferedInv
  <2>3. /\ cursor \in 1..Len(elements) /\ Len(elements) \in Nat
        /\ elements \in Seq(Elements) /\ offered \in Seq(Elements)
    BY <2>1, <2>2, CursorFacts DEF IInv, TypeOK, Elements
  <2>4. /\ SubSeq(elements, 1, cursor) \in Seq(Elements)
        /\ Len(SubSeq(elements, 1, cursor)) = cursor
        /\ \A n \in 1..cursor : SubSeq(elements, 1, cursor)[n] = elements[n]
    BY <2>3, SubSeqProperties
  <2>5. QED
    BY <2>2, <2>3, <2>4, SeqEqual DEF OfferedUpTo
<1>2. QED
  BY <1>1, InvariantHolds, PTL

(* Only models without elements stay allocated when the client is obedient.*)
THEOREM LeaksAreEmpty == Spec => []OnlyEmptyModelsLeak
<1>1. IInv => OnlyEmptyModelsLeak
  BY DEF IInv
<1>2. QED
  BY <1>1, InvariantHolds, PTL

(* A model is meshed with the deflection that the client set last.         *)
THEOREM DeflectionCurrent == Spec => []DeflectionIsCurrent
<1>1. IInv => DeflectionIsCurrent
  BY DEF IInv
<1>2. QED
  BY <1>1, InvariantHolds, PTL
================================================================================
