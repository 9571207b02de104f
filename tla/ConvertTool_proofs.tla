--------------------------- MODULE ConvertTool_proofs ---------------------------
(***************************************************************************)
(* Theorems about ConvertTool. What it needs of the iterator are the       *)
(* invariant and the lemmas of SequentialIterator_proofs.                  *)
(***************************************************************************)
EXTENDS ConvertTool, SequenceTheorems, TLAPS

ItProofs == INSTANCE SequentialIterator_proofs

(* The iterator of the tool is the one of the proofs.                      *)
LEMMA SameIterator ==
  /\ It!IInv <=> ItProofs!IInv
  /\ It!IInv' <=> ItProofs!IInv'
  /\ It!Call => ItProofs!Call
  /\ [It!Next]_(It!vars) => [ItProofs!Next]_(ItProofs!vars)
<1>1. ItProofs!IInv <=> It!IInv
  BY DEF It!IInv, It!TypeOK, It!CallInv, It!FalseMeansNothing, It!Tasks,
         ItProofs!IInv, ItProofs!TypeOK, ItProofs!CallInv,
         ItProofs!FalseMeansNothing, ItProofs!Tasks
<1>2. ItProofs!IInv' <=> It!IInv'
  BY DEF It!IInv, It!TypeOK, It!CallInv, It!FalseMeansNothing, It!Tasks,
         ItProofs!IInv, ItProofs!TypeOK, ItProofs!CallInv,
         ItProofs!FalseMeansNothing, ItProofs!Tasks
<1>3. /\ It!Call => ItProofs!Call
      /\ [It!Next]_(It!vars) => [ItProofs!Next]_(ItProofs!vars)
  <2>1. \A t : It!Results(t) = ItProofs!Results(t)
    BY DEF It!Results, ItProofs!Results
  <2>2. It!Call => ItProofs!Call
    BY <2>1, Zenon
       DEF It!Call, It!ConvertTask, It!Created, It!ConvertThrows, It!NoTaskLeft, It!Answer,
           ItProofs!Call, ItProofs!ConvertTask, ItProofs!Created, ItProofs!ConvertThrows,
       ItProofs!NoTaskLeft, ItProofs!Answer
  <2>3. It!Next => ItProofs!Next
    BY <2>2, Zenon
       DEF It!Next, It!Initialize, It!InitializeNoTasks, It!NextElement, It!NextTask,
           It!Destroy, It!Gone, It!Answer, It!Tasks, It!vars,
           ItProofs!Next, ItProofs!Initialize, ItProofs!InitializeNoTasks,
           ItProofs!NextElement, ItProofs!NextTask, ItProofs!Destroy, ItProofs!Gone,
           ItProofs!Answer, ItProofs!Tasks, ItProofs!vars
  <2>4. QED
    BY <2>2, <2>3 DEF It!vars, ItProofs!vars
<1>4. QED
  BY <1>1, <1>2, <1>3

(* The assumptions about the constants are those of the iterator.          *)
LEMMA ItAssumptions == ItProofs!TasksAssumption /\ ItProofs!ProductsAssumption
BY TasksAssumption, ProductsAssumption
   DEF ItProofs!TasksAssumption, ItProofs!ProductsAssumption, ItProofs!Tasks

(* A step of the iterator keeps its invariant, and what it has produced.   *)
LEMMA IteratorStep ==
  ASSUME It!IInv, It!Next
  PROVE  /\ It!IInv'
         /\ Len(elements) \in Nat /\ Len(elements') \in Nat
         /\ Len(elements) <= Len(elements')
         /\ \A n \in 1..Len(elements) : elements'[n] = elements[n]
<1>1. ItProofs!IInv /\ [ItProofs!Next]_(ItProofs!vars)
  BY SameIterator
<1>2. ItProofs!IInv'
  BY <1>1, ItAssumptions, ItProofs!NextInvariant
<1>3. /\ Len(elements) \in Nat /\ Len(elements') \in Nat
      /\ Len(elements) <= Len(elements')
      /\ \A n \in 1..Len(elements) : elements'[n] = elements[n]
  BY <1>1, ItAssumptions, ItProofs!ElementsGrow
<1>4. QED
  BY <1>2, <1>3, SameIterator

(* While the iterator rests, so does its invariant.                        *)
LEMMA IteratorRests == It!IInv /\ UNCHANGED iteratorVars => It!IInv'
BY DEF It!IInv, It!TypeOK, It!CallInv, It!FalseMeansNothing, iteratorVars

LEMMA IteratorInit == It!Init => It!IInv
<1>1. It!Init => ItProofs!Init
  BY DEF It!Init, ItProofs!Init
<1>2. QED
  BY <1>1, ItAssumptions, ItProofs!InitInvariant, SameIterator

Elements == (1..NumTasks) \X (Nat \ {0})

LEMMA InitInvariant == Init => IInv
<1> SUFFICES ASSUME Init PROVE IInv
  OBVIOUS
<1>1. It!IInv
  BY IteratorInit DEF Init
<1>2. <<>> \in Seq(Elements)
  BY EmptySeq
<1>3. TypeOK
  BY <1>1, <1>2 DEF Init, TypeOK, Content, It!IInv, Elements
<1>4. DiskInv /\ WrittenInv
  BY DEF Init, It!Init, DiskInv, WrittenInv, Untouched, Unused
<1>5. NothingIsLost /\ OutputIsWhole /\ SuccessMeansWritten /\ FailureCleansUp
  <2>1. /\ output \in {"none", "old"} /\ temp \in {"none", "stale"}
        /\ existed => output = "old"
    BY DEF Init
  <2>2. exit_code = -1
    BY DEF Init
  <2>3. NothingIsLost /\ OutputIsWhole
    BY <2>1 DEF NothingIsLost, OutputIsWhole
  <2>4. QED
    BY <2>2, <2>3 DEF SuccessMeansWritten, FailureCleansUp
<1>6. QED
  BY <1>1, <1>3, <1>4, <1>5 DEF IInv

(* A step of main() that leaves the iterator alone keeps its invariant.    *)
LEMMA IteratorInvariant == IInv /\ [Next]_vars => It!IInv'
<1> SUFFICES ASSUME IInv, [Next]_vars PROVE It!IInv'
  OBVIOUS
<1>1. CASE UNCHANGED iteratorVars
  BY <1>1, IteratorRests DEF IInv
<1>2. CASE Initializing
  BY <1>2, IteratorStep DEF Initializing, IInv, It!Next
<1>3. CASE Write
  BY <1>3, IteratorStep DEF Write, IInv, It!Next
<1>4. CASE Advancing
  BY <1>4, IteratorStep DEF Advancing, IInv, It!Next
<1>5. QED
  BY <1>1, <1>2, <1>3, <1>4
     DEF Next, Step, Decline, BadOptions, OpenSerializer, GiveUp, InputRead, BadScale,
         WriteHeader, Advanced, Finalize,
         FinalizeIncomplete, StartXml, XmlFails, OpenIfc, WriteIfc,
         DeleteOutput, Rename, Report, Killed, Ended, vars

(* Converting a representation leaves what was written as it is.           *)
LEMMA WrittenKept ==
  ASSUME It!IInv, It!Next, UNCHANGED written, NEW k \in Nat, k <= Len(elements),
         WrittenUpTo(k)
  PROVE  WrittenUpTo(k)'
<1>1. \A n \in 1..k : n \in 1..Len(elements)
  BY SameIterator, ItAssumptions, ItProofs!IteratorFacts
<1>2. QED
  BY <1>1, IteratorStep DEF WrittenUpTo

LEMMA TypeInvariant == IInv /\ [Next]_vars => TypeOK'
<1> SUFFICES ASSUME IInv, [Next]_vars PROVE TypeOK'
  OBVIOUS
<1>1. TypeOK /\ It!TypeOK'
  BY IteratorInvariant DEF IInv, It!IInv
<1>2. written' \in Seq((1..NumTasks) \X (Nat \ {0}))
  <2>1. CASE Write
    <3>1. elements[cursor] \in Elements
      BY <2>1, SameIterator, ItAssumptions, ItProofs!IteratorFacts, ElementOfSeq
         DEF Write, IInv, WrittenInv, Elements
    <3>2. QED
      BY <1>1, <2>1, <3>1, AppendProperties DEF Write, TypeOK, Elements
  <2>2. CASE ~Write
    BY <1>1, <2>2
       DEF TypeOK, Next, Step, Decline, BadOptions, OpenSerializer, GiveUp, InputRead,
           Initializing, BadScale, WriteHeader, Advancing, Advanced, Finalize,
         FinalizeIncomplete, StartXml,
           XmlFails, OpenIfc, WriteIfc, DeleteOutput, Rename, Report, Killed, Ended,
           vars, mainVars
  <2>3. QED
    BY <2>1, <2>2
<1>3. CASE UNCHANGED vars
  <2>1. UNCHANGED <<output, temp, format, pc, exit_code, declined, errors, existed,
                  incomplete>>
    BY <1>3 DEF vars, disk, mainVars
  <2>2. QED
    BY <1>1, <1>2, <2>1 DEF TypeOK
<1> USE DEF TypeOK, Content, Exit, Go, Kept, disk, mainVars
<1>4. CASE Decline
  BY <1>1, <1>2, <1>4 DEF Decline
<1>5. CASE BadOptions
  BY <1>1, <1>2, <1>5 DEF BadOptions
<1>6. CASE OpenSerializer
  BY <1>1, <1>2, <1>6 DEF OpenSerializer
<1>7. CASE GiveUp
  BY <1>1, <1>2, <1>7 DEF GiveUp
<1>8. CASE InputRead
  BY <1>1, <1>2, <1>8 DEF InputRead
<1>9. CASE Initializing
  BY <1>1, <1>2, <1>9 DEF Initializing
<1>10. CASE BadScale
  BY <1>1, <1>2, <1>10 DEF BadScale
<1>11. CASE WriteHeader
  BY <1>1, <1>2, <1>11 DEF WriteHeader
<1>12. CASE Write
  BY <1>1, <1>2, <1>12 DEF Write
<1>13. CASE Advancing
  BY <1>1, <1>2, <1>13 DEF Advancing
<1>14. CASE Advanced
  BY <1>1, <1>2, <1>14 DEF Advanced
<1>15. CASE Finalize
  BY <1>1, <1>2, <1>15 DEF Finalize
<1>16. CASE FinalizeIncomplete
  BY <1>1, <1>2, <1>16 DEF FinalizeIncomplete
<1>17. CASE StartXml
  BY <1>1, <1>2, <1>17 DEF StartXml
<1>18. CASE XmlFails
  BY <1>1, <1>2, <1>18 DEF XmlFails
<1>19. CASE OpenIfc
  BY <1>1, <1>2, <1>19 DEF OpenIfc
<1>20. CASE WriteIfc
  BY <1>1, <1>2, <1>20 DEF WriteIfc
<1>21. CASE DeleteOutput
  BY <1>1, <1>2, <1>21 DEF DeleteOutput
<1>22. CASE Rename
  BY <1>1, <1>2, <1>22 DEF Rename
<1>23. CASE Report
  BY <1>1, <1>2, <1>23 DEF Report
<1>24. CASE Killed
  BY <1>1, <1>2, <1>24 DEF Killed
<1>25. QED
  BY <1>3, <1>4, <1>5, <1>6, <1>7, <1>8, <1>9, <1>10, <1>11, <1>12, <1>13, <1>14,
     <1>15, <1>16, <1>17, <1>18, <1>19, <1>20, <1>21, <1>22, <1>23, <1>24
     DEF Next, Step, Ended

(* What the disk holds, and what that means for the files.                 *)
LEMMA DiskInvariant ==
  IInv /\ [Next]_vars => DiskInv' /\ NothingIsLost' /\ OutputIsWhole'
<1> SUFFICES ASSUME IInv, [Next]_vars PROVE DiskInv' /\ NothingIsLost' /\ OutputIsWhole'
  OBVIOUS
<1>1. /\ TypeOK /\ DiskInv /\ NothingIsLost /\ OutputIsWhole
      /\ format \in {"mesh", "svg", "brep", "usd", "xml", "ifc"}
  BY FormatsAssumption DEF IInv, TypeOK
<1> USE DEF DiskInv, NothingIsLost, OutputIsWhole, Untouched, Unused, InPlace, Geometry,
            Exit, Go, Kept, disk, mainVars
<1>2. CASE Decline
  BY <1>1, <1>2 DEF Decline
<1>3. CASE BadOptions
  BY <1>1, <1>3 DEF BadOptions
<1>4. CASE OpenSerializer
  BY <1>1, <1>4 DEF OpenSerializer
<1>5. CASE GiveUp
  BY <1>1, <1>5 DEF GiveUp
<1>6. CASE InputRead
  BY <1>1, <1>6 DEF InputRead
<1>7. CASE Initializing
  BY <1>1, <1>7 DEF Initializing
<1>8. CASE BadScale
  BY <1>1, <1>8 DEF BadScale
<1>9. CASE WriteHeader
  BY <1>1, <1>9 DEF WriteHeader
<1>10. CASE Write
  BY <1>1, <1>10 DEF Write
<1>11. CASE Advancing
  BY <1>1, <1>11 DEF Advancing
<1>12. CASE Advanced
  BY <1>1, <1>12 DEF Advanced
<1>13. CASE Finalize \/ FinalizeIncomplete
  <2>1. pc = "finalize" /\ ~incomplete /\ UNCHANGED <<format, existed>>
    BY <1>1, <1>13 DEF Finalize, FinalizeIncomplete
  <2>2. CASE format = "usd"
    <3>1. Unused /\ UNCHANGED temp
      BY <1>1, <1>13, <2>1, <2>2 DEF Finalize, FinalizeIncomplete
    <3>2. pc' = "report" /\ (output' = "new" \/ incomplete')
      <4>1. CASE Finalize
        BY <2>2, <4>1 DEF Finalize
      <4>2. CASE FinalizeIncomplete
        BY <2>2, <4>2 DEF FinalizeIncomplete
      <4>3. QED
        BY <1>13, <4>1, <4>2
    <3>3. QED
      BY <2>1, <2>2, <3>1, <3>2
  <2>3. CASE format # "usd"
    <3>1. temp # "new" /\ Untouched /\ UNCHANGED output /\ format \notin InPlace
      BY <1>1, <1>13, <2>1, <2>3 DEF Finalize, FinalizeIncomplete
    <3>2. pc' = "delete" /\ ((temp' = "new" /\ ~incomplete') \/ (temp' # "new" /\ incomplete'))
      <4>1. CASE Finalize
        <5>1. temp' = "new" /\ pc' = "delete"
          BY <2>3, <4>1 DEF Finalize
        <5>2. UNCHANGED incomplete
          BY <4>1 DEF Finalize
        <5>3. ~incomplete'
          BY <2>1, <5>2
        <5>4. QED
          BY <5>1, <5>3
      <4>2. CASE FinalizeIncomplete
        BY <2>3, <3>1, <4>2 DEF FinalizeIncomplete
      <4>3. QED
        BY <1>13, <4>1, <4>2
    <3>3. output' \notin {"part", "stale"} /\ Untouched' /\ format' \notin InPlace
      BY <2>1, <3>1
    <3>4. QED
      BY <3>2, <3>3
  <2>4. QED
    BY <2>2, <2>3
<1>14. CASE StartXml
  BY <1>1, <1>14 DEF StartXml
<1>15. CASE XmlFails
  BY <1>1, <1>15 DEF XmlFails
<1>16. CASE OpenIfc
  BY <1>1, <1>16 DEF OpenIfc
<1>17. CASE WriteIfc
  BY <1>1, <1>17 DEF WriteIfc
<1>18. CASE DeleteOutput
  BY <1>1, <1>18 DEF DeleteOutput
<1>19. CASE Rename
  BY <1>1, <1>19 DEF Rename
<1>20. CASE Report
  BY <1>1, <1>20 DEF Report
<1>21. CASE Killed
  BY <1>1, <1>21 DEF Killed
<1>22. CASE UNCHANGED vars
  BY <1>1, <1>22 DEF vars
<1>23. QED
  BY <1>2, <1>3, <1>4, <1>5, <1>6, <1>7, <1>8, <1>9, <1>10, <1>11, <1>12, <1>13, <1>14,
     <1>15, <1>16, <1>17, <1>18, <1>19, <1>20, <1>21, <1>22 DEF Next, Step, Ended

(* When next() has answered that there are no more, all was written.       *)
LEMMA AllWritten ==
  ASSUME IInv, pc = "next", client = "free", answer # "element"
  PROVE  Finished
<1>1. It!IInv /\ outcome = "true" /\ WrittenUpTo(cursor)
  BY DEF IInv, WrittenInv
<1>2. /\ elements \in Seq(Elements) /\ cursor = Len(elements)
      /\ next_task > total \/ had_error
  BY <1>1, SameIterator, ItAssumptions, ItProofs!IteratorFacts DEF Elements
<1>3. written \in Seq(Elements)
  BY DEF IInv, TypeOK, Elements
<1>4. written = elements
  BY <1>1, <1>2, <1>3, SeqEqual DEF WrittenUpTo
<1>5. QED
  BY <1>2, <1>4 DEF Finished

LEMMA WrittenInvariant == IInv /\ [Next]_vars => WrittenInv'
<1> SUFFICES ASSUME IInv, [Next]_vars PROVE WrittenInv'
  OBVIOUS
<1>1. /\ WrittenInv /\ It!IInv
      /\ pc = "write ifc" => format = "ifc"
      /\ format \in {"mesh", "svg", "brep", "usd", "xml", "ifc"}
  BY FormatsAssumption DEF IInv, TypeOK, DiskInv
<1>2. CASE Initializing
  <2>1. pc = "initialize" /\ UNCHANGED <<disk, mainVars>>
    BY <1>2 DEF Initializing
  <2>2. outcome' = "true" => client' = "free" /\ cursor' = 1
    <3>1. CASE It!Initialize \/ It!InitializeNoTasks
      BY <1>1, <2>1, <3>1, SameIterator, ItAssumptions, ItProofs!IteratorFacts
         DEF It!Initialize, It!InitializeNoTasks, It!Answer, WrittenInv
    <3>2. CASE It!Call
      <4>1. outcome = "unset"
        BY <1>1, <2>1, <3>2, SameIterator, ItAssumptions, ItProofs!CallEffect,
           ItProofs!IteratorFacts
           DEF WrittenInv, It!IInv, It!TypeOK
      <4>2. QED
        BY <1>1, <3>2, <4>1, SameIterator, ItAssumptions, ItProofs!CallEffect
    <3>3. QED
      BY <1>2, <3>1, <3>2 DEF Initializing
  <2>3. QED
    BY <1>1, <2>1, <2>2 DEF WrittenInv, mainVars
<1>3. CASE Write
  <2>1. /\ pc = "write" /\ outcome = "true" /\ client = "free" /\ WrittenUpTo(cursor - 1)
        /\ written' = Append(written, elements[cursor]) /\ pc' = "next"
        /\ exit_code' = exit_code /\ UNCHANGED <<declined, format>>
    BY <1>1, <1>3 DEF Write, WrittenInv, Go, Kept
  <2>2. /\ cursor \in 1..Len(elements) /\ Len(elements) \in Nat
        /\ elements \in Seq(Elements)
    BY <1>1, <2>1, SameIterator, ItAssumptions, ItProofs!IteratorFacts DEF Elements
  <2>3. elements[cursor] \in Elements /\ written \in Seq(Elements)
    <3>1. written \in Seq(Elements)
      BY DEF IInv, TypeOK, Elements
    <3>2. elements[cursor] \in Elements
      BY <2>2, ElementOfSeq
    <3>3. QED
      BY <3>1, <3>2
  <2>4. /\ Len(written') = cursor
        /\ \A n \in 1..cursor-1 : written'[n] = written[n]
        /\ written'[cursor] = elements[cursor]
    BY <2>1, <2>2, <2>3, AppendProperties DEF WrittenUpTo
  <2>5. Len(written') = cursor /\ \A n \in 1..cursor : written'[n] = elements[n]
    BY <2>1, <2>2, <2>4 DEF WrittenUpTo
  <2>6. CASE It!NextElement
    <3>1. /\ cursor' = cursor + 1 /\ client' = "free" /\ answer' = "element"
          /\ outcome' = "true" /\ elements' = elements
      BY <2>1, <2>6 DEF It!NextElement, It!Answer
    <3>2. cursor' - 1 = cursor
      BY <2>2, <3>1
    <3>3. WrittenUpTo(cursor - 1)'
      BY <2>5, <3>1, <3>2 DEF WrittenUpTo
    <3>4. QED
      BY <1>1, <2>1, <3>1, <3>3 DEF WrittenInv
  <2>7. CASE It!NextTask
    <3>1. /\ cursor' = cursor /\ client' = "create" /\ outcome' = "true"
          /\ elements' = elements
      BY <2>1, <2>7 DEF It!NextTask
    <3>2. WrittenUpTo(cursor)'
      BY <2>5, <3>1 DEF WrittenUpTo
    <3>3. QED
      BY <1>1, <2>1, <3>1, <3>2 DEF WrittenInv
  <2>8. QED
    BY <1>3, <2>6, <2>7 DEF Write
<1>4. CASE Advancing
  <2>1. /\ pc = "next" /\ outcome = "true" /\ It!Call /\ UNCHANGED mainVars
        /\ client \in {"create", "created"}
    BY <1>1, <1>4, SameIterator, ItAssumptions, ItProofs!CallEffect
       DEF Advancing, WrittenInv
  <2>2. WrittenUpTo(cursor) /\ cursor \in Nat /\ cursor <= Len(elements)
    BY <1>1, <2>1, SameIterator, ItAssumptions, ItProofs!IteratorFacts DEF WrittenInv
  <2>3. WrittenUpTo(cursor)' \/ (cursor' = cursor + 1 /\ WrittenUpTo(cursor - 1)')
    <3>1. /\ Len(written') = cursor
          /\ \A n \in 1..cursor : written'[n] = elements'[n]
      BY <1>1, <2>1, <2>2, WrittenKept DEF It!Next, mainVars, WrittenUpTo
    <3>2. cursor' = cursor \/ cursor' = cursor + 1
      BY <1>1, <2>1, SameIterator, ItAssumptions, ItProofs!CallEffect
    <3>3. CASE cursor' = cursor
      BY <3>1, <3>3 DEF WrittenUpTo
    <3>4. CASE cursor' = cursor + 1
      <4>1. cursor' - 1 = cursor
        BY <2>2, <3>4
      <4>2. QED
        BY <3>1, <3>4, <4>1 DEF WrittenUpTo
    <3>5. QED
      BY <3>2, <3>3, <3>4
  <2>4. /\ outcome' = "true" /\ client' \in {"free", "create", "created"}
        /\ client' = "free" /\ answer' = "element" => cursor' = cursor + 1
        /\ ~(client' = "free" /\ answer' = "element") => cursor' = cursor
    BY <1>1, <2>1, SameIterator, ItAssumptions, ItProofs!CallEffect
  <2>5. Len(written') = cursor
    BY <2>1, <2>2 DEF mainVars, WrittenUpTo
  <2>6. WrittenUpTo(IF client = "free" /\ answer = "element" THEN cursor - 1 ELSE cursor)'
    <3>1. CASE client' = "free" /\ answer' = "element"
      <4>1. ~WrittenUpTo(cursor)'
        BY <2>2, <2>4, <2>5, <3>1 DEF WrittenUpTo
      <4>2. QED
        BY <2>3, <3>1, <4>1
    <3>2. CASE ~(client' = "free" /\ answer' = "element")
      <4>1. cursor' # cursor + 1
        BY <2>2, <2>4, <3>2
      <4>2. WrittenUpTo(cursor)'
        BY <2>3, <4>1
      <4>3. QED
        BY <3>2, <4>2
    <3>3. QED
      BY <3>1, <3>2
  <2>7. QED
    BY <1>1, <2>1, <2>4, <2>6 DEF WrittenInv, mainVars
<1> USE DEF Exit, Go, Kept, iteratorVars, disk, mainVars, Geometry
<1>5. CASE Advanced
  <2>1. CASE answer = "element"
    BY <1>1, <1>5, <2>1 DEF Advanced, WrittenInv, WrittenUpTo
  <2>2. CASE answer # "element"
    <3>1. Finished
      BY <1>5, <2>2, AllWritten DEF Advanced
    <3>2. QED
      BY <1>1, <1>5, <2>2, <3>1 DEF Advanced, WrittenInv, Finished
  <2>3. QED
    BY <2>1, <2>2
<1>6. CASE WriteHeader
  <2>1. written = <<>> /\ cursor = 1 /\ outcome = "true" /\ client = "free"
    BY <1>1, <1>6 DEF WriteHeader, WrittenInv
  <2>2. WrittenUpTo(cursor - 1)'
    BY <1>6, <2>1, EmptySeq DEF WriteHeader, WrittenUpTo
  <2>3. QED
    BY <1>1, <1>6, <2>1, <2>2 DEF WriteHeader, WrittenInv
<1>7. CASE Decline
  BY <1>1, <1>7 DEF Decline, WrittenInv
<1>8. CASE BadOptions
  BY <1>1, <1>8 DEF BadOptions, WrittenInv
<1>9. CASE OpenSerializer
  BY <1>1, <1>9 DEF OpenSerializer, WrittenInv
<1>10. CASE GiveUp
  BY <1>1, <1>10 DEF GiveUp, WrittenInv
<1>11. CASE InputRead
  BY <1>1, <1>11 DEF InputRead, WrittenInv
<1>12. CASE BadScale
  BY <1>1, <1>12 DEF BadScale, WrittenInv
<1>13. CASE Finalize \/ FinalizeIncomplete
  <2>1. CASE Finalize
    BY <1>1, <2>1 DEF Finalize, WrittenInv, Finished
  <2>2. CASE FinalizeIncomplete
    BY <1>1, <2>2 DEF FinalizeIncomplete, WrittenInv, Finished
  <2>3. QED
    BY <1>13, <2>1, <2>2
<1>14. CASE DeleteOutput
  BY <1>1, <1>14 DEF DeleteOutput, WrittenInv, Finished
<1>15. CASE Rename
  BY <1>1, <1>15 DEF Rename, WrittenInv, Finished
<1>16. CASE StartXml
  BY <1>1, <1>16 DEF StartXml, WrittenInv
<1>17. CASE XmlFails
  BY <1>1, <1>17 DEF XmlFails, WrittenInv
<1>18. CASE OpenIfc
  BY <1>1, <1>18 DEF OpenIfc, WrittenInv
<1>19. CASE WriteIfc
  BY <1>1, <1>19 DEF WriteIfc, WrittenInv
<1>20. CASE Report
  BY <1>1, <1>20 DEF Report, WrittenInv
<1>21. CASE Killed
  BY <1>1, <1>21 DEF Killed, WrittenInv
<1>22. CASE UNCHANGED vars
  BY <1>1, <1>22 DEF vars, WrittenInv, WrittenUpTo, Finished
<1>23. QED
  BY <1>2, <1>3, <1>4, <1>5, <1>6, <1>7, <1>8, <1>9, <1>10, <1>11, <1>12,
     <1>13, <1>14, <1>15, <1>16, <1>17, <1>18, <1>19, <1>20, <1>21, <1>22
     DEF Next, Step, Ended

(* What the exit code says.                                                *)
LEMMA ExitInvariant == IInv /\ [Next]_vars => SuccessMeansWritten' /\ FailureCleansUp'
<1> SUFFICES ASSUME IInv, [Next]_vars PROVE SuccessMeansWritten' /\ FailureCleansUp'
  OBVIOUS
<1>1. /\ DiskInv /\ WrittenInv /\ SuccessMeansWritten /\ FailureCleansUp
      /\ format \in {"mesh", "svg", "brep", "usd", "xml", "ifc"}
  BY FormatsAssumption DEF IInv, TypeOK
<1>2. exit_code' = -1 => SuccessMeansWritten' /\ FailureCleansUp'
  BY DEF SuccessMeansWritten, FailureCleansUp
<1>3. pc # "exited" => exit_code = -1
  BY <1>1 DEF WrittenInv
<1> USE DEF SuccessMeansWritten, FailureCleansUp, Exit, Go, Kept, iteratorVars, disk,
            mainVars, Geometry, InPlace, Unused
<1>4. CASE UNCHANGED exit_code /\ pc # "exited"
  BY <1>2, <1>3, <1>4
<1>5. CASE UNCHANGED vars
  BY <1>1, <1>5 DEF vars
<1>6. CASE Decline \/ BadOptions
  <2>1. CASE Decline
    <3>1. declined' = TRUE /\ exit_code' = 0
      BY <2>1 DEF Decline
    <3>2. QED
      BY <3>1
  <2>2. CASE BadOptions
    BY <1>1, <2>2 DEF BadOptions, DiskInv
  <2>3. QED
    BY <1>6, <2>1, <2>2
<1>7. CASE GiveUp
  BY <1>1, <1>7 DEF GiveUp
<1>8. CASE BadScale
  BY <1>1, <1>8 DEF BadScale, DiskInv
<1>9. CASE XmlFails
  BY <1>1, <1>9 DEF XmlFails, DiskInv
<1>10. CASE WriteIfc
  <2>1. format = "ifc" /\ temp' \notin {"part", "new"} /\ UNCHANGED format
    BY <1>1, <1>10 DEF WriteIfc, DiskInv
  <2>2. FailureCleansUp'
    BY <2>1
  <2>3. CASE incomplete' = TRUE
    BY <2>1, <2>2, <2>3
  <2>4. CASE output' = "new"
    BY <2>1, <2>2, <2>4
  <2>5. CASE exit_code' = 1
    BY <2>2, <2>5
  <2>6. QED
    BY <1>10, <2>3, <2>4, <2>5 DEF WriteIfc
<1>11. CASE Rename
  BY <1>1, <1>2, <1>3, <1>11 DEF Rename, DiskInv
<1>12. CASE Report
  BY <1>1, <1>12 DEF Report, DiskInv, WrittenInv, Finished
<1>13. QED
  BY <1>4, <1>5, <1>6, <1>7, <1>8, <1>9, <1>10, <1>11, <1>12
     DEF Next, Step, Ended, OpenSerializer, InputRead, Initializing, WriteHeader, Write,
         Advancing, Advanced, Finalize,
         FinalizeIncomplete, StartXml, OpenIfc, DeleteOutput, Killed

(* The invariant holds in every reachable state.                           *)
LEMMA InvariantHolds == Spec => []IInv
<1>1. IInv /\ [Next]_vars => IInv'
  BY IteratorInvariant, TypeInvariant, DiskInvariant, WrittenInvariant, ExitInvariant DEF IInv
<1>2. QED
  BY <1>1, InitInvariant, PTL DEF Spec

(* The state of the tool and of its iterator is well typed.                *)
THEOREM TypeCorrect == Spec => []TypeOK
<1>1. IInv => TypeOK
  BY DEF IInv
<1>2. QED
  BY <1>1, InvariantHolds, PTL

(* Wherever the process ends, the user still has the old file or the        *)
(* complete new one, in its place or as the temporary file, unless the      *)
(* serializer has returned without completing its file; and until it has    *)
(* returned the old file is untouched.                                      *)
THEOREM NothingLost == Spec => []NothingIsLost
<1>1. IInv => NothingIsLost
  BY DEF IInv
<1>2. QED
  BY <1>1, InvariantHolds, PTL

(* The output file is never half written or of an earlier run, unless the   *)
(* serializer has returned without completing its file.                     *)
THEOREM OutputWhole == Spec => []OutputIsWhole
<1>1. IInv => OutputIsWhole
  BY DEF IInv
<1>2. QED
  BY <1>1, InvariantHolds, PTL

(* Success means that the output file is complete, unless the serializer    *)
(* has not completed it or an XML file could not be renamed, and that every *)
(* element of the iterator was written, in order, for any number of         *)
(* representations.                                                         *)
THEOREM SuccessWritten == Spec => []SuccessMeansWritten
<1>1. IInv => SuccessMeansWritten
  BY DEF IInv
<1>2. QED
  BY <1>1, InvariantHolds, PTL

(* After a failure a temporary file of the run stays only where main() took *)
(* it for the result, or where the code forgets it.                         *)
THEOREM FailureCleans == Spec => []FailureCleansUp
<1>1. IInv => FailureCleansUp
  BY DEF IInv
<1>2. QED
  BY <1>1, InvariantHolds, PTL
================================================================================
