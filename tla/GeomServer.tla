------------------------------ MODULE GeomServer ------------------------------
(***************************************************************************)
(* IfcGeomServer (src/IFC/src/ifcgeomserver/IfcGeomServer.cpp): one loop   *)
(* reads a command from standard input, executes it and writes an answer.  *)
(* It owns a file and a sequential iterator over it; the iterator is the   *)
(* one of SequentialIterator, whose steps run inside IFC_MODEL and NEXT.   *)
(*                                                                         *)
(* The client may send any command at any time. The end of the input is    *)
(* not modelled: the loop does not test it and reads an uninitialised      *)
(* integer as the next command.                                            *)
(***************************************************************************)
EXTENDS Integers, Sequences

CONSTANTS
  NumTasks,      \* bound: the largest number of representations in a model
  Products,      \* Products[t]: how many products share representation t
  Deflections,   \* values of the DEFLECTION command, 0 being the default
  MaxModels      \* bound: how many IFC_MODEL commands are sent

ASSUME TasksAssumption == NumTasks \in Nat
ASSUME ProductsAssumption == Products \in [1..NumTasks -> Nat \ {0}]
ASSUME DeflectionsAssumption == 0 \in Deflections
ASSUME ModelsAssumption == MaxModels \in Nat

VARIABLES
  \* the iterator that `iterator` points to (or pointed to last)
  total, elements, cursor, next_task, had_error, outcome, answer, client,
  \* the variables of main()
  iterator,      \* iterator and file, set and cleared together: a model or Null
  has_more,
  deflection,
  pc,            \* where main() is: waiting in sread(), inside a call, gone
  exit_code,
  \* history
  models,        \* how many models were sent
  told,          \* the last More answer
  offered,       \* the elements announced by More(true) for the last model
  meshed,        \* the deflection in the settings of the last iterator
  fruitful,      \* the models of which an element was offered
  leaked,        \* the models neither deleted nor pointed to any more
  careless,      \* the client sent GET or NEXT after More(false), or a new
                 \* model before the end of the last one
  unreadable     \* the client sent a file whose schema is not recognised

iteratorVars == <<total, elements, cursor, next_task, had_error, outcome, answer, client>>
mainVars == <<iterator, has_more, deflection, pc, exit_code>>
history == <<models, told, offered, meshed, fruitful, leaked, careless, unreadable>>
vars == <<iteratorVars, mainVars, history>>

Null == 0

It == INSTANCE SequentialIterator

Init ==
  /\ It!Init
  /\ iterator = Null /\ has_more = FALSE /\ deflection = 0
  /\ pc = "read" /\ exit_code = -1
  /\ models = 0 /\ told = FALSE /\ offered = <<>> /\ meshed = 0
  /\ fruitful = {} /\ leaked = {}
  /\ careless = FALSE /\ unreadable = FALSE

(* new IfcGeom::Iterator(settings, file) *)
NewIterator ==
  /\ total' = 0 /\ elements' = <<>> /\ cursor' = 0 /\ next_task' = 1
  /\ had_error' = FALSE /\ outcome' = "unset" /\ answer' = "none" /\ client' = "free"

(* More(has_more).write(std::cout), and back to the head of the loop. *)
AnswerMore(more) ==
  /\ has_more' = more /\ told' = more
  /\ IF more
       THEN offered' = Append(offered, elements[cursor]) /\ fruitful' = fruitful \cup {iterator}
       ELSE UNCHANGED <<offered, fruitful>>
  /\ pc' = "read"

Stop(code) ==
  /\ pc' = "stopped" /\ exit_code' = code
------------------------------------------------------------------------------
(* IFC_MODEL: the pointers are overwritten, whatever they pointed to. *)
IfcModel ==
  /\ pc = "read" /\ models < MaxModels
  /\ models' = models + 1
  /\ leaked' = IF iterator = Null THEN leaked ELSE leaked \cup {iterator}
  /\ iterator' = models + 1
  /\ meshed' = deflection
  /\ offered' = <<>>
  /\ careless' = (careless \/ told)
  /\ NewIterator
  /\ pc' = "initialize"
  /\ UNCHANGED <<has_more, deflection, exit_code, told, fruitful, unreadable>>

(* The constructors throw, and main() does not catch it. *)
IfcModelUnreadable ==
  /\ pc = "read" /\ models < MaxModels
  /\ unreadable' = TRUE
  /\ pc' = "crashed"
  /\ UNCHANGED <<iteratorVars, iterator, has_more, deflection, exit_code,
                 models, told, offered, meshed, fruitful, leaked, careless>>

Initializing ==
  /\ pc = "initialize"
  /\ It!Initialize \/ It!InitializeNoTasks \/ It!Call
  /\ UNCHANGED <<mainVars, history>>

(* Mutant: the loop waits for the first element, not for the outcome. *)
InitializedPolls ==
  /\ pc = "initialize" /\ client = "free" /\ outcome # "unset"
  /\ IF outcome = "true" THEN AnswerMore(TRUE)
     ELSE UNCHANGED <<has_more, told, offered, fruitful, pc>>
  /\ UNCHANGED <<iteratorVars, iterator, deflection, exit_code,
                 models, meshed, leaked, careless, unreadable>>

Initialized ==
  /\ pc = "initialize" /\ client = "free" /\ outcome # "unset"
  /\ AnswerMore(outcome = "true")
  /\ UNCHANGED <<iteratorVars, iterator, deflection, exit_code,
                 models, meshed, leaked, careless, unreadable>>

(* GET while has_more: get() and get_native() are written as an Entity. *)
Get ==
  /\ pc = "read" /\ has_more
  /\ UNCHANGED vars

GetRefused ==
  /\ pc = "read" /\ ~has_more
  /\ Stop(1)
  /\ careless' = TRUE
  /\ UNCHANGED <<iteratorVars, iterator, has_more, deflection,
                 models, told, offered, meshed, fruitful, leaked, unreadable>>

NextCommand ==
  /\ pc = "read" /\ iterator # Null
  /\ It!NextElement \/ It!NextTask
  /\ pc' = "next"
  /\ UNCHANGED <<iterator, has_more, deflection, exit_code, history>>

(* next() through a null pointer, or on cursors that were never set *)
NextCrashes ==
  /\ pc = "read" /\ (iterator = Null \/ outcome = "false")
  /\ pc' = "crashed"
  /\ careless' = TRUE
  /\ UNCHANGED <<iteratorVars, iterator, has_more, deflection, exit_code,
                 models, told, offered, meshed, fruitful, leaked, unreadable>>

Advancing ==
  /\ pc = "next" /\ It!Call
  /\ UNCHANGED <<mainVars, history>>

(* Mutant: only the iterator is cleared by the last NEXT, not has_more. *)
AdvancedStaleMore ==
  /\ pc = "next" /\ client = "free"
  /\ iterator' = IF answer = "element" THEN iterator ELSE Null
  /\ pc' = "read"
  /\ UNCHANGED <<iteratorVars, has_more, deflection, exit_code,
                 models, told, offered, meshed, fruitful, leaked, careless, unreadable>>

(* Mutant: the last NEXT leaves the file and the iterator allocated. *)
AdvancedKeepsModel ==
  /\ pc = "next" /\ client = "free"
  /\ AnswerMore(answer = "element")
  /\ UNCHANGED <<iteratorVars, iterator, deflection, exit_code,
                 models, meshed, leaked, careless, unreadable>>

(* The rest of NEXT: a null result deletes the file and the iterator. *)
Advanced ==
  /\ pc = "next" /\ client = "free"
  /\ AnswerMore(answer = "element")
  /\ iterator' = IF answer = "element" THEN iterator ELSE Null
  /\ UNCHANGED <<iteratorVars, deflection, exit_code,
                 models, meshed, leaked, careless, unreadable>>

(* DEFLECTION, before a model is loaded *)
Deflection(d) ==
  /\ pc = "read" /\ iterator = Null
  /\ deflection' = d
  /\ UNCHANGED <<iteratorVars, iterator, has_more, pc, exit_code, history>>

(* SETTING is stored in a list that nothing reads; GET_LOG only answers. *)
SettingOrGetLog ==
  /\ pc = "read"
  /\ UNCHANGED vars

(* DEFLECTION or SETTING with a model loaded, or an unknown command *)
Refused ==
  /\ pc = "read"
  /\ Stop(1)
  /\ UNCHANGED <<iteratorVars, iterator, has_more, deflection, history>>

Bye ==
  /\ pc = "read"
  /\ Stop(0)
  /\ UNCHANGED <<iteratorVars, iterator, has_more, deflection, history>>

Ended == pc \in {"stopped", "crashed"} /\ UNCHANGED vars

Running == Initializing \/ Initialized \/ Advancing \/ Advanced

Next ==
  \/ IfcModel \/ IfcModelUnreadable
  \/ Get \/ GetRefused
  \/ NextCommand \/ NextCrashes
  \/ \E d \in Deflections : Deflection(d)
  \/ SettingOrGetLog \/ Refused \/ Bye
  \/ Running
  \/ Ended

Spec == Init /\ [][Next]_vars

(* A call, once made, runs; the client owes nothing. *)
FairSpec == Spec /\ WF_vars(Running)
------------------------------------------------------------------------------
TypeOK ==
  /\ It!TypeOK
  /\ iterator \in 0..models /\ models \in 0..MaxModels
  /\ has_more \in BOOLEAN /\ told \in BOOLEAN
  /\ deflection \in Deflections /\ meshed \in Deflections
  /\ pc \in {"read", "initialize", "next", "stopped", "crashed"}
  /\ exit_code \in {-1, 0, 1}
  /\ offered \in Seq((1..NumTasks) \X (Nat \ {0}))
  /\ fruitful \subseteq 1..models /\ leaked \subseteq 1..models
  /\ careless \in BOOLEAN /\ unreadable \in BOOLEAN

(* A client that sends GET and NEXT only after More(true), and a new model  *)
(* only after More(false), never makes the server use a pointer that is     *)
(* null or a cursor that is not set (IfcGeomServer.cpp:620, 632): the       *)
(* server dies of an unreadable file only, and refuses no GET.              *)
ObedientClientIsSafe ==
  ~careless => /\ pc = "crashed" => unreadable
               /\ pc = "read" /\ told => /\ has_more /\ iterator # Null
                                         /\ outcome = "true"
                                         /\ cursor \in 1..Len(elements)

(* The elements that More(true) announces, one after the other, are the     *)
(* iterator's, in order; and More(false) without an exception in the       *)
(* conversion comes when there is none left.                               *)
EveryElementOffered ==
  pc = "read" /\ models > 0 =>
    /\ told => offered = SubSeq(elements, 1, cursor)
    /\ ~told /\ ~had_error => offered = elements /\ next_task > total

(* The model of an obedient client is deleted when its elements have been   *)
(* read; what stays allocated never had one (IfcGeomServer.cpp:609 keeps   *)
(* the pointers, and the next IFC_MODEL overwrites them).                   *)
OnlyEmptyModelsLeak ==
  ~careless => leaked \cap fruitful = {}

(* The loaded model is meshed with the deflection that the client last set  *)
(* successfully: the command cannot change it behind the iterator's back.   *)
DeflectionIsCurrent ==
  iterator # Null => meshed = deflection

(* IFC_MODEL and NEXT are answered, whatever the conversion does. *)
EveryCallIsAnswered ==
  pc \in {"initialize", "next"} ~> pc = "read"
------------------------------------------------------------------------------
OfferedUpTo(k) == Len(offered) = k /\ \A n \in 1..k : offered[n] = elements[n]

(* What is offered while main() is where it is: the elements up to the      *)
(* cursor; next() moves the cursor before that is announced.                *)
OfferedInv ==
  /\ pc = "read" =>
       /\ client = "free"
       /\ told => iterator # Null /\ outcome = "true" /\ OfferedUpTo(cursor)
       /\ ~told => iterator = Null \/ outcome = "false"
       /\ ~told /\ ~had_error /\ models > 0 => offered = elements /\ next_task > total
  /\ pc = "initialize" =>
       /\ iterator # Null /\ offered = <<>>
       /\ outcome = "true" => client = "free" /\ cursor = 1
  /\ pc = "next" =>
       /\ iterator # Null
       /\ outcome = "true" /\ client \in {"free", "create", "created"}
       /\ OfferedUpTo(IF client = "free" /\ answer = "element" THEN cursor - 1 ELSE cursor)

(* Which model the pointers are for, and what became of the others. *)
ModelInv ==
  /\ has_more = told
  /\ iterator # Null => iterator = models /\ models \notin leaked
  /\ iterator # Null /\ outcome # "true" => models \notin fruitful
  /\ pc = "crashed" => careless \/ unreadable

(* The inductive invariant *)
IInv ==
  /\ TypeOK /\ It!IInv
  /\ OfferedInv /\ ModelInv
  /\ OnlyEmptyModelsLeak /\ DeflectionIsCurrent
==============================================================================
