----------------------------- MODULE ConvertTool ------------------------------
(***************************************************************************)
(* What IfcConvert (src/IFC/src/ifcconvert/IfcConvert.cpp) does to the     *)
(* files it is told to write. Most formats are written to a temporary      *)
(* file, which replaces the output file at the end; IFC and USD are        *)
(* written in place. The geometry comes from the iterator of               *)
(* SequentialIterator. The process can end at every step: it is killed,    *)
(* or an exception leaves main(). A serializer returns nothing from        *)
(* finalize(), and some return without a file, or without all of it: the   *)
(* variable incomplete records that, and what is promised nevertheless     *)
(* says so.                                                                *)
(***************************************************************************)
EXTENDS Integers, Sequences

CONSTANTS
  NumTasks,     \* bound: the largest number of representations found
  Products,     \* Products[t]: how many products share representation t
  Formats       \* the output formats, by how their files are treated

ASSUME TasksAssumption == NumTasks \in Nat
ASSUME ProductsAssumption == Products \in [1..NumTasks -> Nat \ {0}]
ASSUME FormatsAssumption == Formats \subseteq {"mesh", "svg", "brep", "usd", "xml", "ifc"}

VARIABLES
  \* the iterator, while the tool has one
  total, elements, cursor, next_task, had_error, outcome, answer, client,
  \* the file system
  output,       \* what output_filename holds
  temp,         \* what output_temp_filename holds
  \* main()
  format,
  pc,
  written,      \* the elements that serializer->write() was given
  exit_code,
  declined,     \* the user did not want the existing file to be replaced
  errors,       \* --validate found errors, or renaming failed
  existed,      \* history: output_filename existed at the start
  incomplete    \* history: the serializer did not complete its file, and said nothing

iteratorVars == <<total, elements, cursor, next_task, had_error, outcome, answer, client>>
disk == <<output, temp>>
mainVars == <<format, pc, written, exit_code, declined, errors, existed, incomplete>>
vars == <<iteratorVars, disk, mainVars>>

It == INSTANCE SequentialIterator

(* No file, the file of an earlier conversion, what an earlier run left as  *)
(* its temporary file, an unfinished file, the finished result of this run. *)
Content == {"none", "old", "stale", "part", "new"}

(* "mesh" are the formats whose serializer opens the temporary file and     *)
(* looks whether it is open (.obj, .glb, .ttl), "svg" those that do not     *)
(* look (.svg, .dae), "brep" those that have no file before the end (.stp,  *)
(* .igs).                                                                   *)
InPlace == {"usd", "ifc"}
Geometry == {"mesh", "svg", "brep", "usd"}

Init ==
  /\ It!Init
  /\ output \in {"none", "old"} /\ temp \in {"none", "stale"}
  /\ format \in Formats
  /\ pc = "start" /\ written = <<>>
  /\ exit_code = -1 /\ declined = FALSE /\ errors = FALSE
  /\ existed = (output = "old") /\ incomplete = FALSE

Exit(code) == pc' = "exited" /\ exit_code' = code
Go(next) == pc' = next /\ UNCHANGED exit_code

(* What main() does not change unless an action says so. *)
Kept == UNCHANGED <<format, existed, incomplete>>
------------------------------------------------------------------------------
Decline ==
  /\ pc = "start" /\ output # "none"
  /\ declined' = TRUE
  /\ Exit(0)
  /\ Kept /\ UNCHANGED <<iteratorVars, disk, written, errors>>

(* Before a file is opened: options that do not fit the format, one of them *)
(* deletes the temporary file; in the XML and IFC branches, an input that   *)
(* cannot be read or an output that cannot be opened. *)
BadOptions ==
  /\ pc = "start"
  /\ temp' \in {temp, "none"}
  /\ Exit(1)
  /\ Kept /\ UNCHANGED <<iteratorVars, output, written, declined, errors>>

(* Geometry formats: the serializer opens its file, if it can; ready() of   *)
(* the "brep" formats opens the file and deletes it.                        *)
OpenSerializer ==
  /\ pc = "start" /\ format \in Geometry
  /\ \/ format = "usd" /\ output' = "part" /\ UNCHANGED temp
     \/ format \in {"mesh", "svg"} /\ temp' \in {"part", temp} /\ UNCHANGED output
     \/ format = "brep" /\ temp' = "none" /\ UNCHANGED output
  /\ Go("opened")
  /\ Kept /\ UNCHANGED <<iteratorVars, written, declined, errors>>

(* Mutant: the temporary file is only deleted when the input is unreadable. *)
GiveUpLeaving ==
  /\ pc = "opened" \/ (pc = "initialize" /\ client = "free" /\ outcome = "false")
  /\ temp' = IF pc = "opened" THEN "none" ELSE temp
  /\ Exit(1)
  /\ Kept /\ UNCHANGED <<iteratorVars, output, written, declined, errors>>

(* The serializer is not ready, or the input cannot be read, or nothing was *)
(* converted: the temporary file is deleted. *)
GiveUp ==
  /\ pc = "opened" \/ (pc = "initialize" /\ client = "free" /\ outcome = "false")
  /\ temp' = "none"
  /\ Exit(1)
  /\ Kept /\ UNCHANGED <<iteratorVars, output, written, declined, errors>>

(* What ready() looks at. *)
Ready == format = "mesh" => temp = "part"

(* Mutant: the output file is deleted before the temporary one is complete. *)
DeleteOutputEarly ==
  /\ pc = "opened" /\ format # "usd" /\ Ready
  /\ output' = "none"
  /\ Go("initialize")
  /\ Kept /\ UNCHANGED <<iteratorVars, temp, written, declined, errors>>

InputRead ==
  /\ pc = "opened" /\ Ready
  /\ Go("initialize")
  /\ Kept /\ UNCHANGED <<iteratorVars, disk, written, declined, errors>>

Initializing ==
  /\ pc = "initialize"
  /\ It!Initialize \/ It!InitializeNoTasks \/ It!Call
  /\ UNCHANGED <<disk, mainVars>>

(* --scale is only looked at now; the temporary file stays. *)
BadScale ==
  /\ pc = "initialize" /\ client = "free" /\ outcome = "true" /\ format = "svg"
  /\ Exit(1)
  /\ Kept /\ UNCHANGED <<iteratorVars, disk, written, declined, errors>>

WriteHeader ==
  /\ pc = "initialize" /\ client = "free" /\ outcome = "true"
  /\ Go("write")
  /\ Kept /\ UNCHANGED <<iteratorVars, disk, written, declined, errors>>

(* serializer->write(context_iterator->get()), and the call of next() *)
Write ==
  /\ pc = "write"
  /\ written' = Append(written, elements[cursor])
  /\ It!NextElement \/ It!NextTask
  /\ Go("next")
  /\ Kept /\ UNCHANGED <<disk, declined, errors>>

Advancing ==
  /\ pc = "next" /\ It!Call
  /\ UNCHANGED <<disk, mainVars>>

Advanced ==
  /\ pc = "next" /\ client = "free"
  /\ Go(IF answer = "element" THEN "write" ELSE "finalize")
  /\ Kept /\ UNCHANGED <<iteratorVars, disk, written, declined, errors>>

(* Mutant: the file is renamed while the serializer still holds it open. *)
FinalizeUnclosed ==
  /\ pc = "finalize"
  /\ UNCHANGED disk
  /\ Go(IF format = "usd" THEN "report" ELSE "delete")
  /\ Kept /\ UNCHANGED <<iteratorVars, written, declined, errors>>

(* serializer->finalize() and its destructor complete the file. *)
Finalize ==
  /\ pc = "finalize"
  /\ format = "svg" => temp = "part"
  /\ IF format = "usd" THEN output' = "new" /\ UNCHANGED temp
                       ELSE temp' = "new" /\ UNCHANGED output
  /\ Go(IF format = "usd" THEN "report" ELSE "delete")
  /\ Kept /\ UNCHANGED <<iteratorVars, written, declined, errors>>

(* They do not, and main() goes on: the stream was not opened or a write to *)
(* it failed, which nothing looks at; the writer of the "brep" formats      *)
(* returned a failure, and has written nothing or a part; the XML           *)
(* serializer did not find exactly one IfcProject and has not opened a file *)
(* (XmlSerializer.cpp:542-546), or its file could not be closed.            *)
FinalizeIncomplete ==
  /\ pc = "finalize"
  /\ temp' \in {temp} \cup (IF format \in {"brep", "xml"} THEN {"part"} ELSE {})
  /\ incomplete' = TRUE
  /\ Go(IF format = "usd" THEN "report" ELSE "delete")
  /\ UNCHANGED <<iteratorVars, output, format, written, declined, errors, existed>>

(* XML: no elements; nothing is opened before finalize(). *)
StartXml ==
  /\ pc = "start" /\ format = "xml"
  /\ Go("finalize")
  /\ Kept /\ UNCHANGED <<iteratorVars, disk, written, declined, errors>>

(* An exception is caught, and the file left as it is. *)
XmlFails ==
  /\ format = "xml" /\ pc = "finalize"
  /\ temp' \in {temp, "part"}
  /\ Exit(1)
  /\ Kept /\ UNCHANGED <<iteratorVars, output, written, declined, errors>>

(* IFC: the output file itself is opened, which empties it. *)
OpenIfc ==
  /\ pc = "start" /\ format = "ifc"
  /\ output' = "part"
  /\ Go("write ifc")
  /\ Kept /\ UNCHANGED <<iteratorVars, temp, written, declined, errors>>

(* fix_quantities() may throw before anything is written; whether the file  *)
(* could be written is not looked at.                                       *)
WriteIfc ==
  /\ pc = "write ifc"
  /\ \/ output' = "new" /\ Exit(0) /\ UNCHANGED incomplete
     \/ UNCHANGED output /\ Exit(0) /\ incomplete' = TRUE
     \/ UNCHANGED <<output, incomplete>> /\ Exit(1)
  /\ UNCHANGED <<iteratorVars, temp, format, written, declined, errors, existed>>

(* rename_file(): delete_file(new_filename), whose result is not looked at; *)
DeleteOutput ==
  /\ pc = "delete"
  /\ output' \in {"none", output}
  /\ Go("rename")
  /\ Kept /\ UNCHANGED <<iteratorVars, temp, written, declined, errors>>

(* Mutant: the result of renaming is taken for granted. *)
RenameUnchecked ==
  /\ pc = "rename"
  /\ \/ temp # "none" /\ output' = temp /\ temp' = "none"
     \/ UNCHANGED disk
  /\ UNCHANGED errors
  /\ IF format = "xml" THEN Exit(0) ELSE Go("report")
  /\ Kept /\ UNCHANGED <<iteratorVars, written, declined>>

(* then std::rename(), which may fail, and does if there is no such file.   *)
(* The XML branch ignores its result. *)
Rename ==
  /\ pc = "rename"
  /\ \/ temp # "none" /\ output' = temp /\ temp' = "none" /\ UNCHANGED errors
     \/ UNCHANGED disk /\ errors' = TRUE
  /\ IF format = "xml" THEN Exit(0) ELSE Go("report")
  /\ Kept /\ UNCHANGED <<iteratorVars, written, declined>>

(* With --validate, an error that was logged makes the run a failure. *)
Report ==
  /\ pc = "report"
  /\ \/ Exit(IF errors THEN 1 ELSE 0) /\ UNCHANGED errors
     \/ Exit(1) /\ errors' = TRUE
  /\ Kept /\ UNCHANGED <<iteratorVars, disk, written, declined>>

Killed ==
  /\ pc \notin {"exited", "killed"}
  /\ Go("killed")
  /\ Kept /\ UNCHANGED <<iteratorVars, disk, written, declined, errors>>

Ended == pc \in {"exited", "killed"} /\ UNCHANGED vars

Step ==
  \/ Decline \/ BadOptions
  \/ OpenSerializer \/ GiveUp \/ InputRead \/ Initializing
  \/ BadScale \/ WriteHeader \/ Write \/ Advancing \/ Advanced \/ Finalize
  \/ FinalizeIncomplete \/ StartXml \/ XmlFails \/ OpenIfc \/ WriteIfc
  \/ DeleteOutput \/ Rename \/ Report

Next == Step \/ Killed \/ Ended

Spec == Init /\ [][Next]_vars
------------------------------------------------------------------------------
TypeOK ==
  /\ It!TypeOK
  /\ output \in Content /\ temp \in Content \ {"old"}
  /\ format \in Formats
  /\ pc \in {"start", "opened", "initialize", "write", "next", "finalize",
             "write ifc", "delete", "rename", "report", "exited", "killed"}
  /\ written \in Seq((1..NumTasks) \X (Nat \ {0}))
  /\ exit_code \in {-1, 0, 1}
  /\ declined \in BOOLEAN /\ errors \in BOOLEAN
  /\ existed \in BOOLEAN /\ incomplete \in BOOLEAN

(* Wherever the process ends, a file that existed has not been lost: it is  *)
(* still there, or the complete result is, in its place or as the temporary *)
(* file (IfcConvert.cpp:1143-1146, "Do not remove the temp file as user can *)
(* salvage the conversion result from it"). Not so for formats written in   *)
(* place, nor when finalize() returned without having completed its file:   *)
(* main() does not notice and has the old file replaced, possibly by none.  *)
(* Until finalize() has returned the old file is not touched at all.        *)
NothingIsLost ==
  existed /\ format \notin InPlace =>
    /\ output \in {"old", "new"} \/ temp = "new" \/ incomplete
    /\ pc \in {"start", "opened", "initialize", "write", "next", "finalize"} => output = "old"

(* The output file is never half written, nor what an earlier run has left, *)
(* in those formats and with that exception.                                *)
OutputIsWhole ==
  format \notin InPlace /\ ~incomplete => output \notin {"part", "stale"}

(* Success means that the output file is the complete result, with that     *)
(* exception and another: the XML branch does not look whether the file     *)
(* could be renamed. In a geometry format it holds every element the        *)
(* iterator has, in order, unless an exception ended the iteration early.   *)
SuccessMeansWritten ==
  exit_code = 0 /\ ~declined =>
    /\ output = "new" \/ incomplete \/ (format = "xml" /\ errors)
    /\ format \in Geometry =>
         /\ temp # "new"
         /\ written = elements
         /\ next_task > total \/ had_error

(* A failure leaves a temporary file of this run only if main() took it for *)
(* the result and could not replace the output file by it, or in the two    *)
(* places where the code forgets it: a bad --scale, and an exception of the *)
(* XML serializer.                                                          *)
FailureCleansUp ==
  exit_code = 1 =>
    /\ temp = "new" => errors
    /\ temp = "part" =>
         \/ incomplete /\ errors
         \/ format = "xml" \/ (format = "svg" /\ outcome = "true")
------------------------------------------------------------------------------
Untouched == output = IF existed THEN "old" ELSE "none"
Unused == temp \in {"none", "stale"}

(* Why no file is lost: what the disk holds at each place in main(). *)
DiskInv ==
  /\ pc = "start" => Unused /\ Untouched /\ ~incomplete
  /\ pc \in {"opened", "initialize", "write", "next", "finalize"} =>
       /\ ~incomplete
       /\ \/ format = "usd" /\ Unused
          \/ format # "usd" /\ temp # "new" /\ Untouched
  /\ pc \in {"opened", "initialize", "write", "next"} => format \in Geometry
  /\ pc = "finalize" => format \in Geometry \cup {"xml"}
  /\ pc = "write ifc" => format = "ifc" /\ Unused /\ ~incomplete
  /\ pc = "delete" => format \notin InPlace /\ Untouched /\ (temp = "new" \/ incomplete)
  /\ pc = "rename" =>
       format \notin InPlace /\ output \in {"none", "old"} /\ (temp = "new" \/ incomplete)
  /\ pc = "report" =>
       /\ format \in Geometry
       /\ \/ format = "usd" /\ Unused /\ (output = "new" \/ incomplete)
          \/ format # "usd" /\ temp = "none" /\ (output = "new" \/ incomplete)
          \/ format # "usd" /\ errors /\ incomplete
          \/ format # "usd" /\ errors /\ temp = "new" /\ output \in {"none", "old"}
  /\ incomplete => temp # "new"

WrittenUpTo(k) == Len(written) = k /\ \A n \in 1..k : written[n] = elements[n]

Finished == written = elements /\ (next_task > total \/ had_error)

(* Why nothing is missing in the output: what was written when the iterator *)
(* is where it is. *)
WrittenInv ==
  /\ pc \in {"start", "opened"} =>
       written = <<>> /\ outcome = "unset" /\ client = "free"
  /\ pc = "initialize" =>
       written = <<>> /\ (outcome = "true" => client = "free" /\ cursor = 1)
  /\ pc = "write" => outcome = "true" /\ client = "free" /\ WrittenUpTo(cursor - 1)
  /\ pc = "next" =>
       /\ outcome = "true" /\ client \in {"free", "create", "created"}
       /\ WrittenUpTo(IF client = "free" /\ answer = "element" THEN cursor - 1 ELSE cursor)
  /\ pc \in {"finalize", "delete", "rename", "report"} /\ format \in Geometry => Finished
  /\ pc # "exited" => exit_code = -1 /\ ~declined

(* The inductive invariant *)
IInv ==
  /\ TypeOK /\ It!IInv
  /\ DiskInv /\ WrittenInv
  /\ NothingIsLost /\ OutputIsWhole
  /\ SuccessMeansWritten /\ FailureCleansUp
==============================================================================
