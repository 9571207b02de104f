# A verification of IfcOpenShell's core (TLA+, TLC, TLAPS)

The repository is a copy of IfcOpenShell (`src/IFC/src`) with libraries around it. This project models the parts of its C++
code whose correctness depends on the order of events or on combinations of cases that are hard to test: threads, calls in any
sequence, exceptions in the middle of an operation, processes that are killed, malformed input, shared data. It leaves numerical
geometry, file formats of third parties and generated schema code aside.

| part | module | runs | proofs |
|---|---|---|---|
| what an iterator promises | `ElementStream` (abstract) | by refinement | by refinement |
| geometry iterator, several threads | `ConcurrentIterator` | `concurrent`, `concurrent_null` | `ConcurrentIterator_proofs` |
| geometry iterator, one thread | `SequentialIterator` | `sequential` | `SequentialIterator_proofs` |
| geometry server (drives the sequential iterator) | `GeomServer` | `server` | `GeomServer_proofs` |
| IfcConvert (drives the sequential iterator) | `ConvertTool` | `convert` | `ConvertTool_proofs` |
| planning and sharing of geometry | `GeometryTasks` | `tasks`, `tasks_filter` | `GeometryTasks_proofs` |
| what the maps of a file say of its instances | `FileMaps` | with the next two | with the next two |
| instance store | `InstanceStore` | `store`, `store_unset` | `InstanceStore_proofs` |
| STEP file loader (ends with maps as the store keeps them) | `SpfLoader` | `load` | `SpfLoader_proofs` |
| character decoder | `CharacterDecoder` | `decoder`, `decoder_arabic` | `CharacterDecoder_proofs` |

`MC*.tla` and `MC*.cfg` instantiate the modules for TLC. `PROJECT.json` lists components, runs, mutants, the lines that each
definition models, findings, hazards and theorems. Paths below are relative to `src/IFC/src`.

## 1. The system

### Components

| component | code | state | operations | modelled |
|---|---|---|---|---|
| Geometry iterator | `ifcgeom/Iterator.h` | tasks, lists of elements, two cursors, `finished_`, `terminating_`, a pool of kernels, futures | `initialize()`, `next()`, `get()`, destructor; a pool thread and workers behind them | partly |
| Instance store | `ifcparse/IfcFile.h`, `IfcParse.cpp` | maps by name, type, GlobalId and reference; `MaxId`; a batch of deletions; copies of foreign instances | `addEntity()`, `removeEntity()`, `batch()`/`unbatch()`, setters, `recalculate_id_counter()` | partly |
| STEP file loader | `ifcparse/IfcParse.cpp`, `IfcFile.cpp` | a window of three tokens, nested calls of `load()`, references to resolve | the constructor of `IfcFile` | partly |
| Character decoder | `ifcparse/IfcCharacterDecoder.*` | flags for what is expected next, the alphabet, a hexadecimal number | decode one string; encode one string | partly |
| Geometry server | `ifcgeomserver/IfcGeomServer.cpp` | a file, an iterator, `has_more`, `deflection` | a loop over commands on standard input | partly |
| Command line tools | `ifcconvert/*` | the output file and its temporary file | IfcConvert: convert one file | partly |
| Mapping to taxonomy | `ifcgeom/mapping/*` | tasks; maps that may not be reused, maps that others rely on | `get_representations()`; one numerical function per IFC type | partly (the planning) |
| Geometry conversion | `ifcgeom/Converter.*`, `AbstractKernel.*` | caches private to a kernel | element from a representation and a product | partly (what is decided, not shapes) |
| Serializers, element cache | `serializers/*` | output files | write an element, finalize; the HDF5 cache is commented out | no (what they leave on the disk is in `ConvertTool`) |
| File header, attribute storage, schema registry | `ifcparse/IfcSpfHeader.*`, `variantarray.h`, `IfcSchema.*`, generated `Ifc*.cpp` | fixed records, type-tagged memory, static tables | reading and writing | no |
| Logger | `ifcparse/IfcLogger.*` | streams, verbosity, current product | `Message()`, `SetProduct()` | no |
| GlobalId | `ifcparse/IfcGlobalId.*` | none | compress, expand | no |
| Construction helpers | `ifcparse/IfcHierarchyHelper.*`, ... | clients of the store | sequences of `addEntity()` | no |
| ifcXML reader | `ifcparse/parse_ifcxml.cpp` | - | disabled: throws before it reads anything | no |
| Bindings, viewer | `ifcwrap`, `ifcjni`, ... | none of their own | calls into the above | no |

### How they interact

The constructor of `IfcFile` runs the loader, which fills the maps (decoding strings on the way); from then on the instance store's
operations keep them. The iterator asks the mapping which products are converted with which representation, creates one kernel
per thread, and hands elements to its client: IfcConvert, the bindings, or the geometry server. The loader, the store, the
mapping and both tools run in the thread of their caller. Only the iterator has threads of its own, and they share the members of
`Iterator` directly: `element_ready_mutex_` protects appending to the lists and reading their size, everything else is unprotected
or atomic.

In the models: `GeomServer` and `ConvertTool` contain the variables of one `SequentialIterator` and take its actions, through
`It == INSTANCE SequentialIterator`; both iterators implement `ElementStream`. What makes the maps of a file right is stated once, in `FileMaps`:
`InstanceStore` extends it and keeps it true, and `SpfLoader` states with it, through an INSTANCE that maps its variables, what the store starts from.

### What is hard

- *Iterator*: the pool thread permutes two vectors in step; the client advances list iterators without the mutex and reads `finished_`
  after releasing it; the destructor may come at any moment after a call has returned; a worker may throw half way.
- *Store*: five maps describe the same instances; `addEntity()` recurses while it holds a name it has checked; a deletion can
  be left by an exception with the maps half updated and the batch not cleared; names are given back and reused.
- *Loader*: two readers (the window and `load()`) share one lexer and must stay in step whatever is in the file; state of a
  previous statement (`instance`, `current_id`, `attribute_index`) is used for the next one; references are resolved by name afterwards.
- *Server*: null means "no more" as well as "failed"; commands may come in any order, and the pointers they use may be null or stale.
- *IfcConvert*: it replaces a user's file by deleting and renaming; it can die at any step; the serializer finishes its file in a destructor,
  and no serializer reports that it did not finish it.
- *Planning*: a representation is shared between products by being used again, directly or as a mapped item; whether it is converted on its own or
  with the one it maps is decided in one pass, in the order of the file, with information that is filtered in one place and not in another.
- *Decoder*: a state made of overlapping flags, tested by branches in sequence.

### What makes each component correct

- *Iterator*: no two running workers on one kernel; every element of every task delivered, once, grouped by task and in product
  order; the end announced only after the last element; calls return; nothing is freed that a thread still uses.
- *Store*: no map hands out freed memory; names are unique; inverses are exactly those the attributes imply; a
  removal leaves no reference to the removed instance and, once it is over, nothing pending.
- *Loader*: every known statement becomes the instance it says; a sound file gives maps the store's invariants hold of; the
  parser ends on every file.
- *Server*: a client that follows the protocol gets every element, never makes it crash, and is always answered.
- *IfcConvert*: whatever is thrown, killed or refused, no existing file is lost without its replacement being complete, and success means the
  output is whole, provided the serializer completes what it returns from.
- *Planning and conversion*: every product is in a task, none in two; geometry is only shared by products that look the same; each
  placement is applied once.
- *Decoder*: it inverts every encoding of the format and consumes exactly the string; it rejects only mistakes and, asked for the value,
  characters that an alphabet lacks.

The hazards of the code, at their lines, with the properties that watch them, are in `PROJECT.json`.

## 2. Plan

Done, in this order: `ElementStream` (abstract) → `ConcurrentIterator` (implements it) → its proofs → `SequentialIterator` (implements it
too) → `InstanceStore` → `SpfLoader` → `GeomServer` and `ConvertTool` (compose `SequentialIterator`) → `GeometryTasks` → `CharacterDecoder` →
proofs of all of them.

What is left, most useful first:

1. `ConvertTool` over `ConcurrentIterator`: the properties use only what `ElementStream` promises and what an exception does to the
   sequential mode, so the interesting part is the second.
2. References in cycles: `addEntity()` recurses for ever on them, as the code does; `InstanceStore` rules them out with `Rank`.
3. `GlobalId`: a bounded check of compress against expand; it is arithmetic, with no state.

## 3. The geometry iterator

### ConcurrentIterator (`num_threads_ != 1`)

`total`, `elements`, `cursor`, `processed_`, `finished_`, `terminating_` and `had_error` are the members of `Iterator`; an element is the pair
of a task (a representation) and a product, and stands for the `Element` and the `BRepElement` that are appended together. Three kinds of threads act:

- the pool thread (`pool`, `rep`, `kernel_pool`, `threadpool`, `K`, `i`) runs `process_concurrently()`, one action per step between
  two points at which another thread can be observed: choose a kernel, look at one future (`PoolPollBusy`, `PoolCollect`), start a worker,
  keep its future or leave the loop, drain. `threadpool` and `kernel_pool` are sequences, swapped and popped as the vectors are;
- one worker per task (`worker`, `kernel`, `at`, `out`) runs `create_element_()`: mapping, the first product, the others. Any step may yield
  nothing or throw; what was produced before stays in `rep->elements`;
- the client calls `initialize()`, `next()` as long as it likes (also after "no more"), and the destructor at any moment between calls.
  `wait_for_element()` is three steps: read the size under the mutex, compare, read `finished_`. `next()` advances the cursor in a step of its own.

A worker that throws leaves with `had_error`. In the code its handlers (`ifcgeom/Iterator.h:355-367`) write what went wrong through `rep->item`, which is
null as long as the mapping (line 527) has not returned one: a throw of the mapping itself is undefined behaviour there, of which the model takes the outcome of a
handler that can be executed. `process_finished_rep()` is one critical section and one step. A negative number of threads becomes a huge `size_t` and behaves as "as many as tasks".

### SequentialIterator (`num_threads_ = 1`)

`create()` runs inside the call: one step per task, so that its loop over tasks without elements is visible. An exception makes `create()` return
`nullptr`, the answer "failed"; for the client it is the same pointer as "no more".

### ElementStream

What both promise: groups of elements are appended at most once per task and in product order, a reader takes them one
by one, and "ended" is only said of a closed stream. `ImplementsStream` maps `elements`, `finished_` (or the exhausted task list) and the count
of elements returned to it. Workers, futures and kernels are internal.

### Runs

- `concurrent`: 4 tasks (one shared by two products), 3 threads. The pool is full with one task still to come, so kernels are handed over
  from any position of the pool; a task may fail, be empty or have two elements. Every interleaving with the client, which may
  destroy the iterator at any time; and, with fairness, every call of `initialize()`, `next()` and the destructor returns.
- `sequential`: 4 tasks, products 3,1,3,1, each of which may yield nothing or throw.
- `concurrent_null`: see findings.

*Fairness* (`FairSpec`). The operating system schedules the pool thread, each worker and the client inside a call (`WF` of each); conversions by the
geometry kernel are assumed to return. The client's own decisions (to call `next()` or the destructor) have no fairness.

## 4. The geometry server and IfcConvert

### GeomServer

The variables of `main()` (`iterator`, `has_more`, `deflection`) and a program counter: waiting for a command, inside `IFC_MODEL` (`"initialize"`) or
`NEXT` (`"next"`), ended, crashed. A command is an action; while the server is inside a call, the actions of the iterator run. `GET` before
`IFC_MODEL` and the commands that are refused with a model loaded exit with 1, as in the code; using a null pointer is the state `"crashed"`.
The client sends any command at any time; history variables say what it was told (`told`), what was announced (`offered`), and
whether it broke the protocol (`careless`). The end of the input is not modelled: the code reads an uninitialised integer then.

Run `server`: two models of up to three representations with 3, 1 and 3 products, two deflections. A second model is enough for what a
stale pointer can do; three representations allow one without elements, or one that throws, at either end and in the middle.
*Fairness*: `WF_vars(Running)`: a call that was made goes on. The client owes nothing.

### ConvertTool

`main()` from the question whether to overwrite to the exit code, as places between which the disk changes: `start`, `opened`,
`initialize`/`write`/`next`, `finalize`, `delete`, `rename`, `report`. `output` and `temp` hold no file, the file of an earlier conversion, what an earlier run
left as its temporary file (`stale`), a part, or the complete new file. Formats are the classes that the code treats alike: `mesh` (`.obj`, `.glb`, `.ttl`: `ready()` looks whether
the temporary file is open), `svg` (`.svg`, `.dae`: it does not look; `--scale` is checked late), `brep` (`.stp`, `.igs`: `ready()` creates and
deletes the file, which is written at the end), `usd` and `ifc` (in place), `xml` (no iterator, one file at the end). `Killed` may take any place.
`rename_file()` is two steps, delete and rename, because a termination in between is what it must survive.

No serializer says whether it completed its file: `XmlSerializer::finalize()` returns without one when the number of IfcProject is not one
(`serializers/schema_dependent/XmlSerializer.cpp:542`), the status of `Write()` is ignored for STEP and IGES (`serializers/StepSerializer.h:51`), and the streams of the
others are not looked at. `Finalize` is the outcome in which the file is complete, `FinalizeIncomplete` the one in which it is not, and `main()` goes on in
the same way: it deletes the old file and renames whatever is there, or nothing. The history variable `incomplete` records which of the two it was, and
`NothingIsLost`, `OutputIsWhole` and `SuccessMeansWritten` except that outcome by this name, since the code does not prevent it: the old file is then lost, and the exit code may be 0.
They say that there is no other way: not through any exception, termination, refused renaming, early exit or command line, nor before `finalize()` has returned.

Run `convert`: the same three representations, every format, with and without an existing file or a stale temporary one.

## 5. Planning and sharing of geometry

`GeometryTasks` has two phases. Each turn of the loop in `get_representations()` is one of `SkipEmpty`, `LeaveToUsers`, `LeaveToMapped`, `MakeTasks`,
with the two caches the loop keeps (`not_reusable_maps_`, `ok_mapped_representations`). Then each task is converted, in any order:
`Convert` gives the first product a geometry made with its openings, layers and material, and the others the same geometry with their own
placement; subtracting openings may throw, with two outcomes. A use `<<p, r>>` is a product with the representation it has itself.
What a file says (which representation is shown by which products, which map it uses) and the settings are `Inputs`.

- `tasks`: every file of two products and three representations - `m`, and `q1`, `q2` that may map it - in the orders that matter, with all combinations of openings,
  layers, materials, settings and filters that `MCGeometryTasks` lists. Sharing concerns two products and one map at a time; the second user of a map is what makes the first
  decision matter.
- `tasks_filter`: see findings.

`NothingLeftOut` is stated for files that are `Orderly`: mapped representations are in the selected contexts, not shown
directly as well, and not themselves mapped. Outside of these the model loses products, see section 9.

## 6. The instance store

`InstanceStore` keeps, as `IfcFile` does, the instances and the maps that `FileMaps` declares: `byid_`, `byref_excl_` (as the number of entries per target, attribute and source),
`bytype_excl_`, `byguid_` and `entity_file_map_`; and `MaxId` and the batch. Each instance has an owner (`file`), a name, a GlobalId and, per
attribute, the set of instances it refers to. `addEntity()` is a stack of calls (`adding`) because it recurses; `process_deletion_()` is a loop
with an index (`deleting`) because `instance_by_id()` may throw in the middle and leave it. The client calls only when neither is in progress.

The client is chosen at the start from `Clients`. One with `calls = {}` is careful (unique GlobalIds, explicit names for instances without
references only; in a batch, no instance is removed after one that refers to it); each member of `calls` adds one use of the API.

Abstractions: one schema; an attribute is a list of instances, taken as a set, so it lists an instance once (a single reference behaves like a list of
one, but loses its inverse earlier in a batch that removes what it refers to); instances refer to instances of a
lower `Rank`, so there are no cycles of references; an instance joins the file only with referees that have joined or join with it. A copy of a foreign
instance is an `"unborn"` object of the same rank (`SparesSuffice` bounds the copies); `IdBound` bounds names, `MaxListed` the stale
inverses.

- `store`: two clients. `Careless` has two instances and one of another file, unsets attributes, removes in any order in a batch and shares GlobalIds:
  deletions are left half done, and still no map may find a freed instance (`MapsAreLive`) and no name may be given twice. `Diligent` has one instance and two of another
  file, one referring to the other, that can each be copied twice; then the maps agree exactly with the attributes (`InversesExact`, `NoDangling`,
  `GuidIsFound`) and no removal stays pending (`RemovalsComplete`).
- `store_unset`: see findings.

Two ranks suffice for every rule of the code that concerns references, which are all about an instance and those that refer to it directly;
four names let one be freed, recalculated away and given again.

## 7. The STEP file loader

`SpfLoader` reads a file token by token. `Lex` hands out the next token of the current statement or starts another of `Statements`, or the
trailer; the end of the stream shows with the last token or one later, as it does with or without a final newline, and may come after any token: the file
is cut. `initialize_()` is the loop over `token_stream`; when it shows the start of an entity, `load()` takes over and is a stack of `frames`
(lists and typed values), each returning to the one below. An invalid token is an exception: it unwinds to the innermost call for a typed value,
which catches it, or to the loop. At the end of an instance, `Size` and `Unresolved` are what `parse_context::construct()` makes of the
items; `ResolveReference` is the loop over `references_to_resolve`.

Left out: characters (a file cut inside a string, where `skip()` reads past the end of the buffer, is not a cut after a token: `ifcparse/IfcCharacterDecoder.cpp:263`), numbers, comments, the header section, the choice of the schema, streaming of instances without a file.

Each statement is cut into parts (its beginning, one per argument, its end); `part` and `input` are what `Lex` has left of it.

Run `load`: all files of up to three of twelve statements: sound ones (with a list, a typed value, forward and cyclic references), unknown
keywords, an unknown type, names and GlobalIds given twice, too few and too many attributes, an abstract entity, invalid tokens at the top
level and in a typed value; cut after any token. Three statements are enough for one that is malformed between two
others, which is what staying in step is about: all state that survives a statement is in the window, `instance`, `current_id`,
`attribute_index` and `paren_stack_depth`. `SoundIsLoaded` says that a sound file yields the instances it describes, and that the
maps then agree with them as `FileMaps` has it, which is what the invariants of `InstanceStore` say of a careful client. For this the inverses of the
loader, which it counts per type of the referring instance, are those under the type of the instance that the referring name leads to; that none is
registered under any other type is stated separately. `Terminates` is liveness under *fairness* `WF_vars(Next)`: a sequential program that can go on does.

## 8. The character decoder

`CharacterDecoder` has the flags of the code (`parse_state`, `codepage`, the hexadecimal digits) and reads one character of the file per step. What the
file contains is written by another part of the model, one piece at a time: a character and one of the forms that the format allows for it
(itself, `\S\`, `\X\`, `\X2\`, `\X4\`, doubled, after the choice of an alphabet), either by the encoder of this code or by any other application. Strings have no
bounded length: the state after a piece does not depend on the pieces before it but for what the code keeps. `reader` says which of the two
functions reads the string: `get()` converts characters of an alphabet, `skip()` only goes over them. The tables of ISO 8859-3, -6, -7 and -8 are partial: `UndefinedCodes` has their
holes, at which `get()` throws "Character not defined" (`UndefinedCharacter`). The characters that the tables do have are numbers of the model's own.

- `decoder`: fourteen characters that represent each class and boundary the code distinguishes. `Decodes`: after each piece the result is
  the character that was meant. `EndsAtTheQuote`: the string ends where the writer ended it, for both readers, and is rejected only for a mistake or, by `get()`, for a character
  that the alphabet lacks, which `get()` never passes. The page characters include two that ISO 8859-8 lacks and ISO 8859-1 has.
- `decoder_arabic`: see findings.

`CodePointsAssumption` says that the characters are Unicode's: positive and below 1114112, so that eight hexadecimal digits begin with two zeros.

## 9. Findings

| run | code | what happens |
|---|---|---|
| `concurrent_null` | `ifcgeom/Iterator.h:625` | the size is read, the mutex released, the last element stored and `finished_` set; then `finished_` is read: `next()` answers "no more" with elements left |
| `store_unset` | `ifcparse/IfcParse.cpp:2339` | `unset_attribute_value()` keeps the inverse; once the instance is gone, removing the instance it had referred to throws, and so does every later removal |
| `tasks_filter` | `ifcgeom/mapping/mapping.cpp:264` | with a filter, a product may be converted both with the mapped representation and with its own: one decision uses the filtered products, the other does not |
| `decoder_arabic` | `ifcparse/IfcCharacterDecoder.cpp:168` | `\PF\` (ISO 8859-6) is taken for the directive `\F\`, and the characters after it are read from the wrong alphabet |

Further observations, which no text of the repository contradicts or which are outside the bounds of a run:

- with `num_threads_ = 0` the pool counts as full with nothing in it, and `initialize()` never returns (`ifcgeom/Iterator.h:330`);
  `hardware_concurrency()`, which IfcConvert falls back to, may return 0;
- in the sequential mode an exception for one representation ends the iteration (`ifcgeom/Iterator.h:812`, although line 49 promises true iff there is
  a next entity); IfcConvert then exits with success and an incomplete file, which `SuccessMeansWritten` excepts;
- a batch that removes an instance before one it refers to throws in `unbatch()` and cannot be completed (`ifcparse/IfcParse.cpp:1844`);
- `addEntity(e, id)` adds what `e` refers to first, under fresh names, one of which may be `id` (`ifcparse/IfcParse.cpp:1786`);
- the arguments of an unknown statement are registered as inverses of a name that no instance has (`ifcparse/IfcParse.cpp:1366`);
- instances that share a GlobalId: removing one erases the entry of the other from `byguid_` (`ifcparse/IfcParse.cpp:1942`);
- an inverse of a value that is in no file yet is registered under the name 0 and stays there (`ifcparse/IfcParse.cpp:772`; the code has a @todo);
- a name given twice: the first instance stays in `bytype_excl_`, and its references are set in the second one, or throw out of the
  constructor when that one is shorter; the keyword of an abstract entity throws out of the constructor too;
- a reference to a name that is missing stays in the inverses, and shows when `FreshId()` gives that name to a new instance;
- maps of maps: with `q2` mapping `m` and `m` mapping `q1`, met in the order `q2, m, q1`, a product shown by `q2` gets no task (`ifcgeom/mapping/mapping.cpp:264`);
- `reuse_ok_()` ignores materials of types, which the conversion falls back to (`ifcgeom/mapping/mapping.cpp:157` against `ifcgeom/Converter.cpp:110`);
- an exception that is not a `std::exception` while openings are subtracted lets the shapes be replaced by nothing (`ifcgeom/Converter.cpp:203`);
- in the workers, a throw of the mapping finds `rep->item` null in the handlers (`ifcgeom/Iterator.h:355`);
- `get()` throws for a string with a character that the table of its alphabet lacks (`ifcparse/IfcCharacterDecoder.cpp:411`), which `skip()` and so the loader accept;
- a raw 8-bit character next to an escape is decoded with the alphabet of the escape (`ifcparse/IfcCharacterDecoder.cpp:139`);
- when the number of IfcProject is not one, IfcConvert to XML deletes the existing output file, puts nothing in its place and exits with success
  (`serializers/schema_dependent/XmlSerializer.cpp:542`, `ifcconvert/IfcConvert.cpp:607`);
- whether a serializer could write is never checked (`serializers/StepSerializer.h:51`, and the streams of the others): a part of a file, or the temporary file that an
  earlier run has left, may replace the output file, with success;
- MTL, IFC and USD files are written in place (`ifcconvert/IfcConvert.cpp:807`, `:621`); the XML branch ignores that renaming failed
  (`:607`); a bad `--scale` leaves the temporary file (`:1002`);
- at the end of its input the server executes an uninitialised integer (`ifcgeomserver/IfcGeomServer.cpp:578`).

## 10. What is proved

For every value of the constants, from the named assumptions of the modules only:

| module | theorems |
|---|---|
| `ConcurrentIterator_proofs` | `TypeCorrect`, `KernelsAreExclusive`, `CursorIsObserved`, `FreedIsQuiet`, `EverythingIsDelivered`, `ProgressIsExact`, `IteratorImplementsStream` |
| `SequentialIterator_proofs` | `TypeCorrect`, `GetAlwaysValid`, `FalseHidesNothing`, `IteratorImplementsStream` |
| `GeomServer_proofs` | `TypeCorrect`, `ObedientSafe`, `ElementsOffered`, `LeaksAreEmpty`, `DeflectionCurrent` |
| `ConvertTool_proofs` | `TypeCorrect`, `NothingLost`, `OutputWhole`, `SuccessWritten`, `FailureCleans` |
| `GeometryTasks_proofs` | `TypeCorrect`, `SharingFits`, `PlacementOnce`, `NoProductLeftOut`, `NothingTwice` |
| `InstanceStore_proofs` | `TypeCorrect`, `NamesUnique`, `MapsLive`; for careful clients `InversesAreExact`, `NothingDangles`, `RemovalsAreCompleted`, `GuidsAreFound` |
| `SpfLoader_proofs` | `Invariance`, `TypeCorrect`, `StaysInStep`, `ReferencesListed`, `NamesLead`, `SoundInvariance`, `SoundFilesAreLoaded` |
| `CharacterDecoder_proofs` | `Invariance`, `TypeCorrect`, `EndsAtQuote`, `Decoding` |

Each proof goes by an inductive invariant `IInv`, defined at the end of the component's module or, for `SpfLoader`, at the head of its proofs, which TLC was
given as an invariant before it was proved. `Init => IInv` and, per conjunct, `IInv /\ [Next]_vars => conjunct'`, with one step per action.

- *ConcurrentIterator*: `PoolInv` (the n-th future works with the n-th kernel; kernels are listed
  once; a running worker is behind a future or was launched by the current iteration; the kernel for the next task is the first that no future uses),
  `CursorInv` (what the client counted and saw lags behind the list; the cursor lags one step behind the count), `DrainInv` (futures before the drain
  index are done; the client is past the join only when the pool thread has ended), `StreamInv` (elements in the list come from tasks
  whose future is gone or drained, and `rep->elements` only grows at its end), `DeliveryInv` (a task is not launched yet, or a future still to be
  looked at is for it, or its elements are all in the list; only a destructor stops the loop over the tasks before its end). Lemmas state what `SwapPop`/`SwapBack` do to futures and
  kernels in step, and what storing a result publishes.
- *SequentialIterator*: `CallInv` says where the cursor is while `create()` skips tasks without elements, and `FalseMeansNothing` why "false" means that there was nothing.
- *GeomServer*, *ConvertTool*: the iterator's invariant is part of theirs, and the iterator's lemmas (`IteratorFacts`, `CallEffect`, `ElementsGrow`)
  are cited through `ItProofs == INSTANCE SequentialIterator_proofs`. `OfferedInv` and `WrittenInv` relate what the client of the iterator has taken to the cursor, `ModelInv`
  the pointers to the models, `DiskInv` the place in `main()` to the files: from `delete` on
  the temporary file is complete or `incomplete` is set, which is the exception that the theorems state.
- *GeometryTasks*: `ShareInv` (a task has one use, or uses that may share), `PlanInv` (a representation to which others were left stays fit for
  reuse until its turn, and then covers them), `OnceInv` (a task has foreign uses only if these were left to it).
- *InstanceStore*: `AddingInv` (what the calls of `addEntity()` in progress have seen, and that only the outermost asked for a name), `LiveInv` (an object that is to become a copy
  is in no map or attribute), `NamesInv` (`MaxId` is at least every name in use; a name that was asked for is still free when it is used), `GuidInv` (an entry by GlobalId is for an
  instance that has it). `NamesUnique` and `MapsLive` are about clients that do not give an explicit name to a graph.
- *InstanceStore* for careful clients, with `CarefulInv` on top of `IInv`. `QueueInv` orders a batch (what refers to another scheduled
  instance is deleted after it), from which no deletion throws (`NeverThrows`). `InversesExact` is about a file at rest; in the middle of a batch entries are `Stale`
  (on what was deleted, or by it on what stays) until the end of the loop, and `InversesInv` says that all others are exact. That is also why setting an
  attribute to its own, already shortened list changes nothing (`RewiredFacts`). `RefsInv` allows a reference to a deleted instance only from one that
  waits in the same batch. `CopiesInv` (an instance has one copy, of its rank; calls of `addEntity()` go down the ranks) keeps `GuidsInv`:
  only an instance of another file and its copy share a GlobalId.
- *CharacterDecoder*: `DecoderInv` says for each kind of piece how far the decoder is: which sum of flags goes with which rest of the piece, what the digits
  read so far give (`Before`), and which characters are still missing from the result. It is needed because `parse_state` is one number that the branches
  test bit by bit: the proof first computes that number, and the branch it leads to, for every place in every piece (`Branch...`), then what `Take` makes of it. The
  digits are the hard part: `hex` is exactly the number that the digits before the rest stand for, so it stays below 16^7 with seven digits read, whether the
  encoder or another application wrote them, and `\X4\` yields the character that was written. `Decoding` assumes `6 \notin Pages`, which is the finding of
  `decoder_arabic`, and so does `EndsAtQuote`; `TypeCorrect` holds of every alphabet. `NoCharacterInv` says that a character the
  alphabet lacks stays in front of `get()`: the decoder has the same alphabet in mind as the writer, so it is this character that it looks up.

- *SpfLoader*: `FileInv` says where the lexer is: in the beginning of a statement, where `=` is still to come, or in what follows, where it cannot
  be. `WindowInv` says which tokens the window then shows, so that `=` in its middle, after a name, always is that of a statement and never an accident
  of malformed arguments. `LoadInv` puts the calls of `load()` on the part of the statement they read: with an argument begun there is one item less
  than arguments, and the inner call sees what `Closing` describes, a list that its own `)` ends, so that `load()` can neither return early nor read on into the next
  statement. `CountInv` follows: a known statement is `Pending` from its first token to its instance, and the instances are the statements before it, in
  order. The proof first computes the tokens of every argument (`ArgumentForm`), then what each action finds at the head of them (`OuterLex`, `InnerLex`), then
  one lemma per action and conjunct. `ReferencesInv` needs that an item's place in the list is the position that was registered with it
  (`AttributeOfCall`), and that, while names are unique, `byid_` still leads to the instance that a reference to resolve was read in: a second instance with the
  name would take its place, which is why `ReferencesAreListed` is about unique names.
- *SpfLoader* for files without a flaw, with `SoundInv` on top of `IInv`: as long as what was read promises such a file (`Promising`), all of it is loaded
  (`LoadedSoFar`). A file may still turn out to have a flaw, so the hypothesis is about the statements begun so far, and a step that begins another one or meets
  the end of the stream is only followed while the promise still holds. `PlaceInv` and `WindowNames` say that outside a statement the window shows nothing but what is
  between two, so that no name passes through it that would be registered as a reference. `ArgumentsInv` says what `load()` has
  made of the arguments: complete items are those of the statement (`ItemOf`), and in a list the items and the tokens that are left together are the list
  (`InList`). `EnteredInv` says that the n-th instance is the n-th statement, and where the maps lead. `InversesInv` and `OutstandingInv` follow a reference
  from its token to the attribute: it is registered once, when `load()` comes to it; it is then in an item, in `references_to_resolve`, and at last
  in the attribute. That it is registered *once* needs more than that it is registered, which is all `ReferencesListed` says: a token must not be
  registered by two readers, nor two statements have the same name. `FinallyLoaded` takes this to the end of the run, and `LoadedMaps`, `LoadedNames`, `LoadedGuids`,
  `LoadedReferences` and `LoadedInverses` to the maps.

Every safety property that a run checks is the statement of a theorem, but for those that the code violates (section 9). Only model-checked:

- everything about liveness (`Terminates`, `CallReturns`, `DestroyReturns`, `EveryCallIsAnswered`): fairness and ENABLED are out of the prover's reach;
- what the mutants are about: that each property fails when the code is changed in the way it guards against.

## 11. How to run

    tlc -config MCConcurrentIterator.cfg MCConcurrentIterator      # and the other MC*.cfg likewise
    tlapm ConcurrentIterator_proofs.tla                            # and the other *_proofs.tla

The configurations `...Null`, `...Unset`, `...Filter` and `...Arabic` end with a counterexample; all others end without an error.
Operators introduced by a comment "Mutant:" are not part of the specifications: each is a plausible mistake in the definition that follows it, and
substituting it makes TLC report the property that `PROJECT.json` pairs it with.

## 12. Not modelled, and why

- Generated schema code (`ifcparse/Ifc2x3*`, `Ifc4*`: tables and accessors, most of the lines of the repository), the vendored copies of the whole
  project under `ifcconvert/cityjson/IfcOpenShell`, and the libraries around IfcOpenShell: no control flow of the program's own.
- Geometry kernels and the mapping of each IFC type: numerical code; a call that yields elements, nothing or an exception for us.
- Serializers: formats defined elsewhere; that they may leave no file or a part of one is in `ConvertTool`. `HdfSerializer`, the element cache, is commented out from its first line to its last.
- ifcXML: disabled in this version.
- Logger: `Message()` is one critical section; what races there is wording. GlobalId: arithmetic without state.
- File header, attribute storage, schema tables, language bindings, viewer: static tables, memory layout, forwarding.
- IfcConvert with several threads, and its option parsing; `addEntities()`, traversal and typed values of the store.
