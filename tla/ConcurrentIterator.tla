-------------------------- MODULE ConcurrentIterator --------------------------
(***************************************************************************)
(* IfcGeom::Iterator with num_threads_ # 1 (src/IFC/src/ifcgeom/Iterator.h)*)
(*                                                                         *)
(* Three kinds of threads share one Iterator object:                       *)
(*   - the client, which calls initialize(), next() and the destructor;    *)
(*   - the pool thread, which runs process_concurrently();                 *)
(*   - one worker per task, which runs create_element_() with a geometry   *)
(*     kernel of its own and leaves its result in a future.                *)
(*                                                                         *)
(* Geometry is abstracted away: an element is the pair <<task, product>>,  *)
(* and stands for the Element and the BRepElement appended together to     *)
(* all_processed_elements_ and all_processed_native_elements_. Mapping or  *)
(* converting a product succeeds, yields nothing or throws, at random.     *)
(***************************************************************************)
EXTENDS Integers, Sequences, FiniteSets

CONSTANTS
  NumTasks,     \* bound: the largest number of representations found
  NumThreads,   \* num_threads_, as given to the constructor
  Products      \* Products[t]: how many products share representation t

Tasks == 1..NumTasks

ASSUME TasksAssumption == NumTasks \in Nat
ASSUME ThreadsAssumption == NumThreads \in Int \ {1}
ASSUME ProductsAssumption == Products \in [Tasks -> Nat \ {0}]

Kernels == Nat \ {0}
NoKernel == 0
Elements == Tasks \X Nat

VARIABLES
  total,        \* tasks_.size(), the number of representations found
  \* shared between threads
  elements,     \* all_processed_elements_
  cursor,       \* task_result_iterator_, as a position; 0: not initialised
  processed_,   \* tasks that yielded elements; progress_ is derived from it
  finished_, terminating_, had_error,
  \* the pool thread
  pool,         \* where process_concurrently() is
  rep,          \* the task its loop has reached
  kernel_pool,  \* the kernels, in the order of the vector
  threadpool,   \* the tasks whose futures it holds, in the order of the vector
  K,            \* the kernel the next task will get
  i,            \* index into threadpool of the future looked at
  \* the workers
  worker,       \* worker[t]: where create_element_() is for task t
  kernel,       \* kernel[t]: the kernel it was given
  at,           \* at[t]: the product it will convert next
  out,          \* out[t]: rep->elements
  \* the client
  client,       \* where the client is
  seen,         \* s in wait_for_element()
  returned,     \* async_elements_returned_
  outcome,      \* initialization_outcome_
  answer        \* what the last wait_for_element() found

listVars == <<elements, cursor, processed_>>
flagVars == <<finished_, terminating_, had_error>>
poolVars == <<pool, rep, kernel_pool, threadpool, K, i>>
workerVars == <<worker, kernel, at, out>>
clientVars == <<client, seen, returned, outcome, answer>>
vars == <<total, listVars, flagVars, poolVars, workerVars, clientVars>>

(* conc_threads: a negative num_threads_ becomes a huge size_t. *)
ConcThreads ==
  IF NumThreads < 0 \/ NumThreads > total THEN total ELSE NumThreads

Init ==
  /\ total = 0
  /\ elements = <<>> /\ cursor = 0 /\ processed_ = 0
  /\ finished_ = FALSE /\ terminating_ = FALSE /\ had_error = FALSE
  /\ pool = "unborn" /\ rep = 1 /\ kernel_pool = <<>> /\ threadpool = <<>>
  /\ K = NoKernel /\ i = 1
  /\ worker = [t \in Tasks |-> "idle"]
  /\ kernel = [t \in Tasks |-> NoKernel]
  /\ at = [t \in Tasks |-> 1]
  /\ out = [t \in Tasks |-> <<>>]
  /\ client = "free" /\ seen = 0 /\ returned = 0
  /\ outcome = "unset" /\ answer = "none"
------------------------------------------------------------------------------
(* Mutant: counts a task without elements as progress. *)
ProcessFinishedRepCountsAll(t) ==
  /\ elements' = elements \o out[t]
  /\ cursor' = IF cursor = 0 /\ out[t] # <<>> THEN 1 ELSE cursor
  /\ processed_' = processed_ + 1

(* process_finished_rep(): under element_ready_mutex_, append the result. *)
ProcessFinishedRep(t) ==
  IF out[t] = <<>>
  THEN UNCHANGED listVars
  ELSE /\ elements' = elements \o out[t]
       /\ cursor' = IF cursor = 0 THEN 1 ELSE cursor
       /\ processed_' = processed_ + 1

(* What std::swap(v[j], v.back()) followed by pop_back() leaves of v. *)
SwapPop(v, j) ==
  [n \in 1..Len(v)-1 |-> IF n = j THEN v[Len(v)] ELSE v[n]]

(* Mutant: the kernel of the finished future is not moved to the back. *)
SwapBackForgotten(v, j) == v

(* What std::swap(v[j], v.back()) leaves of v. *)
SwapBack(v, j) == [v EXCEPT ![j] = v[Len(v)], ![Len(v)] = v[j]]

(* The kernel pool is filled before the first task is looked at. *)
PoolStart ==
  /\ pool = "start"
  /\ kernel_pool' = [k \in 1..ConcThreads |-> k]
  /\ pool' = "loop"
  /\ UNCHANGED <<total, rep, threadpool, K, i, listVars, flagVars, workerVars, clientVars>>

(* The head of the loop over tasks_: choose a kernel if one was never used. *)
PoolNextTask ==
  /\ pool = "loop" /\ rep <= total
  /\ K' = IF Len(threadpool) < Len(kernel_pool)
          THEN kernel_pool[Len(threadpool) + 1] ELSE NoKernel
  /\ i' = 1
  /\ pool' = IF Len(threadpool) = ConcThreads THEN "poll" ELSE "launch"
  /\ UNCHANGED <<total, rep, kernel_pool, threadpool, listVars, flagVars, workerVars, clientVars>>

(* wait_for(0) says the i-th future is not ready: look at the next one. *)
PoolPollBusy ==
  /\ pool = "poll"
  /\ threadpool # <<>> => worker[threadpool[i]] # "ready"
  /\ i' = IF i < Len(threadpool) THEN i + 1 ELSE 1
  /\ UNCHANGED <<total, pool, rep, kernel_pool, threadpool, K, listVars, flagVars, workerVars, clientVars>>

(* The i-th future is ready: store its result and take over its kernel. *)
PoolCollect ==
  /\ pool = "poll" /\ threadpool # <<>>
  /\ worker[threadpool[i]] = "ready"
  /\ ProcessFinishedRep(threadpool[i])
  /\ threadpool' = SwapPop(threadpool, i)
  /\ kernel_pool' = SwapBack(kernel_pool, i)
  /\ K' = kernel_pool'[Len(kernel_pool)]
  /\ pool' = "launch"
  /\ UNCHANGED <<total, rep, i, flagVars, workerVars, clientVars>>

(* std::async starts create_element_() for the task. *)
PoolLaunch ==
  /\ pool = "launch"
  /\ worker' = [worker EXCEPT ![rep] = "map"]
  /\ kernel' = [kernel EXCEPT ![rep] = K]
  /\ pool' = "launched"
  /\ UNCHANGED <<total, rep, kernel_pool, threadpool, K, i, at, out, listVars, flagVars, clientVars>>

(* Mutant: the loop variable is advanced before the future is kept. *)
PoolKeepFutureOfNext ==
  /\ pool = "launched" /\ ~terminating_
  /\ threadpool' = Append(threadpool, rep + 1)
  /\ rep' = rep + 1
  /\ pool' = "loop"
  /\ UNCHANGED <<total, kernel_pool, K, i, listVars, flagVars, workerVars, clientVars>>

(* terminating_ is not set: keep the future and go on with the next task. *)
PoolKeepFuture ==
  /\ pool = "launched" /\ ~terminating_
  /\ threadpool' = Append(threadpool, rep)
  /\ rep' = rep + 1
  /\ pool' = "loop"
  /\ UNCHANGED <<total, kernel_pool, K, i, listVars, flagVars, workerVars, clientVars>>

(* terminating_ is set: leave the loop. The future that was not kept is     *)
(* destroyed, which waits for its worker; the result is dropped.           *)
PoolBreak ==
  /\ pool = "launched" /\ terminating_
  /\ pool' = "dropping"
  /\ UNCHANGED <<total, rep, kernel_pool, threadpool, K, i, listVars, flagVars, workerVars, clientVars>>

PoolDropped ==
  /\ pool = "dropping" /\ worker[rep] = "ready"
  /\ pool' = "drain" /\ i' = 1
  /\ UNCHANGED <<total, rep, kernel_pool, threadpool, K, listVars, flagVars, workerVars, clientVars>>

PoolLoopDone ==
  /\ pool = "loop" /\ rep > total
  /\ pool' = "drain" /\ i' = 1
  /\ UNCHANGED <<total, rep, kernel_pool, threadpool, K, listVars, flagVars, workerVars, clientVars>>

(* The loop after it: get() waits for each remaining future in turn. *)
PoolDrain ==
  /\ pool = "drain" /\ i <= Len(threadpool)
  /\ worker[threadpool[i]] = "ready"
  /\ ProcessFinishedRep(threadpool[i])
  /\ i' = i + 1
  /\ UNCHANGED <<total, pool, rep, kernel_pool, threadpool, K, flagVars, workerVars, clientVars>>

(* Mutant: finished_ is set without waiting for the remaining futures. *)
PoolFinishEarly ==
  /\ pool = "drain"
  /\ finished_' = TRUE
  /\ pool' = "ended"
  /\ UNCHANGED <<total, terminating_, had_error, rep, kernel_pool, threadpool, K, i, listVars, workerVars, clientVars>>

(* Mutant: finished_ is not set at all. *)
PoolFinishSilent ==
  /\ pool = "drain" /\ i > Len(threadpool)
  /\ pool' = "ended"
  /\ UNCHANGED <<total, flagVars, rep, kernel_pool, threadpool, K, i, listVars, workerVars, clientVars>>

PoolFinish ==
  /\ pool = "drain" /\ i > Len(threadpool)
  /\ finished_' = TRUE
  /\ pool' = "ended"
  /\ UNCHANGED <<total, terminating_, had_error, rep, kernel_pool, threadpool, K, i, listVars, workerVars, clientVars>>

Pool == PoolStart \/ PoolNextTask \/ PoolPollBusy \/ PoolCollect \/ PoolLaunch
        \/ PoolKeepFuture \/ PoolBreak \/ PoolDropped \/ PoolLoopDone
        \/ PoolDrain \/ PoolFinish
------------------------------------------------------------------------------
(* The exception handlers of the worker's lambda; rep->elements stays. *)
WorkerThrow(t) ==
  /\ worker[t] \in {"map", "front", "rest"}
  /\ had_error' = TRUE
  /\ worker' = [worker EXCEPT ![t] = "ready"]
  /\ UNCHANGED <<total, finished_, terminating_, kernel, at, out, listVars, poolVars, clientVars>>

(* No item for the representation, no shape or no element for its first     *)
(* product, or no product left: create_element_() returns.                 *)
WorkerReturn(t) ==
  /\ \/ worker[t] \in {"map", "front"}
     \/ worker[t] = "rest" /\ at[t] > Products[t]
  /\ worker' = [worker EXCEPT ![t] = "ready"]
  /\ UNCHANGED <<total, kernel, at, out, listVars, flagVars, poolVars, clientVars>>

WorkerMap(t) ==
  /\ worker[t] = "map"
  /\ worker' = [worker EXCEPT ![t] = "front"]
  /\ UNCHANGED <<total, kernel, at, out, listVars, flagVars, poolVars, clientVars>>

(* The element of product at[t] joins rep->elements. *)
WorkerElement(t) ==
  /\ \/ worker[t] = "front"
     \/ worker[t] = "rest" /\ at[t] <= Products[t]
  /\ worker' = [worker EXCEPT ![t] = "rest"]
  /\ out' = [out EXCEPT ![t] = Append(@, <<t, at[t]>>)]
  /\ at' = [at EXCEPT ![t] = @ + 1]
  /\ UNCHANGED <<total, kernel, listVars, flagVars, poolVars, clientVars>>

(* A product after the first yields no shape or no element: it is skipped. *)
WorkerSkip(t) ==
  /\ worker[t] = "rest" /\ at[t] <= Products[t]
  /\ at' = [at EXCEPT ![t] = @ + 1]
  /\ UNCHANGED <<total, worker, kernel, out, listVars, flagVars, poolVars, clientVars>>

Worker(t) == WorkerThrow(t) \/ WorkerReturn(t) \/ WorkerMap(t)
             \/ WorkerElement(t) \/ WorkerSkip(t)
------------------------------------------------------------------------------
(* initialize() finds the representations, spawns the pool thread and waits *)
(* for the first element.                                                  *)
Initialize ==
  /\ client = "free" /\ outcome = "unset"
  /\ total' \in Tasks
  /\ pool' = "start"
  /\ client' = "wait"
  /\ UNCHANGED <<rep, kernel_pool, threadpool, K, i, seen, returned, outcome, answer, listVars, flagVars, workerVars>>

InitializeNoTasks ==
  /\ client = "free" /\ outcome = "unset"
  /\ outcome' = "false" /\ answer' = "null"
  /\ UNCHANGED <<total, client, seen, returned, listVars, flagVars, poolVars, workerVars>>

(* next() may be called once initialize() has returned true. *)
CallNext ==
  /\ client = "free" /\ outcome = "true"
  /\ client' = "wait"
  /\ UNCHANGED <<total, seen, returned, outcome, answer, listVars, flagVars, poolVars, workerVars>>

(* wait_for_element(): the number of elements is read under the mutex... *)
WaitReadSize ==
  /\ client = "wait"
  /\ seen' = Len(elements)
  /\ client' = "decide"
  /\ UNCHANGED <<total, returned, outcome, answer, listVars, flagVars, poolVars, workerVars>>

(* Mutant: off by one in the comparison of the counts. *)
WaitElementOffByOne ==
  /\ client = "decide" /\ seen >= returned
  /\ returned' = returned + 1
  /\ answer' = "element"
  /\ outcome' = "true"
  /\ client' = IF outcome = "unset" THEN "free" ELSE "advance"
  /\ UNCHANGED <<total, seen, listVars, flagVars, poolVars, workerVars>>

(* ... and compared after the mutex was released: there is a new element,   *)
(* which initialize() has the cursor on and next() still has to move to,   *)
WaitElement ==
  /\ client = "decide" /\ seen > returned
  /\ returned' = returned + 1
  /\ answer' = "element"
  /\ outcome' = "true"
  /\ client' = IF outcome = "unset" THEN "free" ELSE "advance"
  /\ UNCHANGED <<total, seen, listVars, flagVars, poolVars, workerVars>>

(* there is none and the pool thread has finished, *)
WaitFinished ==
  /\ client = "decide" /\ seen <= returned /\ finished_
  /\ client' = "free" /\ answer' = "null"
  /\ outcome' = IF outcome = "unset" THEN "false" ELSE outcome
  /\ UNCHANGED <<total, seen, returned, listVars, flagVars, poolVars, workerVars>>

(* or there is none yet: sleep 10 ms and look again. *)
WaitSleep ==
  /\ client = "decide" /\ seen <= returned /\ ~finished_
  /\ client' = "wait"
  /\ UNCHANGED <<total, seen, returned, outcome, answer, listVars, flagVars, poolVars, workerVars>>

(* The rest of next(): advance both cursors and dereference. *)
AdvanceCursor ==
  /\ client = "advance"
  /\ cursor' = cursor + 1
  /\ client' = "free"
  /\ UNCHANGED <<total, elements, processed_, seen, returned, outcome, answer, flagVars, poolVars, workerVars>>

(* ~Iterator() sets terminating_, *)
Destroy ==
  /\ client = "free"
  /\ terminating_' = TRUE
  /\ client' = "join"
  /\ UNCHANGED <<total, finished_, had_error, seen, returned, outcome, answer, listVars, poolVars, workerVars>>

(* Mutant: the destructor does not wait for init_future_. *)
FreeWithoutJoin ==
  /\ client = "join"
  /\ client' = "freed"
  /\ UNCHANGED <<total, seen, returned, outcome, answer, listVars, flagVars, poolVars, workerVars>>

(* Mutant: the destructor waits for init_future_ although there is none. *)
FreeAlwaysJoins ==
  /\ client = "join"
  /\ pool = "ended"
  /\ client' = "freed"
  /\ UNCHANGED <<total, seen, returned, outcome, answer, listVars, flagVars, poolVars, workerVars>>

(* waits for init_future_ if there is one, and frees kernels and elements. *)
Free ==
  /\ client = "join"
  /\ pool \in {"unborn", "ended"}
  /\ client' = "freed"
  /\ UNCHANGED <<total, seen, returned, outcome, answer, listVars, flagVars, poolVars, workerVars>>

Waiting == WaitReadSize \/ WaitElement \/ WaitFinished \/ WaitSleep \/ AdvanceCursor

Client == Initialize \/ InitializeNoTasks \/ CallNext \/ Waiting \/ Destroy \/ Free

(* Nothing is left to happen once the object is gone. *)
Gone == client = "freed" /\ UNCHANGED vars

Next == Pool \/ (\E t \in Tasks : Worker(t)) \/ Client \/ Gone

(***************************************************************************)
(* The operating system schedules the pool thread, every worker and a      *)
(* client that is inside a call; kernel conversions return. The client is  *)
(* free not to make a call.                                                *)
(***************************************************************************)
Fairness ==
  /\ WF_vars(Pool)
  /\ \A t \in Tasks : WF_vars(Worker(t))
  /\ WF_vars(Waiting \/ Free)

Spec == Init /\ [][Next]_vars
FairSpec == Spec /\ Fairness
------------------------------------------------------------------------------
TypeOK ==
  /\ total \in 0..NumTasks
  /\ elements \in Seq(Elements)
  /\ cursor \in Nat /\ processed_ \in Nat
  /\ finished_ \in BOOLEAN /\ terminating_ \in BOOLEAN /\ had_error \in BOOLEAN
  /\ pool \in {"unborn", "start", "loop", "poll", "launch", "launched",
               "dropping", "drain", "ended"}
  /\ rep \in Nat \ {0}
  /\ kernel_pool \in Seq(Kernels)
  /\ threadpool \in Seq(Tasks)
  /\ K \in Kernels \cup {NoKernel}
  /\ i \in Nat \ {0}
  /\ worker \in [Tasks -> {"idle", "map", "front", "rest", "ready"}]
  /\ kernel \in [Tasks -> Kernels \cup {NoKernel}]
  /\ at \in [Tasks -> Nat \ {0}]
  /\ out \in [Tasks -> Seq(Elements)]
  /\ client \in {"free", "wait", "decide", "advance", "join", "freed"}
  /\ seen \in Nat /\ returned \in Nat
  /\ outcome \in {"unset", "true", "false"}
  /\ answer \in {"none", "element", "null"}

Running(t) == worker[t] \in {"map", "front", "rest"}

(* A Converter is not thread-safe: no two workers that are running at the   *)
(* same time were given the same kernel, however often the pool thread has *)
(* swapped futures and kernels around.                                     *)
KernelExclusive ==
  \A t, u \in Tasks :
    Running(t) /\ Running(u) =>
      kernel[t] \in Kernels /\ (kernel[t] = kernel[u] => t = u)


(***************************************************************************)
(* Why kernels are exclusive: the n-th future is the one that works with    *)
(* the n-th kernel, kernels are listed once, and a worker that runs is      *)
(* behind one of the futures or was launched by the current iteration,      *)
(* with the first kernel that no future uses.                               *)
(***************************************************************************)
PoolInv ==
  /\ outcome = "unset" /\ client \in {"free", "advance"} => pool = "unborn"
  /\ pool = "unborn" => total = 0
  /\ pool \in {"unborn", "start"} =>
       threadpool = <<>> /\ kernel_pool = <<>> /\ \A t \in Tasks : ~Running(t)
  /\ pool \notin {"unborn", "start"} => Len(kernel_pool) = ConcThreads
  /\ \A m, n \in 1..Len(kernel_pool) : kernel_pool[m] = kernel_pool[n] => m = n
  /\ Len(threadpool) <= Len(kernel_pool)
  /\ \A n \in 1..Len(threadpool) :
       /\ threadpool[n] < rep
       /\ kernel[threadpool[n]] = kernel_pool[n]
       /\ \A m \in 1..Len(threadpool) : threadpool[m] = threadpool[n] => m = n
  /\ pool = "poll" =>
       /\ Len(threadpool) = Len(kernel_pool)
       /\ threadpool # <<>> => i <= Len(threadpool)
  /\ pool \in {"poll", "launch", "launched", "dropping"} => rep <= total
  /\ pool \in {"launch", "launched", "dropping"} =>
       /\ Len(threadpool) < Len(kernel_pool)
       /\ K = kernel_pool[Len(threadpool) + 1]
  /\ pool \in {"launched", "dropping"} => kernel[rep] = K
  /\ \A t \in Tasks : Running(t) =>
       \/ \E n \in 1..Len(threadpool) : threadpool[n] = t
       \/ pool \in {"launched", "dropping"} /\ t = rep

(* The client moves task_result_iterator_ along the list without holding    *)
(* element_ready_mutex_. That is only safe because it never reaches past    *)
(* the elements whose insertion it has observed under the mutex; and get() *)
(* after a successful initialize() or next() is on the element it counted. *)
CursorObserved ==
  /\ client = "advance" => cursor < seen /\ seen <= Len(elements)
  /\ client = "free" /\ outcome = "true" =>
       cursor = returned /\ cursor \in 1..Len(elements)

(* Why that holds: what the client has counted and seen lags behind the    *)
(* list, and the cursor lags one step behind the count while it is moved.  *)
CursorInv ==
  /\ cursor = 0 <=> elements = <<>>
  /\ returned <= Len(elements)
  /\ outcome = "false" => client \notin {"wait", "decide"}
  /\ outcome = "unset" => answer = "none"
  /\ client = "decide" => seen <= Len(elements)
  /\ client = "advance" => returned <= seen /\ seen <= Len(elements)
  /\ outcome # "true" => returned = 0 /\ cursor <= 1 /\ client # "advance"
  /\ outcome = "true" =>
       /\ returned >= 1
       /\ cursor = IF client = "advance" THEN returned - 1 ELSE returned

(* ~Iterator() deletes the kernels and the elements only when no thread    *)
(* that uses them is left.                                                 *)
FreedQuiet ==
  client = "freed" => pool \in {"unborn", "ended"} /\ \A t \in Tasks : ~Running(t)

(* Why that holds: while the remaining futures are drained those before the *)
(* index are done, and the client is past the join only when all are.      *)
DrainInv ==
  /\ pool = "drain" =>
       \A n \in 1..Len(threadpool) : n < i => ~Running(threadpool[n])
  /\ pool = "ended" => \A t \in Tasks : ~Running(t)
  /\ client = "freed" => pool \in {"unborn", "ended"}

(* When finished_ is set every element of every task is in the list, also   *)
(* the elements that a task produced before it threw. The exception is an   *)
(* iterator that is being destroyed, which may drop the one task it had     *)
(* launched when it noticed.                                               *)
AllDelivered ==
  finished_ =>
    /\ ~terminating_ => rep > total
    /\ \A t \in Tasks \ {rep} : \A n \in 1..Len(out[t]) :
         \E m \in 1..Len(elements) : elements[m] = out[t][n]

(* progress() is in [0..100], as the header of Iterator.h promises, because *)
(* processed_ counts each task that yielded elements once.                 *)
ProgressCounts ==
  processed_ = Cardinality({elements[n][1] : n \in 1..Len(elements)})

(* The same header says next() returns true iff a following entity is       *)
(* available: the answer "no more" is given when everything was handed out. *)
NullMeansExhausted ==
  client = "free" /\ answer = "null" => returned = Len(elements)

(* initialize() and next() return although the client only polls. *)
CallReturns == client = "wait" ~> client = "free"

(* ~Iterator() returns, at whatever moment it is called. *)
DestroyReturns == client = "join" ~> client = "freed"

(***************************************************************************)
(* The iterator implements the stream of elements: workers, futures and    *)
(* kernels are internal.                                                   *)
(***************************************************************************)
Stream == INSTANCE ElementStream WITH
  stream <- elements, closed <- finished_, taken <- returned,
  ended <- (answer = "null" /\ total > 0)

ImplementsStream == Stream!StreamSpec

(* Why a task is published once: the list only holds elements of tasks      *)
(* whose future is gone from threadpool or was drained; and why they come   *)
(* in product order: rep->elements only grows at the end.                  *)
StreamInv ==
  /\ finished_ <=> pool = "ended"
  /\ \A t \in Tasks : \A n \in 1..Len(out[t]) :
       /\ out[t][n][1] = t
       /\ out[t][n][2] < at[t]
       /\ \A m \in 1..Len(out[t]) : m < n => out[t][m][2] < out[t][n][2]
  /\ \A n \in 1..Len(elements) :
       /\ elements[n][1] < rep
       /\ \A m \in 1..Len(threadpool) :
            threadpool[m] = elements[n][1] => pool \in {"drain", "ended"} /\ m < i

(* The result of t is still to be stored: one of the futures is for it, and *)
(* after the loop over tasks_ it was not drained yet.                       *)
Awaited(t) ==
  \E n \in 1..Len(threadpool) : threadpool[n] = t /\ (pool \in {"drain", "ended"} => i <= n)

Delivered(t) ==
  /\ worker[t] = "ready"
  /\ \A n \in 1..Len(out[t]) : \E m \in 1..Len(elements) : elements[m] = out[t][n]

(* Why nothing is left out: a task is not launched yet, awaited, or         *)
(* delivered, and only a destructor stops the loop before its end.          *)
DeliveryInv ==
  /\ pool = "dropping" => terminating_
  /\ pool \in {"drain", "ended"} => terminating_ \/ rep > total
  /\ pool = "ended" => i > Len(threadpool)
  /\ \A t \in Tasks : t > rep \/ (t = rep /\ pool \in {"unborn", "start", "loop", "poll", "launch"})
       => worker[t] = "idle" /\ out[t] = <<>>
  /\ \A t \in Tasks : t < rep => Awaited(t) \/ Delivered(t)

(* All parts of the inductive invariant together. *)
IInv == TypeOK /\ PoolInv /\ CursorInv /\ DrainInv /\ StreamInv /\ DeliveryInv
==============================================================================
