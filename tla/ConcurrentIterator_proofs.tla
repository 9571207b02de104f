----------------------- MODULE ConcurrentIterator_proofs -----------------------
(***************************************************************************)
(* Theorems about ConcurrentIterator, for any number of tasks, threads and *)
(* products.                                                               *)
(***************************************************************************)
EXTENDS ConcurrentIterator, FiniteSetTheorems, SequenceTheorems, TLAPS

(* What remains of a vector after std::swap with the back and pop_back().  *)
LEMMA SwapPopProperties ==
  ASSUME NEW S, NEW v \in Seq(S), NEW j \in 1..Len(v)
  PROVE  /\ SwapPop(v, j) \in Seq(S)
         /\ Len(SwapPop(v, j)) = Len(v) - 1
         /\ \A n \in 1..Len(v)-1 :
              SwapPop(v, j)[n] = IF n = j THEN v[Len(v)] ELSE v[n]
<1>1. Len(v) \in Nat /\ Len(v) >= 1 /\ v \in [1..Len(v) -> S]
  BY LenProperties
<1>2. SwapPop(v, j) \in [1..Len(v)-1 -> S]
  BY <1>1 DEF SwapPop
<1>3. SwapPop(v, j) \in Seq(S)
  BY <1>1, <1>2, SeqDef
<1>4. Len(SwapPop(v, j)) = Len(v) - 1
  BY <1>1 DEF SwapPop
<1>5. QED
  BY <1>3, <1>4 DEF SwapPop

(* What becomes of a vector after std::swap of an entry with the back.     *)
LEMMA SwapBackProperties ==
  ASSUME NEW S, NEW v \in Seq(S), NEW j \in 1..Len(v)
  PROVE  /\ SwapBack(v, j) \in Seq(S)
         /\ Len(SwapBack(v, j)) = Len(v)
         /\ \A n \in 1..Len(v) :
              SwapBack(v, j)[n] = IF n = Len(v) THEN v[j]
                                  ELSE IF n = j THEN v[Len(v)] ELSE v[n]
<1>1. Len(v) \in Nat /\ Len(v) >= 1 /\ Len(v) \in 1..Len(v)
  BY LenProperties
<1>2. v[Len(v)] \in S /\ v[j] \in S
  BY <1>1, ElementOfSeq
<1> DEFINE w == [v EXCEPT ![j] = v[Len(v)]]
<1>3. /\ w \in Seq(S) /\ Len(w) = Len(v)
      /\ \A n \in 1..Len(v) : w[n] = IF n = j THEN v[Len(v)] ELSE v[n]
  BY <1>2, ExceptSeq
<1>4. SwapBack(v, j) = [w EXCEPT ![Len(v)] = v[j]]
  BY DEF SwapBack
<1> HIDE DEF w
<1>5. /\ SwapBack(v, j) \in Seq(S) /\ Len(SwapBack(v, j)) = Len(w)
      /\ \A n \in 1..Len(w) : SwapBack(v, j)[n] = IF n = Len(v) THEN v[j] ELSE w[n]
  BY <1>1, <1>2, <1>3, <1>4, ExceptSeq
<1>6. QED
  BY <1>3, <1>5

(* Both vectors keep their entries distinct, ...                           *)
LEMMA SwapBackInjective ==
  ASSUME NEW S, NEW v \in Seq(S), NEW j \in 1..Len(v),
         \A m, n \in 1..Len(v) : v[m] = v[n] => m = n
  PROVE  \A m, n \in 1..Len(SwapBack(v, j)) :
           SwapBack(v, j)[m] = SwapBack(v, j)[n] => m = n
<1>1. Len(v) \in Nat /\ Len(v) >= 1
  BY LenProperties
<1> DEFINE pos(n) == IF n = Len(v) THEN j ELSE IF n = j THEN Len(v) ELSE n
<1>2. \A n \in 1..Len(v) : pos(n) \in 1..Len(v) /\ SwapBack(v, j)[n] = v[pos(n)]
  <2>1. \A n \in 1..Len(v) :
          SwapBack(v, j)[n] = IF n = Len(v) THEN v[j]
                              ELSE IF n = j THEN v[Len(v)] ELSE v[n]
    BY SwapBackProperties
  <2>2. QED
    BY <1>1, <2>1
<1>3. \A m, n \in 1..Len(v) : pos(m) = pos(n) => m = n
  BY <1>1
<1> HIDE DEF pos
<1>4. Len(SwapBack(v, j)) = Len(v)
  BY SwapBackProperties
<1>5. QED
  <2> SUFFICES ASSUME NEW m \in 1..Len(v), NEW n \in 1..Len(v),
                      SwapBack(v, j)[m] = SwapBack(v, j)[n]
               PROVE  m = n
    BY <1>4
  <2>1. v[pos(m)] = v[pos(n)] /\ pos(m) \in 1..Len(v) /\ pos(n) \in 1..Len(v)
    BY <1>2
  <2>2. pos(m) = pos(n)
    BY <2>1
  <2>3. QED
    BY <1>3, <2>2

LEMMA SwapPopInjective ==
  ASSUME NEW S, NEW v \in Seq(S), NEW j \in 1..Len(v),
         \A m, n \in 1..Len(v) : v[m] = v[n] => m = n
  PROVE  \A m, n \in 1..Len(SwapPop(v, j)) :
           SwapPop(v, j)[m] = SwapPop(v, j)[n] => m = n
<1>1. Len(v) \in Nat /\ Len(v) >= 1
  BY LenProperties
<1> DEFINE pos(n) == IF n = j THEN Len(v) ELSE n
<1>2. \A n \in 1..Len(v)-1 : pos(n) \in 1..Len(v) /\ SwapPop(v, j)[n] = v[pos(n)]
  BY <1>1, SwapPopProperties
<1>3. \A m, n \in 1..Len(v)-1 : pos(m) = pos(n) => m = n
  BY <1>1
<1> HIDE DEF pos
<1>4. Len(SwapPop(v, j)) = Len(v) - 1
  BY SwapPopProperties
<1>5. QED
  BY <1>2, <1>3, <1>4

(* ... the popped one loses entry j and nothing else, ...                   *)
LEMMA SwapPopKeeps ==
  ASSUME NEW S, NEW v \in Seq(S), NEW j \in 1..Len(v)
  PROVE  /\ \A n \in 1..Len(SwapPop(v, j)) :
              \E m \in 1..Len(v) : m # j /\ v[m] = SwapPop(v, j)[n]
         /\ \A m \in 1..Len(v) : m # j =>
              \E n \in 1..Len(SwapPop(v, j)) : SwapPop(v, j)[n] = v[m]
<1>1. /\ Len(v) \in Nat /\ Len(v) >= 1
      /\ Len(SwapPop(v, j)) = Len(v) - 1
      /\ \A n \in 1..Len(v)-1 :
           SwapPop(v, j)[n] = IF n = j THEN v[Len(v)] ELSE v[n]
  <2>1. Len(v) \in Nat /\ Len(v) >= 1
    BY LenProperties
  <2>2. Len(SwapPop(v, j)) = Len(v) - 1
    BY SwapPopProperties
  <2>3. \A n \in 1..Len(v)-1 :
          SwapPop(v, j)[n] = IF n = j THEN v[Len(v)] ELSE v[n]
    BY SwapPopProperties
  <2>4. QED
    BY <2>1, <2>2, <2>3
<1>2. ASSUME NEW n \in 1..Len(v)-1
      PROVE  \E m \in 1..Len(v) : m # j /\ v[m] = SwapPop(v, j)[n]
  <2>1. CASE n = j
    <3>1. Len(v) \in 1..Len(v) /\ Len(v) # j /\ v[Len(v)] = SwapPop(v, j)[n]
      BY <1>1, <2>1
    <3>2. QED
      BY <3>1
  <2>2. CASE n # j
    <3>1. n \in 1..Len(v) /\ v[n] = SwapPop(v, j)[n]
      BY <1>1, <2>2
    <3>2. QED
      BY <2>2, <3>1
  <2>3. QED
    BY <2>1, <2>2
<1>3. ASSUME NEW m \in 1..Len(v), m # j
      PROVE  \E n \in 1..Len(v)-1 : SwapPop(v, j)[n] = v[m]
  <2>1. CASE m = Len(v)
    <3>1. j \in 1..Len(v)-1 /\ SwapPop(v, j)[j] = v[m]
      BY <1>1, <1>3, <2>1
    <3>2. QED
      BY <3>1
  <2>2. CASE m # Len(v)
    <3>1. m \in 1..Len(v)-1 /\ SwapPop(v, j)[m] = v[m]
      BY <1>1, <1>3, <2>2
    <3>2. QED
      BY <3>1
  <2>3. QED
    BY <2>1, <2>2
<1>4. QED
  BY <1>1, <1>2, <1>3

(* ... and entries of the two that belong together stay at one index.      *)
LEMMA SwapPaired ==
  ASSUME NEW S, NEW T, NEW v \in Seq(S), NEW w \in Seq(T), Len(v) = Len(w),
         NEW j \in 1..Len(v), NEW f,
         \A n \in 1..Len(v) : f[v[n]] = w[n]
  PROVE  \A n \in 1..Len(SwapPop(v, j)) : f[SwapPop(v, j)[n]] = SwapBack(w, j)[n]
<1>1. Len(v) \in Nat /\ Len(v) >= 1 /\ j \in 1..Len(w)
  BY LenProperties
<1>2. /\ Len(SwapPop(v, j)) = Len(v) - 1
      /\ \A n \in 1..Len(v)-1 :
           SwapPop(v, j)[n] = IF n = j THEN v[Len(v)] ELSE v[n]
  BY SwapPopProperties
<1>3. \A n \in 1..Len(w) :
        SwapBack(w, j)[n] = IF n = Len(w) THEN w[j]
                            ELSE IF n = j THEN w[Len(w)] ELSE w[n]
  <2>1. w \in Seq(T) /\ j \in 1..Len(w)
    BY <1>1
  <2>2. QED
    BY ONLY <2>1, SwapBackProperties
<1>4. QED
  BY <1>1, <1>2, <1>3

LEMMA ConcThreadsNat == TypeOK => ConcThreads \in Nat
  BY TasksAssumption, ThreadsAssumption DEF ConcThreads, TypeOK

(* Storing the result of a task leaves the shared list well typed.         *)
LEMMA ProcessFinishedRepType ==
  ASSUME TypeOK, NEW t \in Tasks, ProcessFinishedRep(t)
  PROVE  elements' \in Seq(Elements) /\ cursor' \in Nat /\ processed_' \in Nat
<1>1. CASE out[t] = <<>>
  BY <1>1 DEF ProcessFinishedRep, TypeOK, listVars
<1>2. CASE out[t] # <<>>
  <2>1. out[t] \in Seq(Elements) /\ elements \in Seq(Elements)
    BY DEF TypeOK
  <2>2. elements' = elements \o out[t]
    BY <1>2 DEF ProcessFinishedRep
  <2>3. elements' \in Seq(Elements)
    BY <2>1, <2>2, ConcatProperties
  <2>4. QED
    BY <1>2, <2>3 DEF ProcessFinishedRep, TypeOK
<1>3. QED
  BY <1>1, <1>2

(* Where the elements of the task end up in the list.                      *)
LEMMA ProcessFinishedRepEffect ==
  ASSUME TypeOK, NEW t \in Tasks, ProcessFinishedRep(t)
  PROVE  /\ Len(elements') = Len(elements) + Len(out[t])
         /\ \A n \in 1..Len(elements) : elements'[n] = elements[n]
         /\ \A n \in Len(elements)+1..Len(elements') :
              elements'[n] = out[t][n - Len(elements)]
         /\ cursor' = IF cursor = 0 /\ out[t] # <<>> THEN 1 ELSE cursor
<1>1. /\ out[t] \in Seq(Elements) /\ elements \in Seq(Elements)
      /\ Len(out[t]) \in Nat /\ Len(elements) \in Nat
  BY LenProperties DEF TypeOK
<1>2. CASE out[t] = <<>>
  BY <1>1, <1>2 DEF ProcessFinishedRep, listVars
<1>3. CASE out[t] # <<>>
  <2>1. elements' = elements \o out[t]
    BY <1>3 DEF ProcessFinishedRep
  <2>2. /\ Len(elements') = Len(elements) + Len(out[t])
        /\ \A n \in 1..Len(elements) + Len(out[t]) :
             elements'[n] = IF n <= Len(elements) THEN elements[n]
                            ELSE out[t][n - Len(elements)]
    BY <1>1, <2>1, ConcatProperties
  <2>3. cursor' = IF cursor = 0 THEN 1 ELSE cursor
    BY <1>3 DEF ProcessFinishedRep
  <2>4. QED
    BY <1>1, <1>3, <2>2, <2>3
<1>4. QED
  BY <1>2, <1>3

LEMMA InitType == Init => TypeOK
<1>1. /\ <<>> \in Seq(Elements)
      /\ <<>> \in Seq(Kernels)
      /\ <<>> \in Seq(Tasks)
  BY EmptySeq
<1> SUFFICES ASSUME Init PROVE TypeOK
  OBVIOUS
<1>2. /\ elements \in Seq(Elements) /\ kernel_pool \in Seq(Kernels)
      /\ threadpool \in Seq(Tasks) /\ K \in Kernels \cup {NoKernel}
  BY <1>1 DEF Init
<1>3. /\ worker \in [Tasks -> {"idle", "map", "front", "rest", "ready"}]
      /\ kernel \in [Tasks -> Kernels \cup {NoKernel}]
      /\ at \in [Tasks -> Nat \ {0}]
      /\ out \in [Tasks -> Seq(Elements)]
  BY <1>1 DEF Init
<1>4. finished_ \in BOOLEAN /\ terminating_ \in BOOLEAN /\ had_error \in BOOLEAN
  BY DEF Init
<1>5. total \in 0..NumTasks
  BY TasksAssumption DEF Init
<1>6. QED
  BY <1>2, <1>3, <1>4, <1>5 DEF Init, TypeOK

(* Every step keeps the variables well typed; the indices into threadpool   *)
(* and tasks_ are in range because of PoolInv.                             *)
LEMMA TypeStep == TypeOK /\ PoolInv /\ [Next]_vars => TypeOK'
<1> SUFFICES ASSUME TypeOK, PoolInv, [Next]_vars PROVE TypeOK'
  OBVIOUS
<1> USE TasksAssumption, ConcThreadsNat DEF TypeOK, listVars, flagVars, poolVars, workerVars, clientVars
<1>1. CASE PoolStart
  <2>1. ConcThreads \in Nat
    BY ConcThreadsNat
  <2>2. [k \in 1..ConcThreads |-> k] \in Seq(Kernels)
    <3> DEFINE n == ConcThreads
    <3>1. n \in Nat
      BY <2>1
    <3> HIDE DEF n
    <3>2. [k \in 1..n |-> k] \in Seq(Kernels)
      BY <3>1 DEF Kernels
    <3>3. QED
      BY <3>2 DEF n
  <2>3. QED
    BY <1>1, <2>2 DEF PoolStart
<1>2. CASE PoolNextTask
  BY <1>2 DEF PoolNextTask
<1>3. CASE PoolPollBusy
  BY <1>3 DEF PoolPollBusy
<1>4. CASE PoolCollect
  <2>1. i \in 1..Len(threadpool) /\ i \in 1..Len(kernel_pool) /\ threadpool[i] \in Tasks
    BY <1>4, ElementOfSeq DEF PoolCollect, PoolInv
  <2>2. elements' \in Seq(Elements) /\ cursor' \in Nat /\ processed_' \in Nat
    BY <1>4, <2>1, ProcessFinishedRepType DEF PoolCollect
  <2>3. SwapPop(threadpool, i) \in Seq(Tasks)
    BY <2>1, SwapPopProperties
  <2>4. SwapBack(kernel_pool, i) \in Seq(Kernels) /\ Len(SwapBack(kernel_pool, i)) = Len(kernel_pool)
    BY <2>1, SwapBackProperties
  <2>5. Len(kernel_pool) \in 1..Len(kernel_pool)
    BY <2>1
  <2>6. SwapBack(kernel_pool, i)[Len(kernel_pool)] \in Kernels
    BY <2>4, <2>5, ElementOfSeq
  <2>7. QED
    BY <1>4, <2>2, <2>3, <2>4, <2>6, SMTT(20), ZenonT(20) DEF PoolCollect
<1>5. CASE PoolLaunch
  BY <1>5, SMTT(20), ZenonT(20) DEF PoolLaunch
<1>6. CASE PoolKeepFuture
  BY <1>6 DEF PoolKeepFuture, PoolInv, Tasks
<1>7. CASE PoolBreak
  BY <1>7 DEF PoolBreak
<1>8. CASE PoolDropped
  BY <1>8 DEF PoolDropped
<1>9. CASE PoolLoopDone
  BY <1>9 DEF PoolLoopDone
<1>10. CASE PoolDrain
  <2>1. threadpool[i] \in Tasks
    BY <1>10, ElementOfSeq DEF PoolDrain
  <2>2. elements' \in Seq(Elements) /\ cursor' \in Nat /\ processed_' \in Nat
    BY <1>10, <2>1, ProcessFinishedRepType DEF PoolDrain
  <2>3. QED
    BY <1>10, <2>2, SMTT(20) DEF PoolDrain
<1>11. CASE PoolFinish
  BY <1>11 DEF PoolFinish
<1>12. ASSUME NEW t \in Tasks, WorkerThrow(t) PROVE TypeOK'
  BY <1>12 DEF WorkerThrow
<1>13. ASSUME NEW t \in Tasks, WorkerReturn(t) PROVE TypeOK'
  BY <1>13 DEF WorkerReturn
<1>14. ASSUME NEW t \in Tasks, WorkerMap(t) PROVE TypeOK'
  BY <1>14 DEF WorkerMap
<1>15. ASSUME NEW t \in Tasks, WorkerElement(t) PROVE TypeOK'
  <2>1. <<t, at[t]>> \in Elements /\ out[t] \in Seq(Elements)
    BY <1>15 DEF Elements
  <2>2. Append(out[t], <<t, at[t]>>) \in Seq(Elements)
    BY <2>1
  <2>3. QED
    BY <1>15, <2>2, SMTT(20), ZenonT(20) DEF WorkerElement
<1>16. ASSUME NEW t \in Tasks, WorkerSkip(t) PROVE TypeOK'
  BY <1>16 DEF WorkerSkip
<1>17. CASE Initialize
  BY <1>17 DEF Initialize, Tasks
<1>18. CASE InitializeNoTasks
  BY <1>18 DEF InitializeNoTasks
<1>19. CASE CallNext
  BY <1>19 DEF CallNext
<1>20. CASE WaitReadSize
  BY <1>20 DEF WaitReadSize
<1>21. CASE WaitElement
  BY <1>21 DEF WaitElement
<1>22. CASE WaitFinished
  BY <1>22 DEF WaitFinished
<1>23. CASE WaitSleep
  BY <1>23 DEF WaitSleep
<1>24. CASE AdvanceCursor
  BY <1>24 DEF AdvanceCursor
<1>25. CASE Destroy
  BY <1>25 DEF Destroy
<1>26. CASE Free
  BY <1>26 DEF Free
<1>27. CASE UNCHANGED vars
  BY <1>27 DEF vars
<1>28. QED
  BY <1>1, <1>2, <1>3, <1>4, <1>5, <1>6, <1>7, <1>8, <1>9, <1>10, <1>11, <1>12, <1>13, <1>14, <1>15, <1>16, <1>17, <1>18, <1>19, <1>20, <1>21, <1>22, <1>23, <1>24, <1>25, <1>26, <1>27
     DEF Next, Pool, Worker, Client, Waiting, Gone

(* Taking over the kernel of a finished future keeps the correspondence.   *)
LEMMA PoolInvCollect ==
  ASSUME TypeOK, PoolInv, PoolCollect
  PROVE  PoolInv'
<1>1. /\ threadpool \in Seq(Tasks) /\ kernel_pool \in Seq(Kernels)
      /\ i \in 1..Len(threadpool) /\ i \in 1..Len(kernel_pool)
      /\ Len(threadpool) = Len(kernel_pool) /\ Len(kernel_pool) = ConcThreads
      /\ rep <= total
  BY DEF TypeOK, PoolInv, PoolCollect
<1>2. /\ threadpool' = SwapPop(threadpool, i)
      /\ kernel_pool' = SwapBack(kernel_pool, i)
      /\ K' = kernel_pool'[Len(kernel_pool)]
      /\ pool = "poll" /\ pool' = "launch" /\ worker[threadpool[i]] = "ready"
      /\ UNCHANGED <<total, rep, worker, kernel, client, outcome>>
  BY DEF PoolCollect, flagVars, workerVars, clientVars
<1>3. Len(threadpool') = Len(threadpool) - 1
  BY <1>1, <1>2, SwapPopProperties
<1>4. Len(kernel_pool') = Len(kernel_pool)
  BY <1>1, <1>2, SwapBackProperties
<1>5. \A m, n \in 1..Len(kernel_pool') : kernel_pool'[m] = kernel_pool'[n] => m = n
  <2>1. \A m, n \in 1..Len(kernel_pool) : kernel_pool[m] = kernel_pool[n] => m = n
    BY DEF PoolInv
  <2>2. QED
    BY <1>1, <1>2, <2>1, SwapBackInjective
<1>6. \A m, n \in 1..Len(threadpool') : threadpool'[m] = threadpool'[n] => m = n
  <2>1. \A m, n \in 1..Len(threadpool) : threadpool[m] = threadpool[n] => m = n
    BY DEF PoolInv
  <2>2. QED
    BY <1>1, <1>2, <2>1, SwapPopInjective
<1>7. \A n \in 1..Len(threadpool') : kernel[threadpool'[n]] = kernel_pool'[n]
  <2>1. \A n \in 1..Len(threadpool) : kernel[threadpool[n]] = kernel_pool[n]
    BY DEF PoolInv
  <2>2. QED
    BY <1>1, <1>2, <2>1, SwapPaired
<1>8. \A n \in 1..Len(threadpool') : threadpool'[n] < rep
  <2>1. \A n \in 1..Len(threadpool) : threadpool[n] < rep
    BY DEF PoolInv
  <2>2. QED
    BY <1>1, <1>2, <2>1, SwapPopKeeps
<1>9. ASSUME NEW t \in Tasks, Running(t)
      PROVE  \E n \in 1..Len(threadpool') : threadpool'[n] = t
  <2>1. PICK m \in 1..Len(threadpool) : threadpool[m] = t
    BY <1>2, <1>9 DEF PoolInv
  <2>2. m # i
    BY <1>2, <1>9, <2>1 DEF Running
  <2>3. QED
    BY <1>1, <1>2, <2>1, <2>2, SwapPopKeeps
<1>10. Len(kernel_pool) \in Nat /\ K' = kernel_pool'[Len(threadpool') + 1]
  BY <1>1, <1>2, <1>3, LenProperties
<1>11. \A t \in Tasks : Running(t)' => \E n \in 1..Len(threadpool') : threadpool'[n] = t
  BY <1>2, <1>9 DEF Running
<1>12. QED
  BY <1>1, <1>2, <1>3, <1>4, <1>5, <1>6, <1>7, <1>8, <1>10, <1>11 DEF PoolInv, ConcThreads

(* So does keeping the future of the task that was just launched.          *)
LEMMA PoolInvKeepFuture ==
  ASSUME TypeOK, PoolInv, PoolKeepFuture
  PROVE  PoolInv'
<1>1. /\ pool = "launched" /\ pool' = "loop" /\ rep \in Nat /\ rep' = rep + 1
      /\ threadpool \in Seq(Tasks) /\ Len(threadpool) \in Nat
      /\ threadpool' = Append(threadpool, rep)
      /\ UNCHANGED <<total, kernel_pool, worker, kernel, client, outcome>>
  BY DEF PoolKeepFuture, TypeOK, workerVars, clientVars
<1>2. /\ Len(threadpool') = Len(threadpool) + 1
      /\ threadpool'[Len(threadpool) + 1] = rep
      /\ \A n \in 1..Len(threadpool) : threadpool'[n] = threadpool[n]
  BY <1>1, AppendProperties
<1>3. /\ Len(threadpool) < Len(kernel_pool) /\ Len(kernel_pool) = ConcThreads
      /\ kernel[rep] = kernel_pool[Len(threadpool) + 1]
  BY <1>1 DEF PoolInv
<1>4. \A n \in 1..Len(threadpool) :
        /\ threadpool[n] < rep
        /\ kernel[threadpool[n]] = kernel_pool[n]
        /\ \A m \in 1..Len(threadpool) : threadpool[m] = threadpool[n] => m = n
  BY DEF PoolInv
<1>5. \A n \in 1..Len(threadpool') : kernel[threadpool'[n]] = kernel_pool[n]
  BY <1>1, <1>2, <1>3, <1>4
<1>6. \A n \in 1..Len(threadpool) : threadpool[n] \in Tasks
  BY <1>1, ElementOfSeq
<1>7. \A n \in 1..Len(threadpool') : threadpool'[n] < rep'
  BY <1>1, <1>2, <1>4, <1>6 DEF Tasks
<1>8. \A m, n \in 1..Len(threadpool') : threadpool'[m] = threadpool'[n] => m = n
  BY <1>1, <1>2, <1>4, <1>6 DEF Tasks
<1>9. ASSUME NEW t \in Tasks, Running(t)'
      PROVE  \E n \in 1..Len(threadpool') : threadpool'[n] = t
  <2>1. Running(t)
    BY <1>1, <1>9 DEF Running
  <2>2. CASE t = rep
    BY <1>1, <1>2, <2>2
  <2>3. CASE t # rep
    BY <1>1, <1>2, <2>1, <2>3 DEF PoolInv
  <2>4. QED
    BY <2>2, <2>3
<1>10. QED
  BY <1>1, <1>2, <1>3, <1>5, <1>7, <1>8, <1>9 DEF PoolInv, ConcThreads

(* A running worker goes on or ends.                                       *)
LEMMA PoolInvWorker ==
  ASSUME TypeOK, PoolInv, NEW t \in Tasks, Running(t),
         NEW s, worker' = [worker EXCEPT ![t] = s],
         UNCHANGED <<total, kernel, poolVars, clientVars>>
  PROVE  PoolInv'
<1>1. /\ UNCHANGED <<total, kernel, client, outcome>>
      /\ UNCHANGED <<pool, rep, kernel_pool, threadpool, K, i>>
      /\ ConcThreads' = ConcThreads
  BY DEF poolVars, clientVars, ConcThreads
<1>2. \A u \in Tasks : Running(u)' => Running(u)
  BY DEF Running, TypeOK
<1>3. QED
  BY <1>1, <1>2 DEF PoolInv

(* The correspondence of futures, kernels and workers is preserved.        *)
LEMMA PoolStep == TypeOK /\ PoolInv /\ [Next]_vars => PoolInv'
<1> SUFFICES ASSUME TypeOK, PoolInv, [Next]_vars PROVE PoolInv'
  OBVIOUS
<1> USE TasksAssumption, ConcThreadsNat
    DEF TypeOK, PoolInv, Running, ConcThreads, listVars, flagVars, poolVars, workerVars, clientVars
<1>1. CASE PoolStart
  BY <1>1 DEF PoolStart
<1>2. CASE PoolNextTask
  BY <1>2 DEF PoolNextTask
<1>3. CASE PoolPollBusy
  BY <1>3 DEF PoolPollBusy
<1>4. CASE PoolCollect
  BY <1>4, PoolInvCollect
<1>5. CASE PoolLaunch
  <2>1. /\ pool = "launch" /\ pool' = "launched" /\ rep \in Tasks
        /\ worker' = [worker EXCEPT ![rep] = "map"]
        /\ kernel' = [kernel EXCEPT ![rep] = K]
        /\ UNCHANGED <<total, rep, kernel_pool, threadpool, K, i, client, outcome>>
    BY <1>5 DEF PoolLaunch, Tasks
  <2>2. \A n \in 1..Len(threadpool) :
          threadpool[n] \in Tasks /\ kernel'[threadpool[n]] = kernel[threadpool[n]]
    BY <2>1, ElementOfSeq
  <2>3. \A t \in Tasks : t # rep => worker'[t] = worker[t]
    BY <2>1
  <2>4. QED
    BY <2>1, <2>2, <2>3
<1>6. CASE PoolKeepFuture
  BY <1>6, PoolInvKeepFuture
<1>7. CASE PoolBreak
  BY <1>7 DEF PoolBreak
<1>8. CASE PoolDropped
  <2>1. /\ pool = "dropping" /\ pool' = "drain" /\ worker[rep] = "ready"
        /\ UNCHANGED <<total, rep, kernel_pool, threadpool, K, worker, kernel, client, outcome>>
    BY <1>8 DEF PoolDropped
  <2>2. \A t \in Tasks : Running(t) => \E n \in 1..Len(threadpool) : threadpool[n] = t
    BY <2>1
  <2>3. QED
    BY <2>1, <2>2
<1>9. CASE PoolLoopDone
  BY <1>9 DEF PoolLoopDone
<1>10. CASE PoolDrain
  BY <1>10 DEF PoolDrain
<1>11. CASE PoolFinish
  BY <1>11 DEF PoolFinish
<1>12. ASSUME NEW t \in Tasks, WorkerThrow(t) PROVE PoolInv'
  BY <1>12, PoolInvWorker DEF WorkerThrow
<1>13. ASSUME NEW t \in Tasks, WorkerReturn(t) PROVE PoolInv'
  BY <1>13, PoolInvWorker DEF WorkerReturn
<1>14. ASSUME NEW t \in Tasks, WorkerMap(t) PROVE PoolInv'
  BY <1>14, PoolInvWorker DEF WorkerMap
<1>15. ASSUME NEW t \in Tasks, WorkerElement(t) PROVE PoolInv'
  BY <1>15, PoolInvWorker DEF WorkerElement
<1>16. ASSUME NEW t \in Tasks, WorkerSkip(t) PROVE PoolInv'
  BY <1>16 DEF WorkerSkip
<1>17. CASE Initialize
  BY <1>17 DEF Initialize
<1>18. CASE InitializeNoTasks
  BY <1>18 DEF InitializeNoTasks
<1>19. CASE CallNext
  BY <1>19 DEF CallNext
<1>20. CASE WaitReadSize
  BY <1>20 DEF WaitReadSize
<1>21. CASE WaitElement
  BY <1>21 DEF WaitElement
<1>22. CASE WaitFinished
  BY <1>22 DEF WaitFinished
<1>23. CASE WaitSleep
  BY <1>23 DEF WaitSleep
<1>24. CASE AdvanceCursor
  BY <1>24 DEF AdvanceCursor
<1>25. CASE Destroy
  BY <1>25 DEF Destroy
<1>26. CASE Free
  BY <1>26 DEF Free
<1>27. CASE UNCHANGED vars
  BY <1>27 DEF vars
<1>28. QED
  BY <1>1, <1>2, <1>3, <1>4, <1>5, <1>6, <1>7, <1>8, <1>9, <1>10, <1>11, <1>12, <1>13, <1>14, <1>15, <1>16, <1>17, <1>18, <1>19, <1>20, <1>21, <1>22, <1>23, <1>24, <1>25, <1>26, <1>27
     DEF Next, Pool, Worker, Client, Waiting, Gone
(* Type correctness and the pool invariant hold in every reachable state.  *)
THEOREM PoolCorrect == Spec => [](TypeOK /\ PoolInv)
<1>1. Init => TypeOK /\ PoolInv
  <2>1. Init => TypeOK
    BY InitType
  <2>2. Init => PoolInv
    BY DEF Init, PoolInv, Running
  <2>3. QED
    BY <2>1, <2>2
<1>2. TypeOK /\ PoolInv /\ [Next]_vars => (TypeOK /\ PoolInv)'
  BY TypeStep, PoolStep
<1>3. QED
  BY <1>1, <1>2, PTL DEF Spec

(* Every variable keeps its type.                                          *)
THEOREM TypeCorrect == Spec => []TypeOK
  BY PoolCorrect, PTL

(* No two running workers use the same Converter, whatever the number of    *)
(* tasks and threads: process_concurrently() gives a kernel away only after *)
(* the future that used it was ready.                                       *)
THEOREM KernelsAreExclusive == Spec => []KernelExclusive
<1>1. TypeOK /\ PoolInv => KernelExclusive
  <2> SUFFICES ASSUME TypeOK, PoolInv, NEW t \in Tasks, NEW u \in Tasks, Running(t), Running(u)
               PROVE  kernel[t] \in Kernels /\ (kernel[t] = kernel[u] => t = u)
    BY DEF KernelExclusive
  <2>1. \A m, n \in 1..Len(kernel_pool) : kernel_pool[m] = kernel_pool[n] => m = n
    BY DEF PoolInv
  <2>2. Len(threadpool) \in Nat /\ Len(kernel_pool) \in Nat /\ Len(threadpool) <= Len(kernel_pool)
    BY LenProperties DEF TypeOK, PoolInv
  <2> DEFINE Place(v, n) ==
        /\ n \in 1..Len(kernel_pool) /\ kernel[v] = kernel_pool[n]
        /\ IF n <= Len(threadpool) THEN threadpool[n] = v
           ELSE n = Len(threadpool) + 1 /\ v = rep
  <2>3. ASSUME NEW v \in Tasks, Running(v)
        PROVE  \E n \in 1..Len(kernel_pool) : Place(v, n)
    <3>1. CASE \E n \in 1..Len(threadpool) : threadpool[n] = v
      <4>1. PICK n \in 1..Len(threadpool) : threadpool[n] = v
        BY <3>1
      <4>2. Place(v, n) /\ n \in 1..Len(kernel_pool)
        BY <2>2, <4>1 DEF PoolInv
      <4>3. QED
        BY <4>2
    <3>2. CASE pool \in {"launched", "dropping"} /\ v = rep
      <4>1. Place(v, Len(threadpool) + 1) /\ Len(threadpool) + 1 \in 1..Len(kernel_pool)
        BY <2>2, <3>2 DEF PoolInv
      <4>2. QED
        BY <4>1
    <3>3. QED
      BY <2>3, <3>1, <3>2 DEF PoolInv
  <2>4. PICK m \in 1..Len(kernel_pool) : Place(t, m)
    BY <2>3
  <2>5. PICK n \in 1..Len(kernel_pool) : Place(u, n)
    BY <2>3
  <2>6. kernel[t] \in Kernels
    BY <2>4, ElementOfSeq DEF TypeOK
  <2>7. QED
    BY <2>1, <2>2, <2>4, <2>5, <2>6
<1>2. QED
  BY <1>1, PoolCorrect, PTL

(* Storing a result keeps the client's count and cursor within the list.   *)
LEMMA CursorInvCollect ==
  ASSUME TypeOK, CursorInv, NEW t \in Tasks, ProcessFinishedRep(t), UNCHANGED clientVars
  PROVE  CursorInv'
<1>1. /\ Len(elements') = Len(elements) + Len(out[t])
      /\ cursor' = IF cursor = 0 /\ out[t] # <<>> THEN 1 ELSE cursor
  BY ProcessFinishedRepEffect
<1>2. elements' \in Seq(Elements) /\ elements \in Seq(Elements) /\ out[t] \in Seq(Elements)
  BY ProcessFinishedRepType DEF TypeOK
<1>3. /\ elements' = <<>> <=> Len(elements') = 0
      /\ elements = <<>> <=> Len(elements) = 0
      /\ out[t] = <<>> <=> Len(out[t]) = 0
      /\ Len(elements) \in Nat /\ Len(out[t]) \in Nat
  BY <1>2, EmptySeq, LenProperties
<1>4. UNCHANGED <<client, seen, returned, outcome, answer>>
  BY DEF clientVars
<1>5. returned \in Nat /\ seen \in Nat /\ cursor \in Nat
  BY DEF TypeOK
<1>6. QED
  BY <1>1, <1>3, <1>4, <1>5 DEF CursorInv

(* The client's count and cursor stay within the list.                     *)
LEMMA CursorStep == TypeOK /\ PoolInv /\ CursorInv /\ [Next]_vars => CursorInv'
<1> SUFFICES ASSUME TypeOK, PoolInv, CursorInv, [Next]_vars PROVE CursorInv'
  OBVIOUS
<1> USE TasksAssumption
    DEF TypeOK, CursorInv, listVars, flagVars, poolVars, workerVars, clientVars
<1>1. CASE PoolStart
  BY <1>1 DEF PoolStart
<1>2. CASE PoolNextTask
  BY <1>2 DEF PoolNextTask
<1>3. CASE PoolPollBusy
  BY <1>3 DEF PoolPollBusy
<1>4. CASE PoolCollect
  <2>1. threadpool[i] \in Tasks
    BY <1>4, ElementOfSeq DEF PoolCollect, PoolInv
  <2>2. QED
    BY <1>4, <2>1, CursorInvCollect DEF PoolCollect
<1>5. CASE PoolLaunch
  BY <1>5 DEF PoolLaunch
<1>6. CASE PoolKeepFuture
  BY <1>6 DEF PoolKeepFuture
<1>7. CASE PoolBreak
  BY <1>7 DEF PoolBreak
<1>8. CASE PoolDropped
  BY <1>8 DEF PoolDropped
<1>9. CASE PoolLoopDone
  BY <1>9 DEF PoolLoopDone
<1>10. CASE PoolDrain
  BY <1>10, CursorInvCollect DEF PoolDrain
<1>11. CASE PoolFinish
  BY <1>11 DEF PoolFinish
<1>12. ASSUME NEW t \in Tasks, WorkerThrow(t) PROVE CursorInv'
  BY <1>12 DEF WorkerThrow
<1>13. ASSUME NEW t \in Tasks, WorkerReturn(t) PROVE CursorInv'
  BY <1>13 DEF WorkerReturn
<1>14. ASSUME NEW t \in Tasks, WorkerMap(t) PROVE CursorInv'
  BY <1>14 DEF WorkerMap
<1>15. ASSUME NEW t \in Tasks, WorkerElement(t) PROVE CursorInv'
  BY <1>15 DEF WorkerElement
<1>16. ASSUME NEW t \in Tasks, WorkerSkip(t) PROVE CursorInv'
  BY <1>16 DEF WorkerSkip
<1>17. CASE Initialize
  BY <1>17 DEF Initialize
<1>18. CASE InitializeNoTasks
  BY <1>18 DEF InitializeNoTasks
<1>19. CASE CallNext
  BY <1>19 DEF CallNext
<1>20. CASE WaitReadSize
  BY <1>20 DEF WaitReadSize
<1>21. CASE WaitElement
  <2>1. elements # <<>> /\ Len(elements) \in Nat
    BY <1>21, EmptySeq, LenProperties DEF WaitElement
  <2>2. /\ client = "decide" /\ seen > returned /\ returned' = returned + 1 /\ outcome' = "true"
        /\ client' = IF outcome = "unset" THEN "free" ELSE "advance"
        /\ UNCHANGED <<seen, elements, cursor>>
    BY <1>21 DEF WaitElement
  <2>3. CASE outcome = "true"
    BY <2>1, <2>2, <2>3
  <2>4. CASE outcome = "unset"
    BY <2>1, <2>2, <2>4
  <2>5. outcome # "false"
    BY <2>2
  <2>6. QED
    BY <2>3, <2>4, <2>5
<1>22. CASE WaitFinished
  BY <1>22 DEF WaitFinished
<1>23. CASE WaitSleep
  BY <1>23 DEF WaitSleep
<1>24. CASE AdvanceCursor
  BY <1>24 DEF AdvanceCursor
<1>25. CASE Destroy
  BY <1>25 DEF Destroy
<1>26. CASE Free
  BY <1>26 DEF Free
<1>27. CASE UNCHANGED vars
  BY <1>27 DEF vars
<1>28. QED
  BY <1>1, <1>2, <1>3, <1>4, <1>5, <1>6, <1>7, <1>8, <1>9, <1>10, <1>11, <1>12, <1>13, <1>14, <1>15, <1>16, <1>17, <1>18, <1>19, <1>20, <1>21, <1>22, <1>23, <1>24, <1>25, <1>26, <1>27
     DEF Next, Pool, Worker, Client, Waiting, Gone

(* No worker is left when the pool thread ends.                            *)
LEMMA DrainStep == TypeOK /\ PoolInv /\ DrainInv /\ [Next]_vars => DrainInv'
<1> SUFFICES ASSUME TypeOK, PoolInv, DrainInv, [Next]_vars PROVE DrainInv'
  OBVIOUS
<1> USE TasksAssumption
    DEF TypeOK, DrainInv, Running, listVars, flagVars, poolVars, workerVars, clientVars
<1>1. CASE PoolStart
  BY <1>1 DEF PoolStart
<1>2. CASE PoolNextTask
  BY <1>2 DEF PoolNextTask
<1>3. CASE PoolPollBusy
  BY <1>3 DEF PoolPollBusy
<1>4. CASE PoolCollect
  BY <1>4 DEF PoolCollect
<1>5. CASE PoolLaunch
  BY <1>5 DEF PoolLaunch
<1>6. CASE PoolKeepFuture
  BY <1>6 DEF PoolKeepFuture
<1>7. CASE PoolBreak
  BY <1>7 DEF PoolBreak
<1>8. CASE PoolDropped
  BY <1>8 DEF PoolDropped
<1>9. CASE PoolLoopDone
  BY <1>9 DEF PoolLoopDone
<1>10. CASE PoolDrain
  BY <1>10 DEF PoolDrain
<1>11. CASE PoolFinish
  <2>1. /\ pool = "drain" /\ pool' = "ended" /\ i > Len(threadpool)
        /\ UNCHANGED <<threadpool, i, worker, client>>
    BY <1>11 DEF PoolFinish
  <2>2. ASSUME NEW t \in Tasks PROVE ~Running(t)
    <3>1. SUFFICES ASSUME Running(t) PROVE FALSE
      OBVIOUS
    <3>2. PICK n \in 1..Len(threadpool) : threadpool[n] = t
      BY <2>1, <3>1 DEF PoolInv
    <3>3. ~Running(threadpool[n])
      BY <2>1, LenProperties
    <3>4. QED
      BY <3>1, <3>2, <3>3
  <2>3. QED
    BY <2>1, <2>2
<1>12. ASSUME NEW t \in Tasks, WorkerThrow(t) PROVE DrainInv'
  BY <1>12 DEF WorkerThrow
<1>13. ASSUME NEW t \in Tasks, WorkerReturn(t) PROVE DrainInv'
  BY <1>13 DEF WorkerReturn
<1>14. ASSUME NEW t \in Tasks, WorkerMap(t) PROVE DrainInv'
  BY <1>14 DEF WorkerMap
<1>15. ASSUME NEW t \in Tasks, WorkerElement(t) PROVE DrainInv'
  BY <1>15, SMTT(20), ZenonT(20) DEF WorkerElement
<1>16. ASSUME NEW t \in Tasks, WorkerSkip(t) PROVE DrainInv'
  BY <1>16 DEF WorkerSkip
<1>17. CASE Initialize
  BY <1>17 DEF Initialize
<1>18. CASE InitializeNoTasks
  BY <1>18 DEF InitializeNoTasks
<1>19. CASE CallNext
  BY <1>19 DEF CallNext
<1>20. CASE WaitReadSize
  BY <1>20 DEF WaitReadSize
<1>21. CASE WaitElement
  BY <1>21 DEF WaitElement
<1>22. CASE WaitFinished
  BY <1>22 DEF WaitFinished
<1>23. CASE WaitSleep
  BY <1>23 DEF WaitSleep
<1>24. CASE AdvanceCursor
  BY <1>24 DEF AdvanceCursor
<1>25. CASE Destroy
  BY <1>25 DEF Destroy
<1>26. CASE Free
  BY <1>26 DEF Free
<1>27. CASE UNCHANGED vars
  BY <1>27 DEF vars
<1>28. QED
  BY <1>1, <1>2, <1>3, <1>4, <1>5, <1>6, <1>7, <1>8, <1>9, <1>10, <1>11, <1>12, <1>13, <1>14, <1>15, <1>16, <1>17, <1>18, <1>19, <1>20, <1>21, <1>22, <1>23, <1>24, <1>25, <1>26, <1>27
     DEF Next, Pool, Worker, Client, Waiting, Gone

(* The elements of task t, which had none in the list, go to its end.      *)
LEMMA StoredOnce ==
  ASSUME TypeOK, StreamInv, NEW t \in Tasks, t < rep, ProcessFinishedRep(t), rep' = rep
  PROVE  \A n \in 1..Len(elements') :
           /\ elements'[n][1] < rep'
           /\ \/ elements'[n][1] = t
              \/ n \in 1..Len(elements) /\ elements'[n] = elements[n]
<1>1. /\ out[t] \in Seq(Elements) /\ elements \in Seq(Elements)
      /\ Len(out[t]) \in Nat /\ Len(elements) \in Nat
  BY LenProperties DEF TypeOK
<1>2. \A n \in 1..Len(out[t]) : out[t][n][1] = t
  BY DEF StreamInv
<1>3. \A n \in 1..Len(elements) : elements[n][1] < rep
  BY DEF StreamInv
<1>4. /\ Len(elements') = Len(elements) + Len(out[t])
      /\ \A n \in 1..Len(elements) : elements'[n] = elements[n]
      /\ \A n \in Len(elements)+1..Len(elements') : elements'[n] = out[t][n - Len(elements)]
  BY ProcessFinishedRepEffect
<1>5. ASSUME NEW n \in Len(elements)+1..Len(elements')
      PROVE  elements'[n][1] = t
  <2>1. n - Len(elements) \in 1..Len(out[t])
    BY <1>1, <1>4
  <2>2. QED
    BY <1>2, <1>4, <2>1
<1>6. QED
  BY <1>1, <1>3, <1>4, <1>5

LEMMA StreamInvCollect ==
  ASSUME TypeOK, PoolInv, StreamInv, PoolCollect
  PROVE  StreamInv'
<1>1. /\ threadpool \in Seq(Tasks) /\ i \in 1..Len(threadpool)
      /\ pool = "poll" /\ pool' = "launch"
      /\ threadpool' = SwapPop(threadpool, i)
      /\ ProcessFinishedRep(threadpool[i])
      /\ UNCHANGED <<rep, out, at, finished_>>
  BY DEF TypeOK, PoolInv, PoolCollect, flagVars, workerVars
<1>2. threadpool[i] \in Tasks /\ threadpool[i] < rep
  BY <1>1, ElementOfSeq DEF PoolInv
<1>3. ASSUME NEW n \in 1..Len(elements')
      PROVE  /\ elements'[n][1] < rep'
             /\ \A m \in 1..Len(threadpool') : threadpool'[m] # elements'[n][1]
  <2>1. /\ elements'[n][1] < rep'
        /\ \/ elements'[n][1] = threadpool[i]
           \/ n \in 1..Len(elements) /\ elements'[n] = elements[n]
    BY <1>1, <1>2, StoredOnce
  <2>2. ASSUME NEW m \in 1..Len(threadpool')
        PROVE  threadpool'[m] # elements'[n][1]
    <3>1. PICK l \in 1..Len(threadpool) : l # i /\ threadpool[l] = threadpool'[m]
      BY <1>1, SwapPopKeeps
    <3>2. threadpool[l] # threadpool[i]
      BY <1>1, <3>1 DEF PoolInv
    <3>3. \A k \in 1..Len(elements) : threadpool[l] # elements[k][1]
      BY <1>1 DEF StreamInv
    <3>4. QED
      BY <2>1, <3>1, <3>2, <3>3
  <2>3. QED
    BY <2>1, <2>2
<1>4. QED
  BY <1>1, <1>3 DEF StreamInv

LEMMA StreamInvDrain ==
  ASSUME TypeOK, PoolInv, StreamInv, PoolDrain
  PROVE  StreamInv'
<1>1. /\ threadpool \in Seq(Tasks) /\ i \in 1..Len(threadpool)
      /\ pool = "drain" /\ i' = i + 1
      /\ ProcessFinishedRep(threadpool[i])
      /\ UNCHANGED <<pool, rep, out, at, finished_, threadpool>>
  BY DEF TypeOK, PoolDrain, flagVars, workerVars
<1>2. threadpool[i] \in Tasks /\ threadpool[i] < rep
  BY <1>1, ElementOfSeq DEF PoolInv
<1>3. ASSUME NEW n \in 1..Len(elements')
      PROVE  /\ elements'[n][1] < rep'
             /\ \A m \in 1..Len(threadpool) : threadpool[m] = elements'[n][1] => m < i'
  <2>1. /\ elements'[n][1] < rep'
        /\ \/ elements'[n][1] = threadpool[i]
           \/ n \in 1..Len(elements) /\ elements'[n] = elements[n]
    BY <1>1, <1>2, StoredOnce
  <2>2. \A m \in 1..Len(threadpool) : threadpool[m] = threadpool[i] => m = i
    BY <1>1 DEF PoolInv
  <2>3. \A k \in 1..Len(elements) : \A m \in 1..Len(threadpool) :
          threadpool[m] = elements[k][1] => m < i
    BY <1>1 DEF StreamInv
  <2>4. QED
    BY <1>1, <2>1, <2>2, <2>3, SMTT(20)
<1>4. QED
  BY <1>1, <1>3 DEF StreamInv

LEMMA StreamInvKeepFuture ==
  ASSUME TypeOK, PoolInv, StreamInv, PoolKeepFuture
  PROVE  StreamInv'
<1>1. /\ pool = "launched" /\ pool' = "loop" /\ rep \in Tasks /\ rep' = rep + 1
      /\ threadpool \in Seq(Tasks) /\ Len(threadpool) \in Nat
      /\ threadpool' = Append(threadpool, rep)
      /\ UNCHANGED <<elements, out, at, finished_>>
  BY TasksAssumption DEF PoolKeepFuture, TypeOK, PoolInv, Tasks, listVars, flagVars, workerVars
<1>2. /\ Len(threadpool') = Len(threadpool) + 1
      /\ threadpool'[Len(threadpool) + 1] = rep
      /\ \A n \in 1..Len(threadpool) : threadpool'[n] = threadpool[n]
  BY <1>1, AppendProperties
<1>3. ASSUME NEW n \in 1..Len(elements)
      PROVE  /\ elements[n][1] < rep'
             /\ \A m \in 1..Len(threadpool') : threadpool'[m] # elements[n][1]
  <2>1. elements[n][1] \in Nat
    <3>1. elements \in Seq(Elements)
      BY DEF TypeOK
    <3>2. elements[n] \in Elements
      BY <3>1, ElementOfSeq
    <3>3. QED
      BY <3>2, TasksAssumption DEF Elements, Tasks
  <2>2. elements[n][1] < rep
    BY DEF StreamInv
  <2>3. \A m \in 1..Len(threadpool) : threadpool[m] # elements[n][1]
    BY <1>1 DEF StreamInv
  <2>4. QED
    BY <1>1, <1>2, <2>1, <2>2, <2>3 DEF Tasks
<1>4. QED
  BY <1>1, <1>3 DEF StreamInv

LEMMA StreamInvElement ==
  ASSUME TypeOK, StreamInv, NEW t \in Tasks, WorkerElement(t)
  PROVE  StreamInv'
<1>1. /\ out[t] \in Seq(Elements) /\ at[t] \in Nat
      /\ <<t, at[t]>> \in Elements
      /\ out' = [out EXCEPT ![t] = Append(out[t], <<t, at[t]>>)]
      /\ at' = [at EXCEPT ![t] = at[t] + 1]
      /\ UNCHANGED <<elements, rep, threadpool, pool, i, finished_>>
  BY DEF WorkerElement, TypeOK, Elements, listVars, flagVars, poolVars
<1>2. /\ Len(out[t]) \in Nat
      /\ Len(Append(out[t], <<t, at[t]>>)) = Len(out[t]) + 1
      /\ Append(out[t], <<t, at[t]>>)[Len(out[t]) + 1] = <<t, at[t]>>
      /\ \A n \in 1..Len(out[t]) : Append(out[t], <<t, at[t]>>)[n] = out[t][n]
  BY <1>1, AppendProperties, LenProperties
<1>3. out'[t] = Append(out[t], <<t, at[t]>>) /\ at'[t] = at[t] + 1
  BY <1>1 DEF TypeOK
<1>4. \A n \in 1..Len(out[t]) :
        /\ out[t][n][1] = t /\ out[t][n][2] < at[t] /\ out[t][n][2] \in Nat
        /\ \A m \in 1..Len(out[t]) : m < n => out[t][m][2] < out[t][n][2]
  <2>1. \A n \in 1..Len(out[t]) : out[t][n][2] \in Nat
    BY <1>1, ElementOfSeq, SMTT(20) DEF Elements
  <2>2. QED
    BY <2>1 DEF StreamInv
<1>5. \A n \in 1..Len(out'[t]) :
        /\ out'[t][n][1] = t /\ out'[t][n][2] < at'[t]
        /\ \A m \in 1..Len(out'[t]) : m < n => out'[t][m][2] < out'[t][n][2]
  BY <1>1, <1>2, <1>3, <1>4
<1>6. \A u \in Tasks : u # t => out'[u] = out[u] /\ at'[u] = at[u]
  BY <1>1 DEF TypeOK
<1>7. QED
  BY <1>1, <1>5, <1>6, SMTT(20) DEF StreamInv

(* Tasks are stored once and elements stay in product order.               *)
LEMMA StreamStep == TypeOK /\ PoolInv /\ StreamInv /\ [Next]_vars => StreamInv'
<1> SUFFICES ASSUME TypeOK, PoolInv, StreamInv, [Next]_vars PROVE StreamInv'
  OBVIOUS
<1> USE TasksAssumption
    DEF TypeOK, StreamInv, listVars, flagVars, poolVars, workerVars, clientVars
<1>1. CASE PoolStart
  BY <1>1 DEF PoolStart
<1>2. CASE PoolNextTask
  BY <1>2 DEF PoolNextTask
<1>3. CASE PoolPollBusy
  BY <1>3 DEF PoolPollBusy
<1>4. CASE PoolCollect
  BY <1>4, StreamInvCollect
<1>5. CASE PoolLaunch
  BY <1>5 DEF PoolLaunch
<1>6. CASE PoolKeepFuture
  BY <1>6, StreamInvKeepFuture
<1>7. CASE PoolBreak
  BY <1>7 DEF PoolBreak
<1>8. CASE PoolDropped
  BY <1>8 DEF PoolDropped
<1>9. CASE PoolLoopDone
  BY <1>9 DEF PoolLoopDone
<1>10. CASE PoolDrain
  BY <1>10, StreamInvDrain
<1>11. CASE PoolFinish
  BY <1>11 DEF PoolFinish
<1>12. ASSUME NEW t \in Tasks, WorkerThrow(t) PROVE StreamInv'
  BY <1>12 DEF WorkerThrow
<1>13. ASSUME NEW t \in Tasks, WorkerReturn(t) PROVE StreamInv'
  BY <1>13 DEF WorkerReturn
<1>14. ASSUME NEW t \in Tasks, WorkerMap(t) PROVE StreamInv'
  BY <1>14 DEF WorkerMap
<1>15. ASSUME NEW t \in Tasks, WorkerElement(t) PROVE StreamInv'
  BY <1>15, StreamInvElement
<1>16. ASSUME NEW t \in Tasks, WorkerSkip(t) PROVE StreamInv'
  <2>1. /\ at' = [at EXCEPT ![t] = @ + 1]
        /\ UNCHANGED <<out, elements, rep, threadpool, pool, i, finished_>>
    BY <1>16 DEF WorkerSkip
  <2>2. \A u \in Tasks : at'[u] >= at[u] /\ at[u] \in Nat /\ at'[u] \in Nat
    BY <2>1
  <2>3. \A u \in Tasks : \A n \in 1..Len(out[u]) : out[u][n][2] \in Nat
    BY ElementOfSeq, SMTT(20) DEF Elements
  <2>4. ASSUME NEW u \in Tasks, NEW n \in 1..Len(out[u])
        PROVE  out[u][n][2] < at'[u]
    <3>1. out[u][n][2] < at[u]
      BY DEF StreamInv
    <3>2. QED
      BY ONLY <2>2, <2>3, <3>1
  <2>5. QED
    BY <2>1, <2>4
<1>17. CASE Initialize
  BY <1>17 DEF Initialize, PoolInv
<1>18. CASE InitializeNoTasks
  BY <1>18 DEF InitializeNoTasks
<1>19. CASE CallNext
  BY <1>19 DEF CallNext
<1>20. CASE WaitReadSize
  BY <1>20 DEF WaitReadSize
<1>21. CASE WaitElement
  BY <1>21 DEF WaitElement
<1>22. CASE WaitFinished
  BY <1>22 DEF WaitFinished
<1>23. CASE WaitSleep
  BY <1>23 DEF WaitSleep
<1>24. CASE AdvanceCursor
  BY <1>24 DEF AdvanceCursor
<1>25. CASE Destroy
  BY <1>25 DEF Destroy
<1>26. CASE Free
  BY <1>26 DEF Free
<1>27. CASE UNCHANGED vars
  BY <1>27 DEF vars
<1>28. QED
  BY <1>1, <1>2, <1>3, <1>4, <1>5, <1>6, <1>7, <1>8, <1>9, <1>10, <1>11, <1>12, <1>13, <1>14, <1>15, <1>16, <1>17, <1>18, <1>19, <1>20, <1>21, <1>22, <1>23, <1>24, <1>25, <1>26, <1>27
     DEF Next, Pool, Worker, Client, Waiting, Gone

(* What was delivered stays delivered: the list only grows, and a worker    *)
(* that is done does not run again.                                        *)
LEMMA DeliveredStays ==
  ASSUME NEW t \in Tasks, Delivered(t), worker'[t] = worker[t], out'[t] = out[t],
         Len(elements) \in Nat, Len(elements') \in Nat, Len(elements) <= Len(elements'),
         \A n \in 1..Len(elements) : elements'[n] = elements[n]
  PROVE  Delivered(t)'
<1>1. \A n \in 1..Len(out[t]) : \E m \in 1..Len(elements') : elements'[m] = out[t][n]
  <2> SUFFICES ASSUME NEW n \in 1..Len(out[t])
               PROVE  \E m \in 1..Len(elements') : elements'[m] = out[t][n]
    OBVIOUS
  <2>1. PICK m \in 1..Len(elements) : elements[m] = out[t][n]
    BY DEF Delivered
  <2>2. m \in 1..Len(elements') /\ elements'[m] = out[t][n]
    BY <2>1
  <2>3. QED
    BY <2>2
<1>2. QED
  BY <1>1 DEF Delivered

(* Storing the result of a finished task delivers it and takes nothing      *)
(* from the others.                                                        *)
LEMMA StoringDelivers ==
  ASSUME TypeOK, NEW t \in Tasks, ProcessFinishedRep(t), worker[t] = "ready",
         UNCHANGED <<worker, out>>
  PROVE  /\ Delivered(t)'
         /\ \A u \in Tasks : Delivered(u) => Delivered(u)'
<1>1. /\ out[t] \in Seq(Elements) /\ elements \in Seq(Elements) /\ elements' \in Seq(Elements)
      /\ Len(out[t]) \in Nat /\ Len(elements) \in Nat /\ Len(elements') \in Nat
  BY ProcessFinishedRepType, LenProperties DEF TypeOK
<1>2. /\ Len(elements') = Len(elements) + Len(out[t])
      /\ \A n \in 1..Len(elements) : elements'[n] = elements[n]
      /\ \A n \in Len(elements)+1..Len(elements') :
           elements'[n] = out[t][n - Len(elements)]
  BY ProcessFinishedRepEffect
<1>3. ASSUME NEW n \in 1..Len(out[t])
      PROVE  \E m \in 1..Len(elements') : elements'[m] = out[t][n]
  <2>1. /\ Len(elements) + n \in Len(elements)+1..Len(elements')
        /\ Len(elements) + n \in 1..Len(elements')
        /\ (Len(elements) + n) - Len(elements) = n
    BY <1>1, <1>2
  <2>2. elements'[Len(elements) + n] = out[t][n]
    BY <1>2, <2>1
  <2>3. QED
    BY <2>1, <2>2
<1>4. Delivered(t)'
  BY <1>3 DEF Delivered
<1>5. ASSUME NEW u \in Tasks, Delivered(u)
      PROVE  Delivered(u)'
  BY <1>1, <1>2, <1>5, DeliveredStays
<1>6. QED
  BY <1>4, <1>5

(* Collecting future i: its task is delivered, the others are where they were. *)
LEMMA DeliveryCollect ==
  ASSUME TypeOK, PoolInv, DeliveryInv, PoolCollect
  PROVE  DeliveryInv'
<1>1. /\ threadpool \in Seq(Tasks) /\ i \in 1..Len(threadpool) /\ threadpool[i] \in Tasks
      /\ pool = "poll" /\ pool' = "launch"
      /\ threadpool' = SwapPop(threadpool, i)
      /\ ProcessFinishedRep(threadpool[i]) /\ worker[threadpool[i]] = "ready"
      /\ UNCHANGED <<rep, worker, out>>
  BY ElementOfSeq DEF TypeOK, PoolInv, PoolCollect, flagVars, workerVars
<1>2. \A t \in Tasks : t = threadpool[i] \/ Delivered(t) => Delivered(t)'
  <2>1. PICK u \in Tasks : u = threadpool[i]
    BY <1>1
  <2>2. /\ Delivered(u)'
        /\ \A t \in Tasks : Delivered(t) => Delivered(t)'
    BY <1>1, <2>1, StoringDelivers
  <2>3. QED
    BY <2>1, <2>2
<1>3. ASSUME NEW t \in Tasks, t < rep
      PROVE  Awaited(t)' \/ Delivered(t)'
  <2>1. CASE Delivered(t)
    BY <1>2, <2>1
  <2>2. CASE t = threadpool[i]
    BY <1>2, <2>2
  <2>3. CASE Awaited(t) /\ t # threadpool[i]
    <3>1. PICK m \in 1..Len(threadpool) : threadpool[m] = t
      BY <2>3 DEF Awaited
    <3>2. m # i
      BY <2>3, <3>1
    <3>3. \E n \in 1..Len(threadpool') : threadpool'[n] = t
      BY <1>1, <3>1, <3>2, SwapPopKeeps
    <3>4. QED
      BY <1>1, <3>3 DEF Awaited
  <2>4. QED
    BY <1>3, <2>1, <2>2, <2>3 DEF DeliveryInv
<1>4. QED
  BY <1>1, <1>3 DEF DeliveryInv

LEMMA DeliveryDrain ==
  ASSUME TypeOK, PoolInv, DeliveryInv, PoolDrain
  PROVE  DeliveryInv'
<1>1. /\ threadpool \in Seq(Tasks) /\ i \in 1..Len(threadpool) /\ threadpool[i] \in Tasks
      /\ Len(threadpool) \in Nat
      /\ pool = "drain" /\ pool' = "drain" /\ i' = i + 1
      /\ ProcessFinishedRep(threadpool[i]) /\ worker[threadpool[i]] = "ready"
      /\ UNCHANGED <<total, rep, worker, out, threadpool, terminating_>>
  BY ElementOfSeq, LenProperties DEF TypeOK, PoolDrain, flagVars, workerVars
<1>2. \A t \in Tasks : t = threadpool[i] \/ Delivered(t) => Delivered(t)'
  <2>1. PICK u \in Tasks : u = threadpool[i]
    BY <1>1
  <2>2. /\ Delivered(u)'
        /\ \A t \in Tasks : Delivered(t) => Delivered(t)'
    BY <1>1, <2>1, StoringDelivers
  <2>3. QED
    BY <2>1, <2>2
<1>3. ASSUME NEW t \in Tasks, t < rep
      PROVE  Awaited(t)' \/ Delivered(t)'
  <2>1. CASE Delivered(t)
    BY <1>2, <2>1
  <2>2. CASE Awaited(t)
    <3>1. PICK n \in 1..Len(threadpool) : threadpool[n] = t /\ i <= n
      BY <1>1, <2>2 DEF Awaited
    <3>2. CASE n = i
      BY <1>2, <3>1, <3>2
    <3>3. CASE n # i
      <4>1. i' <= n
        BY <1>1, <3>1, <3>3
      <4>2. QED
        BY <1>1, <3>1, <4>1 DEF Awaited
    <3>4. QED
      BY <3>2, <3>3
  <2>3. QED
    BY <1>3, <2>1, <2>2 DEF DeliveryInv
<1>4. QED
  BY <1>1, <1>3 DEF DeliveryInv

LEMMA DeliveryKeepFuture ==
  ASSUME TypeOK, DeliveryInv, PoolKeepFuture
  PROVE  DeliveryInv'
<1>1. /\ pool = "launched" /\ pool' = "loop" /\ rep \in Nat /\ rep' = rep + 1
      /\ threadpool \in Seq(Tasks) /\ Len(threadpool) \in Nat
      /\ threadpool' = Append(threadpool, rep)
      /\ UNCHANGED <<elements, worker, out>>
  BY LenProperties DEF PoolKeepFuture, TypeOK, listVars, workerVars
<1>2. /\ Len(threadpool') = Len(threadpool) + 1
      /\ threadpool'[Len(threadpool) + 1] = rep
      /\ \A n \in 1..Len(threadpool) : threadpool'[n] = threadpool[n]
  BY <1>1, AppendProperties
<1>3. ASSUME NEW t \in Tasks, t < rep'
      PROVE  Awaited(t)' \/ Delivered(t)'
  <2>1. CASE t = rep
    <3>1. Len(threadpool) + 1 \in 1..Len(threadpool')
      BY <1>1, <1>2
    <3>2. QED
      BY <1>1, <1>2, <2>1, <3>1 DEF Awaited
  <2>2. CASE t < rep /\ Awaited(t)
    <3>1. PICK n \in 1..Len(threadpool) : threadpool[n] = t
      BY <2>2 DEF Awaited
    <3>2. n \in 1..Len(threadpool') /\ threadpool'[n] = t
      BY <1>1, <1>2, <3>1
    <3>3. QED
      BY <1>1, <3>2 DEF Awaited
  <2>3. CASE t < rep /\ Delivered(t)
    BY <1>1, <2>3 DEF Delivered
  <2>4. t = rep \/ t < rep
    BY <1>1, <1>3 DEF Tasks
  <2>5. QED
    BY <2>1, <2>2, <2>3, <2>4 DEF DeliveryInv
<1>4. \A t \in Tasks : t > rep' \/ t = rep' => t > rep
  BY <1>1 DEF Tasks
<1>5. QED
  BY <1>1, <1>3, <1>4 DEF DeliveryInv

(* A running worker changes only its own result, which is not delivered yet. *)
LEMMA DeliveryWorker ==
  ASSUME TypeOK, DeliveryInv, NEW t \in Tasks, Running(t),
         NEW s, worker' = [worker EXCEPT ![t] = s],
         \A u \in Tasks : u # t => out'[u] = out[u],
         UNCHANGED <<total, listVars, poolVars, terminating_>>
  PROVE  DeliveryInv'
<1>1. UNCHANGED <<total, elements, pool, rep, threadpool, i, terminating_>>
  BY DEF listVars, poolVars
<1>2. \A u \in Tasks : u # t => worker'[u] = worker[u] /\ out'[u] = out[u]
  BY DEF TypeOK
<1>3. worker[t] # "idle" /\ worker[t] # "ready"
  BY DEF Running
<1>4. \A u \in Tasks : (Awaited(u)' <=> Awaited(u)) /\ (Delivered(u) => Delivered(u)')
  BY <1>1, <1>2, <1>3 DEF Awaited, Delivered
<1>5. QED
  BY <1>1, <1>2, <1>3, <1>4 DEF DeliveryInv

(* Every other step leaves results, list and futures alone.                *)
LEMMA DeliveryFrame ==
  ASSUME DeliveryInv, UNCHANGED <<total, elements, threadpool, rep, worker, out>>,
         terminating_ => terminating_',
         \/ UNCHANGED <<pool, i>>
         \/ pool \notin {"drain", "ended"} /\ pool' \in {"start", "loop", "poll", "launch"}
            /\ pool \in {"unborn", "start", "loop", "poll"}
  PROVE  DeliveryInv'
<1>1. \A u \in Tasks : (Awaited(u) => Awaited(u)') /\ (Delivered(u) => Delivered(u)')
  BY DEF Awaited, Delivered
<1>2. QED
  BY <1>1 DEF DeliveryInv

(* No task is left out, whatever the order in which workers finish.        *)
LEMMA DeliveryStep == TypeOK /\ PoolInv /\ DeliveryInv /\ [Next]_vars => DeliveryInv'
<1> SUFFICES ASSUME TypeOK, PoolInv, DeliveryInv, [Next]_vars PROVE DeliveryInv'
  OBVIOUS
<1> USE DEF listVars, flagVars, poolVars, workerVars, clientVars
<1>1. CASE PoolStart
  BY <1>1, DeliveryFrame DEF PoolStart
<1>2. CASE PoolNextTask
  BY <1>2, DeliveryFrame DEF PoolNextTask
<1>3. CASE PoolPollBusy
  BY <1>3, DeliveryFrame DEF PoolPollBusy
<1>4. CASE PoolCollect
  BY <1>4, DeliveryCollect
<1>5. CASE PoolLaunch
  <2>1. /\ pool = "launch" /\ pool' = "launched" /\ rep \in Nat
        /\ worker' = [worker EXCEPT ![rep] = "map"]
        /\ UNCHANGED <<rep, threadpool, elements, out>>
    BY <1>5 DEF PoolLaunch, TypeOK
  <2>2. \A t \in Tasks : t # rep => worker'[t] = worker[t]
    BY <2>1 DEF TypeOK
  <2>3. \A t \in Tasks : t < rep \/ t > rep => t # rep
    BY <2>1 DEF Tasks
  <2>4. \A t \in Tasks : t < rep =>
          (Awaited(t) => Awaited(t)') /\ (Delivered(t) => Delivered(t)')
    BY <2>1, <2>2, <2>3 DEF Awaited, Delivered
  <2>5. QED
    BY <2>1, <2>2, <2>3, <2>4 DEF DeliveryInv
<1>6. CASE PoolKeepFuture
  BY <1>6, DeliveryKeepFuture
<1>7. CASE PoolBreak
  <2>1. /\ pool = "launched" /\ pool' = "dropping" /\ terminating_ /\ terminating_'
        /\ UNCHANGED <<rep, threadpool, elements, worker, out>>
    BY <1>7 DEF PoolBreak
  <2>2. \A t \in Tasks : (Awaited(t) => Awaited(t)') /\ (Delivered(t) => Delivered(t)')
    BY <2>1 DEF Awaited, Delivered
  <2>3. QED
    BY <2>1, <2>2 DEF DeliveryInv
<1>8. CASE PoolDropped \/ PoolLoopDone
  <2>1. /\ pool \in {"dropping", "loop"} /\ pool' = "drain" /\ i' = 1
        /\ terminating_' \/ rep > total
        /\ UNCHANGED <<total, rep, threadpool, elements, worker, out>>
    BY <1>8 DEF PoolDropped, PoolLoopDone, DeliveryInv
  <2>2. \A t \in Tasks : (Awaited(t) => Awaited(t)') /\ (Delivered(t) => Delivered(t)')
    BY <2>1 DEF Awaited, Delivered
  <2>3. QED
    BY <2>1, <2>2 DEF DeliveryInv
<1>10. CASE PoolDrain
  BY <1>10, DeliveryDrain
<1>11. CASE PoolFinish
  <2>1. /\ pool = "drain" /\ pool' = "ended" /\ i > Len(threadpool)
        /\ UNCHANGED <<total, rep, threadpool, i, elements, worker, out, terminating_>>
    BY <1>11 DEF PoolFinish
  <2>2. \A t \in Tasks : (Awaited(t) => Awaited(t)') /\ (Delivered(t) => Delivered(t)')
    BY <2>1 DEF Awaited, Delivered
  <2>3. QED
    BY <2>1, <2>2 DEF DeliveryInv
<1>12. ASSUME NEW t \in Tasks, WorkerThrow(t) PROVE DeliveryInv'
  BY <1>12, DeliveryWorker DEF WorkerThrow, Running
<1>13. ASSUME NEW t \in Tasks, WorkerReturn(t) PROVE DeliveryInv'
  BY <1>13, DeliveryWorker DEF WorkerReturn, Running
<1>14. ASSUME NEW t \in Tasks, WorkerMap(t) PROVE DeliveryInv'
  BY <1>14, DeliveryWorker DEF WorkerMap, Running
<1>15. ASSUME NEW t \in Tasks, WorkerElement(t) PROVE DeliveryInv'
  <2>1. \A u \in Tasks : u # t => out'[u] = out[u]
    BY <1>15 DEF WorkerElement, TypeOK
  <2>2. QED
    BY <1>15, <2>1, DeliveryWorker DEF WorkerElement, Running
<1>16. ASSUME NEW t \in Tasks, WorkerSkip(t) PROVE DeliveryInv'
  BY <1>16, DeliveryFrame DEF WorkerSkip
<1>17. CASE Initialize
  <2>1. /\ pool = "unborn" /\ pool' = "start"
        /\ UNCHANGED <<rep, threadpool, elements, worker, out>>
    BY <1>17 DEF Initialize, PoolInv
  <2>2. \A t \in Tasks : (Awaited(t) => Awaited(t)') /\ (Delivered(t) => Delivered(t)')
    BY <2>1 DEF Awaited, Delivered
  <2>3. QED
    BY <2>1, <2>2 DEF DeliveryInv
<1>18. CASE InitializeNoTasks \/ CallNext \/ WaitReadSize \/ WaitElement \/ WaitFinished
            \/ WaitSleep \/ AdvanceCursor \/ Destroy \/ Free
  BY <1>18, DeliveryFrame
     DEF InitializeNoTasks, CallNext, WaitReadSize, WaitElement, WaitFinished,
         WaitSleep, AdvanceCursor, Destroy, Free
<1>27. CASE UNCHANGED vars
  BY <1>27, DeliveryFrame DEF vars
<1>28. QED
  BY <1>1, <1>2, <1>3, <1>4, <1>5, <1>6, <1>7, <1>8, <1>10, <1>11, <1>12, <1>13, <1>14, <1>15, <1>16, <1>17, <1>18, <1>27
     DEF Next, Pool, Worker, Client, Waiting, Gone

(* All parts of the inductive invariant hold together.                     *)
LEMMA InvariantHolds == Spec => []IInv
<1>1. Init => IInv
  <2> SUFFICES ASSUME Init PROVE IInv
    OBVIOUS
  <2>1. TypeOK
    BY InitType
  <2>2. PoolInv /\ DrainInv
    BY DEF Init, PoolInv, DrainInv, Running
  <2>3. CursorInv /\ StreamInv /\ DeliveryInv
    BY DEF Init, CursorInv, StreamInv, DeliveryInv, Tasks
  <2>4. QED
    BY <2>1, <2>2, <2>3 DEF IInv
<1>2. IInv /\ [Next]_vars => IInv'
  BY TypeStep, PoolStep, CursorStep, DrainStep, StreamStep, DeliveryStep DEF IInv
<1>3. QED
  BY <1>1, <1>2, PTL DEF Spec

(* The client never walks past the elements it has seen inserted, so the   *)
(* unlocked use of the list cursors is free of races.                      *)
THEOREM CursorIsObserved == Spec => []CursorObserved
<1>1. IInv => CursorObserved
  BY DEF IInv, TypeOK, CursorInv, CursorObserved
<1>2. QED
  BY <1>1, InvariantHolds, PTL

(* No thread uses a kernel or an element after ~Iterator() has freed it.    *)
THEOREM FreedIsQuiet == Spec => []FreedQuiet
<1>1. IInv => FreedQuiet
  BY DEF IInv, PoolInv, DrainInv, FreedQuiet
<1>2. QED
  BY <1>1, InvariantHolds, PTL

(* When the pool thread has finished, no element of a task it launched is    *)
(* missing from the list, for any number of threads.                       *)
THEOREM EverythingIsDelivered == Spec => []AllDelivered
<1>1. TypeOK /\ StreamInv /\ DeliveryInv => AllDelivered
  <2> SUFFICES ASSUME TypeOK, StreamInv, DeliveryInv, finished_
               PROVE  /\ ~terminating_ => rep > total
                      /\ \A t \in Tasks \ {rep} : \A n \in 1..Len(out[t]) :
                           \E m \in 1..Len(elements) : elements[m] = out[t][n]
    BY DEF AllDelivered
  <2>1. pool = "ended" /\ i > Len(threadpool) /\ (terminating_ \/ rep > total)
    BY DEF StreamInv, DeliveryInv
  <2>2. ASSUME NEW t \in Tasks \ {rep}, NEW n \in 1..Len(out[t])
        PROVE  \E m \in 1..Len(elements) : elements[m] = out[t][n]
    <3>1. CASE t > rep
      <4>1. out[t] = <<>>
        BY <3>1 DEF DeliveryInv
      <4>2. QED
        BY <4>1
    <3>2. CASE t < rep
      <4>1. ~Awaited(t)
        BY <2>1, LenProperties DEF Awaited, TypeOK
      <4>2. Delivered(t)
        BY <3>2, <4>1 DEF DeliveryInv
      <4>3. QED
        BY <4>2 DEF Delivered
    <3>3. t > rep \/ t < rep
      BY DEF TypeOK, Tasks
    <3>4. QED
      BY <3>1, <3>2, <3>3
  <2>3. QED
    BY <2>1, <2>2
<1>2. IInv => AllDelivered
  BY <1>1 DEF IInv
<1>3. QED
  BY <1>2, InvariantHolds, PTL

(* The tasks that have elements in the list.                               *)
Published == {elements[n][1] : n \in 1..Len(elements)}

LEMMA PublishedFinite == TypeOK => IsFiniteSet(Published)
<1> SUFFICES ASSUME TypeOK PROVE IsFiniteSet(Published)
  OBVIOUS
<1>1. IsFiniteSet(Tasks)
  BY TasksAssumption, FS_Interval DEF Tasks
<1>2. Published \subseteq Tasks
  <2>1. \A n \in 1..Len(elements) : elements[n] \in Elements
    BY ElementOfSeq DEF TypeOK
  <2>2. QED
    BY <2>1 DEF Published, Elements
<1>3. QED
  BY <1>1, <1>2, FS_Subset

(* Storing a result counts its task if it had an element, and not twice.    *)
LEMMA StoringCounts ==
  ASSUME TypeOK, StreamInv, NEW t \in Tasks, ProcessFinishedRep(t),
         \A n \in 1..Len(elements) : elements[n][1] # t,
         ProgressCounts
  PROVE  ProgressCounts'
<1>1. /\ out[t] \in Seq(Elements) /\ elements \in Seq(Elements) /\ processed_ \in Nat
      /\ Len(out[t]) \in Nat /\ Len(elements) \in Nat
  BY LenProperties DEF TypeOK
<1>2. processed_ = Cardinality(Published)
  BY DEF ProgressCounts, Published
<1>3. CASE out[t] = <<>>
  BY <1>3 DEF ProcessFinishedRep, listVars, ProgressCounts
<1>4. CASE out[t] # <<>>
  <2>1. Len(out[t]) > 0
    BY <1>1, <1>4, EmptySeq
  <2>2. /\ Len(elements') = Len(elements) + Len(out[t])
        /\ \A n \in 1..Len(elements) : elements'[n] = elements[n]
        /\ \A n \in Len(elements)+1..Len(elements') :
             elements'[n] = out[t][n - Len(elements)]
    BY ProcessFinishedRepEffect
  <2>3. \A n \in 1..Len(out[t]) : out[t][n][1] = t
    BY DEF StreamInv
  <2>4. \A n \in Len(elements)+1..Len(elements') : elements'[n][1] = t
    <3>1. \A n \in Len(elements)+1..Len(elements') : n - Len(elements) \in 1..Len(out[t])
      BY <1>1, <2>2
    <3>2. QED
      BY <2>2, <2>3, <3>1
  <2>5. Published' = Published \cup {t}
    <3>1. ASSUME NEW x \in Published' PROVE x \in Published \cup {t}
      <4>1. PICK n \in 1..Len(elements') : x = elements'[n][1]
        BY <3>1 DEF Published
      <4>2. n \in 1..Len(elements) \/ n \in Len(elements)+1..Len(elements')
        BY <1>1, <2>2
      <4>3. QED
        BY <2>2, <2>4, <4>1, <4>2 DEF Published
    <3>2. ASSUME NEW x \in Published PROVE x \in Published'
      <4>1. PICK n \in 1..Len(elements) : x = elements[n][1]
        BY <3>2 DEF Published
      <4>2. n \in 1..Len(elements') /\ x = elements'[n][1]
        BY <1>1, <2>2, <4>1
      <4>3. QED
        BY <4>2 DEF Published
    <3>3. t \in Published'
      <4>1. Len(elements) + 1 \in 1..Len(elements') /\ Len(elements) + 1 \in Len(elements)+1..Len(elements')
        BY <1>1, <2>1, <2>2
      <4>2. elements'[Len(elements) + 1][1] = t
        BY <2>4, <4>1
      <4>3. QED
        BY <4>1, <4>2 DEF Published
    <3>4. QED
      BY <3>1, <3>2, <3>3
  <2>6. t \notin Published
    BY DEF Published
  <2>7. Cardinality(Published \cup {t}) = Cardinality(Published) + 1
    BY <2>6, PublishedFinite, FS_AddElement
  <2>8. processed_' = processed_ + 1
    BY <1>4 DEF ProcessFinishedRep
  <2>9. processed_' = Cardinality(Published')
    BY <1>2, <2>5, <2>7, <2>8
  <2>10. QED
    BY <2>9 DEF ProgressCounts, Published
<1>5. QED
  BY <1>3, <1>4

(* progress() never exceeds 100: processed_ is the number of tasks that      *)
(* have elements in the list, however the workers' ends interleave.         *)
THEOREM ProgressIsExact == Spec => []ProgressCounts
<1>1. Init => ProgressCounts
  <2>1. Init => Published = {}
    BY DEF Init, Published
  <2>2. QED
    BY <2>1, FS_EmptySet DEF Init, ProgressCounts, Published
<1>2. ProgressCounts /\ IInv /\ [Next]_vars => ProgressCounts'
  <2> SUFFICES ASSUME ProgressCounts, TypeOK, PoolInv, StreamInv, [Next]_vars
               PROVE  ProgressCounts'
    BY DEF IInv
  <2>1. CASE UNCHANGED <<elements, processed_>>
    BY <2>1 DEF ProgressCounts
  <2>2. CASE PoolCollect
    <3>1. /\ i \in 1..Len(threadpool) /\ pool = "poll" /\ threadpool[i] \in Tasks
          /\ ProcessFinishedRep(threadpool[i])
      BY <2>2, ElementOfSeq DEF PoolCollect, TypeOK, PoolInv
    <3>2. \A n \in 1..Len(elements) : elements[n][1] # threadpool[i]
      BY <3>1 DEF StreamInv
    <3>3. QED
      BY <3>1, <3>2, StoringCounts
  <2>3. CASE PoolDrain
    <3>1. /\ i \in 1..Len(threadpool) /\ pool = "drain" /\ threadpool[i] \in Tasks
          /\ ProcessFinishedRep(threadpool[i])
      BY <2>3, ElementOfSeq DEF PoolDrain, TypeOK
    <3>2. \A n \in 1..Len(elements) : elements[n][1] # threadpool[i]
      BY <3>1 DEF StreamInv, TypeOK
    <3>3. QED
      BY <3>1, <3>2, StoringCounts
  <2>4. CASE ~PoolCollect /\ ~PoolDrain
    <3>1. UNCHANGED <<elements, processed_>>
      BY <2>4 DEF Next, Pool, Worker, Client, Waiting, Gone, vars,
         listVars, flagVars, poolVars, workerVars, clientVars,
         PoolStart, PoolNextTask, PoolPollBusy, PoolLaunch, PoolKeepFuture, PoolBreak,
         PoolDropped, PoolLoopDone, PoolFinish, WorkerThrow, WorkerReturn, WorkerMap,
         WorkerElement, WorkerSkip, Initialize, InitializeNoTasks, CallNext, WaitReadSize,
         WaitElement, WaitFinished, WaitSleep, AdvanceCursor, Destroy, Free
    <3>2. QED
      BY <2>1, <3>1
  <2>5. QED
    BY <2>2, <2>3, <2>4
<1>3. QED
  BY <1>1, <1>2, InvariantHolds, PTL DEF Spec

(***************************************************************************)
(* The iterator implements ElementStream: storing a result publishes one    *)
(* task, finished_ closes the stream, and the two answers of               *)
(* wait_for_element() take an element or announce the end.                 *)
(***************************************************************************)
LEMMA StoringPublishes ==
  ASSUME IInv, NEW t \in Tasks, ProcessFinishedRep(t), pool # "ended",
         \A n \in 1..Len(elements) : elements[n][1] # t,
         UNCHANGED <<total, finished_, returned, answer>>
  PROVE  Stream!Publish(t) \/ UNCHANGED Stream!streamVars
<1>1. /\ out[t] \in Seq(Elements) /\ elements \in Seq(Elements)
      /\ Len(out[t]) \in Nat /\ Len(elements) \in Nat
  BY LenProperties DEF IInv, TypeOK
<1>2. CASE out[t] = <<>>
  BY <1>2 DEF ProcessFinishedRep, listVars, Stream!streamVars
<1>3. CASE out[t] # <<>>
  <2>1. Len(out[t]) > 0
    BY <1>1, <1>3, EmptySeq
  <2>2. /\ Len(elements') = Len(elements) + Len(out[t])
        /\ \A n \in 1..Len(elements) : elements'[n] = elements[n]
        /\ \A n \in Len(elements)+1..Len(elements') :
             elements'[n] = out[t][n - Len(elements)]
    BY ProcessFinishedRepEffect DEF IInv
  <2>3. \A n \in Len(elements)+1..Len(elements') : n - Len(elements) \in 1..Len(out[t])
    BY <1>1, <2>2
  <2>4. \A n \in Len(elements)+1..Len(elements') : elements'[n][1] = t
    <3>1. \A n \in 1..Len(out[t]) : out[t][n][1] = t
      BY DEF IInv, StreamInv
    <3>2. QED
      BY <2>2, <2>3, <3>1
  <2>5. \A m, n \in Len(elements)+1..Len(elements') :
          m < n => elements'[m][2] < elements'[n][2]
    <3>1. SUFFICES ASSUME NEW m \in Len(elements)+1..Len(elements'),
                          NEW n \in Len(elements)+1..Len(elements'), m < n
                   PROVE  elements'[m][2] < elements'[n][2]
      OBVIOUS
    <3>2. m - Len(elements) < n - Len(elements)
      BY <1>1, <3>1
    <3>3. \A k, l \in 1..Len(out[t]) : k < l => out[t][k][2] < out[t][l][2]
      BY DEF IInv, StreamInv
    <3>4. out[t][m - Len(elements)][2] < out[t][n - Len(elements)][2]
      BY <2>3, <3>2, <3>3
    <3>5. QED
      BY <2>2, <3>4
  <2>6. ~finished_
    BY DEF IInv, StreamInv
  <2>7. Len(elements') > Len(elements)
    BY <1>1, <2>1, <2>2
  <2>8. UNCHANGED <<returned, answer = "null" /\ total > 0>> /\ finished_' \in BOOLEAN
    BY DEF IInv, TypeOK
  <2>9. Stream!Publish(t)
    BY <2>2, <2>4, <2>5, <2>6, <2>7, <2>8, Zenon DEF Stream!Publish
  <2>10. QED
    BY <2>9
<1>4. QED
  BY <1>2, <1>3

THEOREM IteratorImplementsStream == Spec => ImplementsStream
<1>1. Init => Stream!StreamInit
  BY DEF Init, Stream!StreamInit
<1>2. IInv /\ [Next]_vars => [Stream!StreamNext]_(Stream!streamVars)
  <2> SUFFICES ASSUME IInv, [Next]_vars
               PROVE  Stream!StreamNext \/ UNCHANGED Stream!streamVars
    OBVIOUS
  <2> USE DEF listVars, flagVars, poolVars, workerVars, clientVars, Stream!streamVars
  <2>1. CASE PoolCollect
    <3>1. /\ threadpool[i] \in Tasks /\ pool # "ended"
          /\ \A n \in 1..Len(elements) : elements[n][1] # threadpool[i]
      <4>1. i \in 1..Len(threadpool) /\ pool = "poll"
        BY <2>1 DEF PoolCollect, IInv, TypeOK, PoolInv
      <4>2. threadpool[i] \in Tasks
        BY <4>1, ElementOfSeq DEF IInv, TypeOK
      <4>3. \A n \in 1..Len(elements) : elements[n][1] # threadpool[i]
        BY <4>1 DEF IInv, TypeOK, StreamInv
      <4>4. QED
        BY <4>1, <4>2, <4>3
    <3>2. ProcessFinishedRep(threadpool[i]) /\ UNCHANGED <<total, finished_, returned, answer>>
      BY <2>1 DEF PoolCollect
    <3>3. QED
      BY <3>1, <3>2, StoringPublishes DEF Stream!StreamNext
  <2>2. CASE PoolDrain
    <3>1. /\ threadpool[i] \in Tasks /\ pool # "ended"
          /\ \A n \in 1..Len(elements) : elements[n][1] # threadpool[i]
      <4>1. i \in 1..Len(threadpool) /\ pool = "drain"
        BY <2>2 DEF PoolDrain, IInv, TypeOK
      <4>2. threadpool[i] \in Tasks
        BY <4>1, ElementOfSeq DEF IInv, TypeOK
      <4>3. \A n \in 1..Len(elements) : elements[n][1] # threadpool[i]
        BY <4>1 DEF IInv, TypeOK, StreamInv
      <4>4. QED
        BY <4>1, <4>2, <4>3
    <3>2. ProcessFinishedRep(threadpool[i]) /\ UNCHANGED <<total, finished_, returned, answer>>
      BY <2>2 DEF PoolDrain
    <3>3. QED
      BY <3>1, <3>2, StoringPublishes DEF Stream!StreamNext
  <2>3. CASE PoolFinish
    BY <2>3 DEF PoolFinish, Stream!StreamNext, Stream!Close
  <2>4. CASE WaitElement
    <3>1. returned < Len(elements)
      BY <2>4, LenProperties DEF WaitElement, IInv, TypeOK, CursorInv
    <3>2. QED
      BY <2>4, <3>1 DEF WaitElement, Stream!StreamNext, Stream!Take
  <2>5. CASE WaitFinished
    BY <2>5 DEF WaitFinished, Stream!StreamNext, Stream!End
  <2>6. CASE InitializeNoTasks
    BY <2>6 DEF InitializeNoTasks, IInv, PoolInv
  <2>7. CASE AdvanceCursor
    BY <2>7 DEF AdvanceCursor
  <2>8. CASE \/ PoolStart \/ PoolNextTask \/ PoolPollBusy \/ PoolLaunch
             \/ PoolKeepFuture \/ PoolBreak \/ PoolDropped \/ PoolLoopDone
    BY <2>8 DEF PoolStart, PoolNextTask, PoolPollBusy, PoolLaunch,
                PoolKeepFuture, PoolBreak, PoolDropped, PoolLoopDone
  <2>9. CASE \E t \in Tasks : Worker(t)
    BY <2>9 DEF Worker, WorkerThrow, WorkerReturn, WorkerMap, WorkerElement, WorkerSkip
  <2>13. CASE Initialize
    BY <2>13 DEF Initialize, IInv, CursorInv
  <2>10. CASE CallNext \/ WaitReadSize \/ WaitSleep \/ Destroy \/ Free
    BY <2>10 DEF CallNext, WaitReadSize, WaitSleep, Destroy, Free
  <2>11. CASE UNCHANGED vars
    BY <2>11 DEF vars
  <2>12. QED
    BY <2>1, <2>2, <2>3, <2>4, <2>5, <2>6, <2>7, <2>8, <2>9, <2>10, <2>11, <2>13
       DEF Next, Pool, Client, Waiting, Gone
<1>3. QED
  BY <1>1, <1>2, InvariantHolds, PTL DEF Spec, ImplementsStream, Stream!StreamSpec
=============================================================================
