--------------------------- MODULE Workers_proofs ---------------------------
(***************************************************************************)
(* The parts of the node that hand queued work to a thread: why no task,   *)
(* transaction, promise or height is lost or done twice, for any numbers   *)
(* of tasks, threads and blocks.                                           *)
(***************************************************************************)
EXTENDS MCWorkers, DataTheorems

-----------------------------------------------------------------------------
(* The task protocol.  An id leaves pendingTasks with the first of its     *)
(* queue entries and runningTasks with the first of its threads, so        *)
(* neither map can outlast what it stands for.                             *)

\* The counts are numbers, and what is counted are tasks.
CountsInv ==
  /\ taskQueue \in [Tasks -> Nat]
  /\ started \in [Tasks -> Nat]
  /\ executing \in [Tasks \X BOOLEAN -> Nat]
  /\ pendingTasks \subseteq Tasks /\ runningTasks \subseteq Tasks
  /\ hasExecutor \in BOOLEAN

\* There is a worker only while the protocol runs, and it holds at most one task,
\* between taking it off the queue and starting its thread.
HandInv ==
  /\ worker # "off" => protocolRunning
  /\ hand \subseteq Tasks
  /\ \A t, u \in hand : t = u
  /\ worker # "spawn" => hand = {}

HasThread(t) ==
  t \in hand \/ started[t] > 0 \/ \E found \in BOOLEAN : executing[<<t, found>>] > 0

StatusInv ==
  /\ CountsInv
  /\ HandInv
  /\ \A t \in pendingTasks : taskQueue[t] > 0
  /\ \A t \in runningTasks : HasThread(t)

LEMMA StatusInvInit == TaskInit => StatusInv
<1> SUFFICES ASSUME TaskInit
             PROVE  StatusInv
  OBVIOUS
<1>1. CountsInv
  <2>1. hasExecutor \in BOOLEAN
    BY DEF TaskInit
  <2> QED
    BY <2>1 DEF TaskInit, CountsInv
<1>2. HandInv
  BY DEF TaskInit, HandInv
<1> QED
  BY <1>1, <1>2 DEF TaskInit, StatusInv

\* Changing one count of a function leaves it a function and the others alone.
LEMMA CountsChange ==
  ASSUME NEW S, NEW counts \in [S -> Nat], NEW x \in S
  PROVE  /\ Plus(counts, x) \in [S -> Nat]
         /\ Plus(counts, x)[x] > 0
         /\ \A y \in S : counts[y] > 0 => Plus(counts, x)[y] > 0
         /\ counts[x] > 0 => Minus(counts, x) \in [S -> Nat]
         /\ \A y \in S \ {x} : Minus(counts, x)[y] = counts[y]
  BY DEF Plus, Minus

\* Calls from outside.
LEMMA StatusInvCalls ==
  ASSUME StatusInv,
         \/ StartProtocol \/ StopProtocol \/ StopReturn \/ RegisterExecutor
         \/ \E t \in Tasks : DistributeTask(t) \/ ExecuteTask(t) \/ CancelTask(t)
  PROVE  StatusInv'
<1> USE DEF StatusInv, CountsInv, HandInv, HasThread
<1>1. CASE StartProtocol
  BY <1>1 DEF StartProtocol, taskState
<1>2. CASE StopProtocol
  BY <1>2 DEF StopProtocol, taskState
<1>3. CASE StopReturn
  BY <1>3 DEF StopReturn, taskState
<1>4. CASE RegisterExecutor
  BY <1>4 DEF RegisterExecutor, taskState
<1>5. ASSUME NEW t \in Tasks, DistributeTask(t)
      PROVE  StatusInv'
  BY <1>5, CountsChange DEF DistributeTask, control
<1>6. ASSUME NEW t \in Tasks, ExecuteTask(t)
      PROVE  StatusInv'
  BY <1>6 DEF ExecuteTask, control
<1>7. ASSUME NEW t \in Tasks, CancelTask(t)
      PROVE  StatusInv'
  BY <1>7 DEF CancelTask, control
<1> QED
  BY <1>1, <1>2, <1>3, <1>4, <1>5, <1>6, <1>7

\* The worker.
LEMMA StatusInvWorker ==
  ASSUME StatusInv, WorkerStep
  PROVE  StatusInv'
<1> USE DEF StatusInv, CountsInv, HandInv, HasThread
<1>1. CASE TestStop
  BY <1>1 DEF TestStop, taskState, control
<1>2. ASSUME NEW t \in Tasks, TakeTask(t)
      PROVE  StatusInv'
  <2>1. taskQueue[t] > 0 /\ hand = {}
    BY <1>2 DEF TakeTask, Top
  <2>2. taskQueue' \in [Tasks -> Nat]
    BY <1>2, <2>1, CountsChange DEF TakeTask
  <2>3. \A u \in pendingTasks' : taskQueue'[u] > 0
    BY <1>2, CountsChange DEF TakeTask
  <2>4. \A u \in runningTasks' : HasThread(u)'
    BY <1>2, <2>1 DEF TakeTask
  <2> QED
    BY <1>2, <2>2, <2>3, <2>4 DEF TakeTask, control
<1>3. CASE TakeNothing
  BY <1>3 DEF TakeNothing, taskState, control
<1>4. CASE SpawnThread
  <2>1. PICK t \in hand : started' = Plus(started, t)
    BY <1>4 DEF SpawnThread
  <2>2. started' \in [Tasks -> Nat] /\ started'[t] > 0
    BY <2>1, CountsChange
  <2>3. \A u \in Tasks : started[u] > 0 => started'[u] > 0
    BY <2>1, CountsChange
  <2>4. \A u \in runningTasks' : HasThread(u)'
    BY <1>4, <2>2, <2>3 DEF SpawnThread
  <2> QED
    BY <1>4, <2>2, <2>4 DEF SpawnThread, control
<1> QED
  BY <1>1, <1>2, <1>3, <1>4 DEF WorkerStep

\* The detached threads.
LEMMA StatusInvThreads ==
  ASSUME StatusInv, NEW t \in Tasks, ThreadStep(t)
  PROVE  StatusInv'
<1> USE DEF StatusInv, CountsInv, HandInv, HasThread
<1>1. CASE FindExecutor(t)
  <2>1. <<t, hasExecutor>> \in Tasks \X BOOLEAN
    OBVIOUS
  <2>2. /\ executing' \in [Tasks \X BOOLEAN -> Nat]
        /\ executing'[<<t, hasExecutor>>] > 0
        /\ \A x \in Tasks \X BOOLEAN : executing[x] > 0 => executing'[x] > 0
    BY <1>1, <2>1, CountsChange DEF FindExecutor
  <2>3. started' \in [Tasks -> Nat] /\ \A u \in Tasks \ {t} : started'[u] = started[u]
    BY <1>1, CountsChange DEF FindExecutor
  <2>4. \A u \in runningTasks' : HasThread(u)'
    <3> SUFFICES ASSUME NEW u \in runningTasks PROVE HasThread(u)'
      BY <1>1 DEF FindExecutor
    <3>1. CASE u = t
      BY <2>2, <3>1
    <3>2. CASE u # t
      BY <1>1, <2>2, <2>3, <3>2 DEF FindExecutor
    <3> QED
      BY <3>1, <3>2
  <2> QED
    BY <1>1, <2>2, <2>3, <2>4 DEF FindExecutor, control
<1>2. ASSUME NEW found \in BOOLEAN, NEW outcome \in Results(found),
             FinishTask(t, found, outcome)
      PROVE  StatusInv'
  <2>1. /\ executing' \in [Tasks \X BOOLEAN -> Nat]
        /\ \A x \in (Tasks \X BOOLEAN) \ {<<t, found>>} : executing'[x] = executing[x]
    <3>1. <<t, found>> \in Tasks \X BOOLEAN /\ executing[<<t, found>>] > 0
      BY <1>2 DEF FinishTask
    <3>2. executing' = Minus(executing, <<t, found>>)
      BY <1>2 DEF FinishTask
    <3> DEFINE x == <<t, found>>
    <3>3. x \in Tasks \X BOOLEAN /\ executing[x] > 0 /\ executing' = Minus(executing, x)
      BY <3>1, <3>2
    <3>4. executing \in [Tasks \X BOOLEAN -> Nat]
      OBVIOUS
    <3> HIDE DEF x
    <3>5. /\ executing' \in [Tasks \X BOOLEAN -> Nat]
          /\ \A y \in (Tasks \X BOOLEAN) \ {x} : executing'[y] = executing[y]
      BY <3>3, <3>4 DEF Minus
    <3> QED
      BY <3>5 DEF x
  <2>2. \A u \in runningTasks' : u # t /\ HasThread(u)'
    BY <1>2, <2>1 DEF FinishTask
  <2> QED
    BY <1>2, <2>1, <2>2 DEF FinishTask, control
<1> QED
  BY <1>1, <1>2 DEF ThreadStep

LEMMA StatusInvNext == StatusInv /\ [TaskNext]_taskVars => StatusInv'
<1> SUFFICES ASSUME StatusInv, [TaskNext]_taskVars
             PROVE  StatusInv'
  OBVIOUS
<1>1. CASE TaskNext
  BY <1>1, StatusInvCalls, StatusInvWorker, StatusInvThreads DEF TaskNext
<1>2. CASE UNCHANGED taskVars
  BY <1>2 DEF taskVars, StatusInv, CountsInv, HandInv, HasThread
<1> QED
  BY <1>1, <1>2

\* What getTaskStatus says is so, whatever is cancelled, executed by a caller,
\* distributed twice, stopped or started: a PENDING task is in the queue, and a
\* RUNNING one is in the worker's hand or has a thread.
THEOREM StatusTruthful == TaskSpec => []StatusHonest
<1>1. StatusInv => StatusHonest
  BY DEF StatusInv, StatusHonest, HasThread
<1> QED
  BY <1>1, StatusInvInit, StatusInvNext, PTL DEF TaskSpec

\* The sum of the counts follows each change of one of them.
LEMMA TotalChanges ==
  ASSUME NEW S, IsFiniteSet(S), NEW counts \in [S -> Nat], NEW x \in S
  PROVE  /\ Total(counts) \in Nat
         /\ \A y \in S : counts[y] <= Total(counts)
         /\ Total(Plus(counts, x)) = Total(counts) + 1
         /\ counts[x] > 0 => Total(Minus(counts, x)) = Total(counts) - 1
<1>1. Total(counts) \in Nat /\ \A y \in S : counts[y] <= Total(counts)
  BY SumNat DEF Total
<1>2. counts \in [S -> Int] /\ counts[x] \in Int
  OBVIOUS
<1> DEFINE f == Plus(counts, x)
           g == Minus(counts, x)
<1>3. f \in [S -> Int] /\ f[x] = counts[x] + 1 /\ \A y \in S \ {x} : f[y] = counts[y]
  BY DEF Plus
<1>4. g \in [S -> Int] /\ g[x] = counts[x] - 1 /\ \A y \in S \ {x} : g[y] = counts[y]
  BY DEF Minus
<1> HIDE DEF f, g
<1>5. SumFunction(f) = SumFunction(counts) - counts[x] + f[x]
  BY <1>2, <1>3, SumUpdate
<1>6. SumFunction(g) = SumFunction(counts) - counts[x] + g[x]
  BY <1>2, <1>4, SumUpdate
<1>7. SumFunction(counts) \in Int
  BY <1>1 DEF Total
<1>8. Total(f) = Total(counts) + 1 /\ Total(g) = Total(counts) - 1
  BY <1>2, <1>3, <1>4, <1>5, <1>6, <1>7 DEF Total
<1> QED
  BY <1>1, <1>8 DEF f, g

LEMMA TaskConstants ==
  /\ IsFiniteSet(Tasks) /\ IsFiniteSet(Tasks \X BOOLEAN)
  /\ MaxConcurrentTasks \in Nat /\ MaxSent \in Nat
  /\ Outcomes \subseteq {"success", "failure", "none"}
<1>1. IsFiniteSet(BOOLEAN)
  <2>1. BOOLEAN = {TRUE} \cup {FALSE}
    OBVIOUS
  <2>2. IsFiniteSet({TRUE}) /\ IsFiniteSet({FALSE})
    BY FS_Singleton
  <2>3. IsFiniteSet({TRUE} \cup {FALSE})
    BY <2>2, FS_Union, Zenon
  <2> QED
    BY <2>1, <2>3
<1>2. IsFiniteSet(Tasks \X BOOLEAN)
  BY <1>1, TaskAssumption, FS_Product
<1> QED
  BY <1>2, TaskAssumption

StatsTyped ==
  taskStats \in [sent : 0 .. MaxSent, executed : Nat, failed : Nat]

\* The slots and the flags, which the counts do not depend on.
ControlTyped ==
  /\ Cardinality(runningTasks) <= MaxConcurrentTasks
  /\ completedTasks \in [Tasks -> {"none", "success", "failure"}]
  /\ hasExecutor \in BOOLEAN /\ protocolRunning \in BOOLEAN
  /\ stopWorker \in BOOLEAN /\ stopping \in BOOLEAN
  /\ worker \in {"off", "test", "lock", "spawn"}

TasksInv == StatusInv /\ StatsTyped /\ ControlTyped /\ TasksAccounted

InThreads == Cardinality(hand) + Total(started) + Total(executing)

\* The hand is empty or holds one task.
LEMMA HandCounted ==
  ASSUME HandInv
  PROVE  Cardinality(hand) \in Nat /\ (hand = {} => Cardinality(hand) = 0)
         /\ \A t \in hand : Cardinality(hand) = 1
<1>1. hand = {} => Cardinality(hand) = 0
  BY FS_EmptySet
<1>2. ASSUME NEW t \in hand PROVE Cardinality(hand) = 1
  <2>1. hand = {t}
    BY DEF HandInv
  <2> QED
    BY <2>1, FS_Singleton
<1>3. hand = {} \/ \E t \in hand : TRUE
  OBVIOUS
<1> QED
  BY <1>1, <1>2, <1>3

LEMMA PartsCounted ==
  ASSUME StatusInv
  PROVE  /\ Total(taskQueue) \in Nat /\ Total(started) \in Nat /\ Total(executing) \in Nat
         /\ Cardinality(hand) \in Nat
         /\ \A t \in Tasks : taskQueue[t] <= Total(taskQueue) /\ started[t] <= Total(started)
         /\ \A x \in Tasks \X BOOLEAN : executing[x] <= Total(executing)
<1>1. /\ taskQueue \in [Tasks -> Nat] /\ started \in [Tasks -> Nat]
      /\ executing \in [Tasks \X BOOLEAN -> Nat] /\ HandInv
  BY DEF StatusInv, CountsInv
<1>2. /\ Total(taskQueue) \in Nat /\ \A t \in Tasks : taskQueue[t] <= Total(taskQueue)
      /\ Total(started) \in Nat /\ \A t \in Tasks : started[t] <= Total(started)
  BY <1>1, TaskConstants, SumNat DEF Total
<1>3. Total(executing) \in Nat /\ \A x \in Tasks \X BOOLEAN : executing[x] <= Total(executing)
  <2> DEFINE S == Tasks \X BOOLEAN
  <2>1. IsFiniteSet(S) /\ executing \in [S -> Nat]
    BY <1>1, TaskConstants
  <2> HIDE DEF S
  <2>2. Total(executing) \in Nat /\ \A x \in S : executing[x] <= Total(executing)
    BY <2>1, SumNat DEF Total
  <2> QED
    BY <2>2 DEF S
<1> QED
  BY <1>1, <1>2, <1>3, HandCounted

LEMMA StatsFields ==
  ASSUME StatsTyped
  PROVE  /\ taskStats.sent \in 0 .. MaxSent /\ taskStats.sent \in Nat
         /\ taskStats.executed \in Nat /\ taskStats.failed \in Nat
BY TaskConstants DEF StatsTyped

\* A step of any kind: what it adds to the queue, to the threads and to the statistics.
LEMMA Accounted ==
  ASSUME TasksInv, NEW q \in Int, NEW i \in Int, NEW s \in Int, NEW d \in Int,
         Total(taskQueue') = Total(taskQueue) + q, InThreads' = InThreads + i,
         taskStats'.sent = taskStats.sent + s,
         taskStats'.executed + taskStats'.failed = taskStats.executed + taskStats.failed + d,
         s = d + q + i, taskStats'.executed \in Int, taskStats'.failed \in Int, StatusInv'
  PROVE  TasksAccounted'
<1>1. StatusInv /\ StatsTyped /\ TasksAccounted
  BY DEF TasksInv
<1>2. /\ Total(taskQueue) \in Nat /\ Total(started) \in Nat /\ Total(executing) \in Nat /\ Cardinality(hand) \in Nat
  BY <1>1, PartsCounted
<1>3. taskStats.sent \in Nat /\ taskStats.executed \in Nat /\ taskStats.failed \in Nat
  BY <1>1, StatsFields
<1>4. InThreads \in Int /\ taskStats.sent = taskStats.executed + taskStats.failed + Total(taskQueue) + InThreads
  BY <1>1, <1>2, <1>3 DEF TasksAccounted, InThreads
<1>5. taskStats'.sent = taskStats'.executed + taskStats'.failed + Total(taskQueue') + InThreads'
  BY <1>2, <1>3, <1>4
<1>6. /\ Total(started') \in Nat /\ Total(executing') \in Nat /\ Cardinality(hand') \in Nat
  <2>1. /\ started' \in [Tasks -> Nat] /\ executing' \in [Tasks \X BOOLEAN -> Nat] /\ HandInv'
    BY DEF StatusInv, CountsInv
  <2>2. Total(started') \in Nat
    BY <2>1, TaskConstants, SumNat DEF Total
  <2>3. Total(executing') \in Nat
    <3> DEFINE S == Tasks \X BOOLEAN
    <3>1. IsFiniteSet(S) /\ executing' \in [S -> Nat]
      BY <2>1, TaskConstants
    <3> HIDE DEF S
    <3> QED
      BY <3>1, SumNat DEF Total
  <2>4. Cardinality(hand') \in Nat
    <3>1. CASE hand' = {}
      BY <3>1, FS_EmptySet
    <3>2. CASE hand' # {}
      <4>1. PICK t : t \in hand'
        BY <3>2
      <4>2. hand' = {t}
        BY <2>1, <4>1 DEF HandInv
      <4>3. Cardinality(hand') = 1
        BY <4>2, FS_Singleton
      <4> QED
        BY <4>3
    <3> QED
      BY <3>1, <3>2
  <2> QED
    BY <2>2, <2>3, <2>4
<1>7. Total(taskQueue') \in Int
  BY <1>2
<1> QED
  BY <1>5, <1>6, <1>7 DEF TasksAccounted, InThreads

LEMMA NothingMoves ==
  ASSUME TasksInv, UNCHANGED <<taskQueue, started, executing, hand, taskStats>>
  PROVE  StatsTyped' /\ TasksAccounted'
BY DEF TasksInv, StatsTyped, TasksAccounted

LEMMA DistributeAccounted ==
  ASSUME TasksInv, StatusInv', NEW t \in Tasks, DistributeTask(t)
  PROVE  StatsTyped' /\ TasksAccounted'
<1>1. StatusInv /\ StatsTyped /\ taskQueue \in [Tasks -> Nat]
  BY DEF TasksInv, StatusInv, CountsInv
<1>2. /\ taskStats.sent < MaxSent /\ taskQueue' = Plus(taskQueue, t)
      /\ taskStats' = [taskStats EXCEPT !.sent = @ + 1]
      /\ UNCHANGED <<started, executing, hand>>
  BY DEF DistributeTask
<1>3. StatsTyped' /\ taskStats'.sent = taskStats.sent + 1
      /\ taskStats'.executed = taskStats.executed /\ taskStats'.failed = taskStats.failed
  <2>1. taskStats.sent + 1 \in 0 .. MaxSent
    BY <1>1, <1>2, StatsFields, TaskConstants
  <2> QED
    BY <1>1, <1>2, <2>1 DEF StatsTyped
<1>4. Total(taskQueue') = Total(taskQueue) + 1
  BY <1>1, <1>2, TaskConstants, TotalChanges
<1>5. taskStats.executed \in Int /\ taskStats.failed \in Int
  BY <1>1, StatsFields
<1>6. InThreads' = InThreads + 0
  BY <1>1, <1>2, PartsCounted DEF InThreads
<1>7. TasksAccounted'
  <2>1. taskStats'.executed + taskStats'.failed = taskStats.executed + taskStats.failed + 0
    BY <1>3, <1>5
  <2>2. 1 = 0 + 1 + 0 /\ 0 \in Int /\ 1 \in Int
    OBVIOUS
  <2> QED
    BY <1>3, <1>4, <1>5, <1>6, <2>1, <2>2, Accounted
<1> QED
  BY <1>3, <1>7

\* The worker moves a task from the queue to its hand ...
LEMMA TakeAccounted ==
  ASSUME TasksInv, StatusInv', NEW t \in Tasks, TakeTask(t)
  PROVE  StatsTyped' /\ TasksAccounted'
<1>1. StatusInv /\ StatsTyped /\ taskQueue \in [Tasks -> Nat] /\ HandInv
  BY DEF TasksInv, StatusInv, CountsInv
<1>2. /\ taskQueue' = Minus(taskQueue, t) /\ hand' = {t} /\ taskQueue[t] > 0 /\ hand = {}
      /\ UNCHANGED <<started, executing, taskStats>>
  BY <1>1 DEF TakeTask, Top, HandInv
<1>3. Total(taskQueue') = Total(taskQueue) - 1 /\ Total(taskQueue) \in Nat
  BY <1>1, <1>2, TaskConstants, TotalChanges
<1>4. Cardinality(hand') = 1 /\ Cardinality(hand) = 0
  BY <1>2, FS_EmptySet, FS_Singleton
<1>5. Total(started) \in Nat /\ Total(executing) \in Nat
  BY <1>1, PartsCounted
<1>6. InThreads' = InThreads + 1
  BY <1>2, <1>4, <1>5 DEF InThreads
<1>7. StatsTyped' /\ taskStats.sent \in Int /\ taskStats.executed \in Int /\ taskStats.failed \in Int
  BY <1>1, <1>2, StatsFields DEF StatsTyped
<1>8. TasksAccounted'
  <2>1. /\ Total(taskQueue') = Total(taskQueue) + (-1)
        /\ taskStats'.sent = taskStats.sent + 0
        /\ taskStats'.executed + taskStats'.failed = taskStats.executed + taskStats.failed + 0
        /\ 0 = 0 + (-1) + 1 /\ 0 \in Int /\ 1 \in Int /\ (-1) \in Int
        /\ taskStats'.executed \in Int /\ taskStats'.failed \in Int
    BY <1>2, <1>3, <1>7
  <2> QED
    BY <1>6, <2>1, Accounted
<1> QED
  BY <1>7, <1>8

\* ... from there to a thread ...
LEMMA SpawnAccounted ==
  ASSUME TasksInv, StatusInv', SpawnThread
  PROVE  StatsTyped' /\ TasksAccounted'
<1>1. StatusInv /\ StatsTyped /\ started \in [Tasks -> Nat] /\ HandInv
  BY DEF TasksInv, StatusInv, CountsInv
<1>2. PICK t \in hand : started' = Plus(started, t)
  BY DEF SpawnThread
<1>3. hand' = {} /\ t \in Tasks /\ UNCHANGED <<taskQueue, executing, taskStats>>
  BY <1>1 DEF SpawnThread, HandInv
<1>4. Total(started') = Total(started) + 1 /\ Total(started) \in Nat
  BY <1>1, <1>2, <1>3, TaskConstants, TotalChanges
<1>5. Cardinality(hand') = 0 /\ Cardinality(hand) = 1
  BY <1>1, <1>3, HandCounted, FS_EmptySet
<1>6. Total(executing) \in Nat /\ Total(taskQueue) \in Nat
  BY <1>1, PartsCounted
<1>7. InThreads' = InThreads + 0
  BY <1>3, <1>4, <1>5, <1>6 DEF InThreads
<1>8. StatsTyped' /\ taskStats.sent \in Int /\ taskStats.executed \in Int /\ taskStats.failed \in Int
  BY <1>1, <1>3, StatsFields DEF StatsTyped
<1>9. TasksAccounted'
  <2>1. /\ Total(taskQueue') = Total(taskQueue) + 0
        /\ taskStats'.sent = taskStats.sent + 0
        /\ taskStats'.executed + taskStats'.failed = taskStats.executed + taskStats.failed + 0
        /\ 0 = 0 + 0 + 0 /\ 0 \in Int
        /\ taskStats'.executed \in Int /\ taskStats'.failed \in Int
    BY <1>3, <1>6, <1>8
  <2> QED
    BY <1>7, <2>1, Accounted
<1> QED
  BY <1>8, <1>9

\* ... which looks for the executor ...
LEMMA FindAccounted ==
  ASSUME TasksInv, StatusInv', NEW t \in Tasks, FindExecutor(t)
  PROVE  StatsTyped' /\ TasksAccounted'
<1>1. /\ StatusInv /\ StatsTyped /\ started \in [Tasks -> Nat]
      /\ executing \in [Tasks \X BOOLEAN -> Nat] /\ hasExecutor \in BOOLEAN
  BY DEF TasksInv, StatusInv, CountsInv
<1>2. /\ started' = Minus(started, t) /\ started[t] > 0 /\ executing' = Plus(executing, <<t, hasExecutor>>)
      /\ UNCHANGED <<taskQueue, hand, taskStats>>
  BY DEF FindExecutor
<1>3. Total(started') = Total(started) - 1 /\ Total(started) \in Nat
  BY <1>1, <1>2, TaskConstants, TotalChanges
<1>4. Total(executing') = Total(executing) + 1 /\ Total(executing) \in Nat
  <2> DEFINE S == Tasks \X BOOLEAN
             x == <<t, hasExecutor>>
  <2>1. IsFiniteSet(S) /\ executing \in [S -> Nat] /\ x \in S /\ executing' = Plus(executing, x)
    BY <1>1, <1>2, TaskConstants
  <2> HIDE DEF S, x
  <2> QED
    BY <2>1, TotalChanges
<1>5. Total(taskQueue) \in Nat /\ Cardinality(hand) \in Nat
  BY <1>1, PartsCounted
<1>6. InThreads' = InThreads + 0
  BY <1>2, <1>3, <1>4, <1>5 DEF InThreads
<1>7. StatsTyped' /\ taskStats.sent \in Int /\ taskStats.executed \in Int /\ taskStats.failed \in Int
  BY <1>1, <1>2, StatsFields DEF StatsTyped
<1>8. TasksAccounted'
  <2>1. /\ Total(taskQueue') = Total(taskQueue) + 0
        /\ taskStats'.sent = taskStats.sent + 0
        /\ taskStats'.executed + taskStats'.failed = taskStats.executed + taskStats.failed + 0
        /\ 0 = 0 + 0 + 0 /\ 0 \in Int
        /\ taskStats'.executed \in Int /\ taskStats'.failed \in Int
    BY <1>2, <1>5, <1>7
  <2> QED
    BY <1>6, <2>1, Accounted
<1> QED
  BY <1>7, <1>8

\* ... and is counted in the end.
LEMMA FinishAccounted ==
  ASSUME TasksInv, StatusInv', NEW t \in Tasks, NEW found \in BOOLEAN, NEW outcome,
         FinishTask(t, found, outcome)
  PROVE  StatsTyped' /\ TasksAccounted'
<1>1. StatusInv /\ StatsTyped /\ executing \in [Tasks \X BOOLEAN -> Nat]
  BY DEF TasksInv, StatusInv, CountsInv
<1>2. /\ executing' = Minus(executing, <<t, found>>) /\ executing[<<t, found>>] > 0
      /\ UNCHANGED <<taskQueue, hand, started>>
      /\ \/ taskStats' = [taskStats EXCEPT !.failed = @ + 1]
         \/ taskStats' = [taskStats EXCEPT !.executed = @ + 1]
  BY DEF FinishTask
<1>3. Total(executing') = Total(executing) - 1 /\ Total(executing) \in Nat
  <2> DEFINE S == Tasks \X BOOLEAN
             x == <<t, found>>
  <2>1. IsFiniteSet(S) /\ executing \in [S -> Nat] /\ x \in S /\ executing' = Minus(executing, x) /\ executing[x] > 0
    BY <1>1, <1>2, TaskConstants
  <2> HIDE DEF S, x
  <2> QED
    BY <2>1, TotalChanges
<1>4. Total(taskQueue) \in Nat /\ Cardinality(hand) \in Nat /\ Total(started) \in Nat
  BY <1>1, PartsCounted
<1>5. InThreads' = InThreads + (-1)
  BY <1>2, <1>3, <1>4 DEF InThreads
<1>6. taskStats.sent \in 0 .. MaxSent /\ taskStats.sent \in Int /\ taskStats.executed \in Nat /\ taskStats.failed \in Nat
  BY <1>1, StatsFields
<1>7. /\ StatsTyped' /\ taskStats'.sent = taskStats.sent
      /\ \/ taskStats'.failed = taskStats.failed + 1 /\ taskStats'.executed = taskStats.executed
         \/ taskStats'.failed = taskStats.failed /\ taskStats'.executed = taskStats.executed + 1
  <2>1. taskStats.executed + 1 \in Nat /\ taskStats.failed + 1 \in Nat
    BY <1>6
  <2> QED
    BY <1>1, <1>2, <2>1 DEF StatsTyped
<1>8. TasksAccounted'
  <2>1. /\ Total(taskQueue') = Total(taskQueue) + 0
        /\ taskStats'.sent = taskStats.sent + 0
        /\ taskStats'.executed + taskStats'.failed = taskStats.executed + taskStats.failed + 1
        /\ 0 = 1 + 0 + (-1) /\ 0 \in Int /\ 1 \in Int /\ (-1) \in Int
        /\ taskStats'.executed \in Int /\ taskStats'.failed \in Int
    BY <1>2, <1>4, <1>6, <1>7
  <2> QED
    BY <1>5, <2>1, Accounted
<1> QED
  BY <1>7, <1>8

\* The slots: a set of running tasks that loses some stays within the limit.
LEMMA SlotsFreed ==
  ASSUME StatusInv, ControlTyped, runningTasks' \subseteq runningTasks
  PROVE  Cardinality(runningTasks') <= MaxConcurrentTasks
<1>1. IsFiniteSet(runningTasks)
  BY TaskConstants, FS_Subset DEF StatusInv, CountsInv
<1>2. /\ Cardinality(runningTasks') <= Cardinality(runningTasks)
      /\ Cardinality(runningTasks') \in Nat /\ Cardinality(runningTasks) \in Nat
  BY <1>1, FS_Subset, FS_CardinalityType
<1> QED
  BY <1>2, TaskConstants DEF ControlTyped

LEMMA ControlKept ==
  ASSUME TasksInv, TaskNext
  PROVE  ControlTyped'
<1>0. StatusInv /\ ControlTyped
  BY DEF TasksInv
<1>1. CASE StartProtocol \/ StopProtocol \/ StopReturn \/ RegisterExecutor \/ TestStop \/ TakeNothing
  BY <1>0, <1>1 DEF StartProtocol, StopProtocol, StopReturn, RegisterExecutor, TestStop, TakeNothing,
                    taskState, control, ControlTyped
<1>2. ASSUME NEW t \in Tasks, DistributeTask(t) \/ ExecuteTask(t) PROVE ControlTyped'
  BY <1>0, <1>2 DEF DistributeTask, ExecuteTask, control, ControlTyped
<1>3. ASSUME NEW t \in Tasks, CancelTask(t) PROVE ControlTyped'
  <2>1. runningTasks' \subseteq runningTasks
    BY <1>3 DEF CancelTask
  <2>2. Cardinality(runningTasks') <= MaxConcurrentTasks
    BY <1>0, <2>1, SlotsFreed
  <2> QED
    BY <1>0, <1>3, <2>2 DEF CancelTask, control, ControlTyped
<1>4. ASSUME NEW t \in Tasks, TakeTask(t) PROVE ControlTyped'
  <2>1. IsFiniteSet(runningTasks)
    BY <1>0, TaskConstants, FS_Subset DEF StatusInv, CountsInv
  <2>2. Cardinality(runningTasks) < MaxConcurrentTasks /\ runningTasks' = runningTasks \cup {t}
    BY <1>4 DEF TakeTask, CanTake
  <2>3. /\ Cardinality(runningTasks) \in Nat
        /\ Cardinality(runningTasks \cup {t}) = IF t \in runningTasks THEN Cardinality(runningTasks)
                                                ELSE Cardinality(runningTasks) + 1
    BY <2>1, FS_CardinalityType, FS_AddElement
  <2>4. Cardinality(runningTasks') <= MaxConcurrentTasks
    BY <2>2, <2>3, TaskConstants
  <2> QED
    BY <1>0, <1>4, <2>4 DEF TakeTask, control, ControlTyped
<1>5. CASE SpawnThread
  BY <1>0, <1>5 DEF SpawnThread, control, ControlTyped
<1>6. ASSUME NEW t \in Tasks, FindExecutor(t) PROVE ControlTyped'
  BY <1>0, <1>6 DEF FindExecutor, control, ControlTyped
<1>7. ASSUME NEW t \in Tasks, NEW found \in BOOLEAN, NEW outcome \in Results(found),
             FinishTask(t, found, outcome)
      PROVE  ControlTyped'
  <2>1. runningTasks' \subseteq runningTasks
    BY <1>7 DEF FinishTask
  <2>2. Cardinality(runningTasks') <= MaxConcurrentTasks
    BY <1>0, <2>1, SlotsFreed
  <2>3. outcome \in {"none", "success", "failure"}
    BY <1>7, TaskConstants DEF Results
  <2>4. completedTasks' \in [Tasks -> {"none", "success", "failure"}]
    BY <1>0, <1>7, <2>3 DEF FinishTask, ControlTyped
  <2> QED
    BY <1>0, <1>7, <2>2, <2>4 DEF FinishTask, control, ControlTyped
<1> QED
  BY <1>1, <1>2, <1>3, <1>4, <1>5, <1>6, <1>7 DEF TaskNext, WorkerStep, ThreadStep

LEMMA TasksStart == TaskInit => TasksInv
<1> SUFFICES ASSUME TaskInit PROVE TasksInv
  OBVIOUS
<1>1. StatusInv
  BY StatusInvInit
<1>2. StatsTyped
  BY TaskConstants DEF TaskInit, StatsTyped
<1>3. Cardinality({}) = 0
  BY FS_EmptySet
<1>4. ControlTyped
  <2>1. Cardinality(runningTasks) <= MaxConcurrentTasks
    BY <1>3, TaskConstants DEF TaskInit
  <2>2. completedTasks \in [Tasks -> {"none", "success", "failure"}]
    BY DEF TaskInit
  <2>3. /\ hasExecutor \in BOOLEAN /\ protocolRunning \in BOOLEAN
        /\ stopWorker \in BOOLEAN /\ stopping \in BOOLEAN
        /\ worker \in {"off", "test", "lock", "spawn"}
    BY DEF TaskInit
  <2> QED
    BY <2>1, <2>2, <2>3 DEF ControlTyped
<1>5. Total(taskQueue) = 0 /\ Total(started) = 0
  <2>1. /\ taskQueue \in [Tasks -> Nat] /\ \A t \in Tasks : taskQueue[t] = 0
        /\ started \in [Tasks -> Nat] /\ \A t \in Tasks : started[t] = 0
    BY DEF TaskInit
  <2> QED
    BY <2>1, TaskConstants, SumZero DEF Total
<1>6. Total(executing) = 0
  <2> DEFINE S == Tasks \X BOOLEAN
  <2>1. IsFiniteSet(S) /\ executing \in [S -> Nat] /\ \A x \in S : executing[x] = 0
    BY TaskConstants DEF TaskInit
  <2> HIDE DEF S
  <2> QED
    BY <2>1, SumZero DEF Total
<1>7. TasksAccounted
  BY <1>3, <1>5, <1>6 DEF TaskInit, TasksAccounted
<1> QED
  BY <1>1, <1>2, <1>4, <1>7 DEF TasksInv

LEMMA TasksStep == TasksInv /\ [TaskNext]_taskVars => TasksInv'
<1> SUFFICES ASSUME TasksInv, [TaskNext]_taskVars PROVE TasksInv'
  OBVIOUS
<1>0. StatusInv'
  BY StatusInvNext DEF TasksInv
<1>1. CASE UNCHANGED taskVars
  <2>1. StatsTyped' /\ TasksAccounted'
    BY <1>1, NothingMoves DEF taskVars
  <2>2. ControlTyped'
    BY <1>1 DEF taskVars, TasksInv, ControlTyped
  <2> QED
    BY <1>0, <2>1, <2>2 DEF TasksInv
<1>2. CASE TaskNext
  <2>1. ControlTyped'
    BY <1>2, ControlKept
  <2>2. StatsTyped' /\ TasksAccounted'
    <3>1. CASE StartProtocol \/ StopProtocol \/ StopReturn \/ RegisterExecutor \/ TestStop \/ TakeNothing
      <4>1. UNCHANGED <<taskQueue, started, executing, hand, taskStats>>
        BY <3>1 DEF StartProtocol, StopProtocol, StopReturn, RegisterExecutor, TestStop, TakeNothing, taskState
      <4> QED
        BY <4>1, NothingMoves
    <3>2. ASSUME NEW t \in Tasks, ExecuteTask(t) \/ CancelTask(t) PROVE StatsTyped' /\ TasksAccounted'
      <4>1. UNCHANGED <<taskQueue, started, executing, hand, taskStats>>
        BY <3>2 DEF ExecuteTask, CancelTask
      <4> QED
        BY <4>1, NothingMoves
    <3> QED
      BY <1>0, <1>2, <3>1, <3>2, DistributeAccounted, TakeAccounted, SpawnAccounted, FindAccounted,
         FinishAccounted DEF TaskNext, WorkerStep, ThreadStep
  <2> QED
    BY <1>0, <2>1, <2>2 DEF TasksInv
<1> QED
  BY <1>1, <1>2

\* Every task that was distributed is in the queue, in a thread or counted.
THEOREM TasksAreAccounted == TaskSpec => []TasksAccounted
<1>1. TasksInv => TasksAccounted
  BY DEF TasksInv
<1> QED
  BY <1>1, TasksStart, TasksStep, PTL DEF TaskSpec

\* The types of the protocol: no more tasks are listed as running than there are slots,
\* and, because every task is accounted for, no count exceeds what was distributed.
THEOREM TaskTypeCorrect == TaskSpec => []TaskTypeOK
<1>1. ASSUME TasksInv PROVE TaskTypeOK
  <2>1. StatusInv /\ StatsTyped /\ ControlTyped /\ TasksAccounted
    BY <1>1 DEF TasksInv
  <2>2. /\ Total(taskQueue) \in Nat /\ Total(started) \in Nat /\ Total(executing) \in Nat /\ Cardinality(hand) \in Nat
        /\ \A t \in Tasks : taskQueue[t] <= Total(taskQueue) /\ started[t] <= Total(started)
        /\ \A x \in Tasks \X BOOLEAN : executing[x] <= Total(executing)
    BY <2>1, PartsCounted
  <2>3. taskStats.sent \in 0 .. MaxSent /\ taskStats.executed \in Nat /\ taskStats.failed \in Nat /\ MaxSent \in Nat
    BY <2>1, StatsFields, TaskConstants
  <2>4. Total(taskQueue) <= MaxSent /\ Total(started) <= MaxSent /\ Total(executing) <= MaxSent
    BY <2>1, <2>2, <2>3 DEF TasksAccounted
  <2>5. /\ taskQueue \in [Tasks -> Nat] /\ started \in [Tasks -> Nat]
        /\ executing \in [Tasks \X BOOLEAN -> Nat]
    BY <2>1 DEF StatusInv, CountsInv
  <2>6. taskQueue \in Counts(Tasks) /\ started \in Counts(Tasks)
    BY <2>2, <2>3, <2>4, <2>5 DEF Counts
  <2>7. executing \in Counts(Tasks \X BOOLEAN)
    <3> DEFINE S == Tasks \X BOOLEAN
    <3>1. executing \in [S -> Nat] /\ \A x \in S : executing[x] <= Total(executing)
      BY <2>2, <2>5
    <3> HIDE DEF S
    <3>2. executing \in Counts(S)
      BY <2>2, <2>3, <2>4, <3>1 DEF Counts
    <3> QED
      BY <3>2 DEF S
  <2>8. pendingTasks \subseteq Tasks /\ runningTasks \subseteq Tasks /\ hand \subseteq Tasks
    BY <2>1 DEF StatusInv, CountsInv, HandInv
  <2> QED
    BY <2>1, <2>6, <2>7, <2>8 DEF TaskTypeOK, ControlTyped, StatsTyped
<1> QED
  BY <1>1, TasksStart, TasksStep, PTL DEF TaskSpec

-----------------------------------------------------------------------------
(* The orchestration engine.  A promise is held by its submitTask, then by *)
(* the table under the id of its task, until it is resolved, broken by a   *)
(* later submission of the id, or failed by stop(); a task is queued, with *)
(* one worker, or counted.                                                 *)

Futures == {"open", "assigned", "failed", "cancelled", "broken"}

TasksTyped ==
  /\ submitted \in Seq(EngineTasks)
  /\ future \in [DOMAIN submitted -> Futures]
  /\ queued \subseteq DOMAIN submitted /\ registering \subseteq DOMAIN submitted
  /\ DOMAIN pendingPromises \subseteq EngineTasks
  /\ pendingPromises \in [DOMAIN pendingPromises -> DOMAIN submitted]

\* The table names the task that brought each promise, and the promise of a
\* submitTask under way is not in it yet.
TableInv ==
  /\ \A id \in DOMAIN pendingPromises : submitted[pendingPromises[id]] = id
  /\ \A n \in registering : ~Registered(n)

PromisesInv == TasksTyped /\ TableInv /\ OpenFutureHeld

ThreadsTyped ==
  /\ at \in [EngineWorkers -> {"off", "test", "wait", "run"}]
  /\ doing \in [EngineWorkers -> {0} \cup DOMAIN submitted]
  /\ engineStats \in [submitted : Nat, completed : Nat, failed : Nat]

\* A stopped engine has no thread.
LifeInv ==
  /\ knownNodes \subseteq Nodes
  /\ engineRunning \in BOOLEAN /\ shutdown \in BOOLEAN
  /\ engineStopping \in {"no", "queue", "join"}
  /\ engineRunning => engineStopping = "no"
  /\ ~engineRunning /\ engineStopping = "no" => \A w \in EngineWorkers : at[w] = "off"

EngineInv == PromisesInv /\ ThreadsTyped /\ TakenOnce /\ LifeInv

LEMMA EngineConstants ==
  /\ IsFiniteSet(EngineWorkers)
  /\ PriorityOf \in [EngineTasks -> Nat]
  /\ Viable \in [EngineTasks -> SUBSET Nodes]
BY EngineAssumption

LEMMA PromisesUntouched ==
  ASSUME PromisesInv, UNCHANGED <<submitted, registering, pendingPromises, future>>,
         queued' \subseteq queued
  PROVE  PromisesInv'
BY DEF PromisesInv, TasksTyped, TableInv, OpenFutureHeld, Registered

LEMMA PromisesFailed ==
  ASSUME PromisesInv, FailAllPending, UNCHANGED <<submitted, queued, registering>>
  PROVE  PromisesInv'
<1>1. DOMAIN pendingPromises' = {}
  BY DEF FailAllPending, EmptyMap
<1>2. /\ DOMAIN future = DOMAIN submitted
      /\ future' = [n \in DOMAIN submitted |-> IF Registered(n) THEN "cancelled" ELSE future[n]]
  BY DEF PromisesInv, TasksTyped, FailAllPending
<1>3. TasksTyped'
  <2>1. future' \in [DOMAIN submitted -> Futures]
    BY <1>2 DEF PromisesInv, TasksTyped, Futures
  <2>2. pendingPromises' \in [DOMAIN pendingPromises' -> DOMAIN submitted]
    BY DEF FailAllPending, EmptyMap
  <2> QED
    BY <1>1, <2>1, <2>2 DEF PromisesInv, TasksTyped
<1>4. \A n : ~Registered(n)'
  BY <1>1 DEF Registered
<1>5. TableInv'
  BY <1>1, <1>4 DEF TableInv
<1>6. OpenFutureHeld'
  BY <1>2, <1>4 DEF PromisesInv, TableInv, OpenFutureHeld
<1> QED
  BY <1>3, <1>5, <1>6 DEF PromisesInv

LEMMA PromiseMade ==
  ASSUME PromisesInv, NEW id \in EngineTasks, SubmitTask(id)
  PROVE  /\ PromisesInv'
         /\ Len(submitted) \in Nat
         /\ DOMAIN submitted = 1 .. Len(submitted)
         /\ DOMAIN submitted' = 1 .. Len(submitted) + 1
<1>0. PICK k : k = Len(submitted) + 1
  OBVIOUS
<1>1. submitted \in Seq(EngineTasks)
  BY DEF PromisesInv, TasksTyped
<1>2. /\ Len(submitted) \in Nat
      /\ DOMAIN submitted = 1 .. Len(submitted)
      /\ submitted' \in Seq(EngineTasks)
      /\ DOMAIN submitted' = 1 .. Len(submitted) + 1
      /\ \A n \in DOMAIN submitted : submitted'[n] = submitted[n]
      /\ k \notin DOMAIN submitted
  BY <1>0, <1>1 DEF SubmitTask
<1>3. future \in Seq(Futures) /\ Len(future) = Len(submitted)
  BY <1>2 DEF PromisesInv, TasksTyped
<1>4. /\ future' \in [DOMAIN submitted' -> Futures]
      /\ \A n \in DOMAIN submitted : future'[n] = future[n]
      /\ future'[k] = "open"
  <2>1. future' = Append(future, "open") /\ "open" \in Futures
    BY DEF SubmitTask, Futures
  <2>2. /\ future' \in Seq(Futures) /\ Len(future') = Len(submitted) + 1
        /\ \A n \in 1 .. Len(submitted) : future'[n] = future[n]
        /\ future'[Len(submitted) + 1] = "open"
    BY <1>3, <2>1
  <2>3. future' \in [1 .. Len(future') -> Futures]
    BY <2>2
  <2> QED
    BY <1>0, <1>2, <2>2, <2>3
<1>5. /\ queued' = queued \cup {k} /\ registering' = registering \cup {k}
      /\ pendingPromises' = pendingPromises
  BY <1>0 DEF SubmitTask
<1>6. DOMAIN submitted' = DOMAIN submitted \cup {k}
  BY <1>0, <1>2
<1>7. TasksTyped'
  BY <1>2, <1>4, <1>5, <1>6 DEF PromisesInv, TasksTyped
<1>8. \A n \in DOMAIN submitted : Registered(n)' <=> Registered(n)
  BY <1>2, <1>5 DEF Registered
<1>9. ~Registered(k)'
  BY <1>2, <1>5 DEF Registered, PromisesInv, TasksTyped
<1>10. TableInv'
  <2>1. \A i \in DOMAIN pendingPromises' : submitted'[pendingPromises'[i]] = i
    BY <1>2, <1>5 DEF PromisesInv, TasksTyped, TableInv
  <2>2. \A n \in registering' : ~Registered(n)'
    BY <1>5, <1>8, <1>9 DEF PromisesInv, TasksTyped, TableInv
  <2> QED
    BY <2>1, <2>2 DEF TableInv
<1>11. OpenFutureHeld'
  <2>1. DOMAIN future' = DOMAIN submitted \cup {k} /\ DOMAIN future = DOMAIN submitted
    BY <1>4, <1>6 DEF PromisesInv, TasksTyped
  <2> QED
    BY <1>2, <1>4, <1>5, <1>8, <2>1 DEF PromisesInv, OpenFutureHeld
<1> QED
  BY <1>2, <1>7, <1>10, <1>11 DEF PromisesInv

LEMMA PromiseStored ==
  ASSUME PromisesInv, NEW n \in registering, RegisterPromise(n)
  PROVE  PromisesInv'
<1> DEFINE id == submitted[n]
<1>1. n \in DOMAIN submitted /\ id \in EngineTasks /\ DOMAIN future = DOMAIN submitted
  BY DEF PromisesInv, TasksTyped
<1>2. /\ UNCHANGED <<submitted, queued>>
      /\ registering' = registering \ {n}
      /\ DOMAIN pendingPromises' = DOMAIN pendingPromises \cup {id}
      /\ pendingPromises' \in [DOMAIN pendingPromises' -> DOMAIN submitted]
      /\ pendingPromises'[id] = n
      /\ \A i \in DOMAIN pendingPromises \ {id} : pendingPromises'[i] = pendingPromises[i]
  BY <1>1 DEF RegisterPromise, Put, PromisesInv, TasksTyped
<1>3. future' = [m \in DOMAIN submitted |->
                   IF m # n /\ submitted[m] = id /\ Registered(m) THEN "broken" ELSE future[m]]
  BY <1>1 DEF RegisterPromise
<1>4. TasksTyped'
  <2>1. future' \in [DOMAIN submitted -> Futures]
    BY <1>3 DEF PromisesInv, TasksTyped, Futures
  <2> QED
    BY <1>1, <1>2, <2>1 DEF PromisesInv, TasksTyped
<1>5. \A m \in DOMAIN submitted : Registered(m)' <=> m = n \/ (submitted[m] # id /\ Registered(m))
  BY <1>1, <1>2 DEF Registered
<1>6. TableInv'
  BY <1>1, <1>2, <1>5 DEF PromisesInv, TasksTyped, TableInv
<1>7. OpenFutureHeld'
  <2> SUFFICES ASSUME NEW m \in DOMAIN submitted
               PROVE  future'[m] = "open" <=> m \in registering' \/ Registered(m)'
    BY <1>3 DEF OpenFutureHeld
  <2>1. future[m] = "open" <=> m \in registering \/ Registered(m)
    BY <1>1 DEF PromisesInv, OpenFutureHeld
  <2>2. m \in registering => ~Registered(m)
    BY DEF PromisesInv, TableInv
  <2>3. future'[m] = IF m # n /\ submitted[m] = id /\ Registered(m) THEN "broken" ELSE future[m]
    BY <1>3
  <2> QED
    BY <1>2, <1>5, <2>1, <2>2, <2>3
<1> QED
  BY <1>4, <1>6, <1>7 DEF PromisesInv

LEMMA PromiseResolved ==
  ASSUME PromisesInv, NEW id \in EngineTasks, NEW outcome \in {"assigned", "failed"},
         ResolvePromise(id, outcome), UNCHANGED <<submitted, queued, registering>>
  PROVE  PromisesInv'
<1>1. CASE id \notin DOMAIN pendingPromises
  BY <1>1, PromisesUntouched DEF ResolvePromise
<1>2. CASE id \in DOMAIN pendingPromises
  <2> DEFINE k == pendingPromises[id]
  <2>1. k \in DOMAIN submitted /\ submitted[k] = id /\ DOMAIN future = DOMAIN submitted
    BY <1>2 DEF PromisesInv, TasksTyped, TableInv
  <2>2. /\ future' = [future EXCEPT ![k] = outcome]
        /\ DOMAIN pendingPromises' = DOMAIN pendingPromises \ {id}
        /\ \A i \in DOMAIN pendingPromises' : pendingPromises'[i] = pendingPromises[i]
        /\ pendingPromises' \in [DOMAIN pendingPromises' -> DOMAIN submitted]
    BY <1>2 DEF ResolvePromise, Erase, PromisesInv, TasksTyped
  <2>3. TasksTyped'
    BY <2>1, <2>2 DEF PromisesInv, TasksTyped, Futures
  <2>4. Registered(k)
    BY <1>2, <2>1 DEF Registered
  <2>5. \A m \in DOMAIN submitted : Registered(m)' <=> m # k /\ Registered(m)
    BY <2>1, <2>2 DEF Registered
  <2>6. TableInv'
    BY <2>2, <2>5 DEF PromisesInv, TasksTyped, TableInv
  <2>7. OpenFutureHeld'
    <3> SUFFICES ASSUME NEW m \in DOMAIN submitted
                 PROVE  future'[m] = "open" <=> m \in registering' \/ Registered(m)'
      BY <2>1, <2>2 DEF OpenFutureHeld
    <3>1. future[m] = "open" <=> m \in registering \/ Registered(m)
      BY <2>1 DEF PromisesInv, OpenFutureHeld
    <3>2. m \in registering => ~Registered(m)
      BY DEF PromisesInv, TableInv
    <3>3. future'[m] = IF m = k THEN outcome ELSE future[m]
      BY <2>1, <2>2
    <3> HIDE DEF k
    <3> QED
      BY <2>4, <2>5, <3>1, <3>2, <3>3
  <2> QED
    BY <2>3, <2>6, <2>7 DEF PromisesInv
<1> QED
  BY <1>1, <1>2


\* The workers that are running a task.
Running == {w \in EngineWorkers : at[w] = "run"}

LEMMA QueuedFinite ==
  ASSUME TasksTyped
  PROVE  IsFiniteSet(queued) /\ Cardinality(queued) \in Nat
<1>1. IsFiniteSet(1 .. Len(submitted)) /\ queued \subseteq 1 .. Len(submitted)
  <2>1. Len(submitted) \in Nat /\ queued \subseteq 1 .. Len(submitted)
    BY DEF TasksTyped
  <2> QED
    BY <2>1, FS_Interval
<1>2. IsFiniteSet(queued)
  BY <1>1, FS_Subset
<1> QED
  BY <1>2, FS_CardinalityType

LEMMA RunningFinite == IsFiniteSet(Running) /\ Cardinality(Running) \in Nat
<1>1. IsFiniteSet(Running)
  BY EngineConstants, FS_Subset DEF Running
<1> QED
  BY <1>1, FS_CardinalityType

\* The books in the form the steps keep them.
LEMMA Taken ==
  TakenOnce <=>
    /\ engineStats.submitted + Cardinality(queued) = Len(submitted)
    /\ engineStats.submitted = engineStats.completed + engineStats.failed + Cardinality(Running)
    /\ \A w \in Running :
         /\ doing[w] \in DOMAIN submitted \ queued
         /\ \A v \in Running \ {w} : doing[v] # doing[w]
BY DEF TakenOnce, Running

\* A step that moves no task between queue, workers and counts.
LEMMA NoTaskMoves ==
  ASSUME ThreadsTyped, TakenOnce, UNCHANGED <<submitted, queued, doing, engineStats>>,
         at' \in [EngineWorkers -> {"off", "test", "wait", "run"}], Running' = Running
  PROVE  ThreadsTyped' /\ TakenOnce'
<1>1. ThreadsTyped'
  BY DEF ThreadsTyped
<1>2. TakenOnce'
  BY DEF TakenOnce, Running
<1> QED
  BY <1>1, <1>2

LEMMA TaskQueued ==
  ASSUME PromisesInv, ThreadsTyped, TakenOnce, NEW id \in EngineTasks, SubmitTask(id)
  PROVE  ThreadsTyped' /\ TakenOnce'
<1> DEFINE k == Len(submitted) + 1
<1>1. /\ Len(submitted) \in Nat /\ DOMAIN submitted = 1 .. Len(submitted)
      /\ DOMAIN submitted' = 1 .. k
      /\ queued \subseteq DOMAIN submitted
  BY PromiseMade DEF PromisesInv, TasksTyped
<1>2. /\ queued' = queued \cup {k} /\ UNCHANGED <<at, doing, engineStats>>
  BY DEF SubmitTask
<1>3. ThreadsTyped'
  <2>1. DOMAIN submitted \subseteq DOMAIN submitted'
    BY <1>1
  <2> QED
    BY <1>2, <2>1 DEF ThreadsTyped
<1>4. Cardinality(queued') = Cardinality(queued) + 1
  <2>1. k \notin queued
    BY <1>1
  <2>2. IsFiniteSet(queued)
    BY QueuedFinite DEF PromisesInv
  <2> HIDE DEF k
  <2> QED
    BY <1>2, <2>1, <2>2, FS_AddElement
<1>5. Len(submitted') = Len(submitted) + 1
  BY DEF SubmitTask, PromisesInv, TasksTyped
<1>6. /\ engineStats.submitted \in Nat /\ Cardinality(queued) \in Nat
      /\ engineStats.submitted + Cardinality(queued) = Len(submitted)
  BY QueuedFinite, Taken DEF ThreadsTyped, PromisesInv
<1>7. engineStats'.submitted + Cardinality(queued') = Len(submitted')
  BY <1>1, <1>2, <1>4, <1>5, <1>6
<1>8. \A n \in DOMAIN submitted \ queued : n \in DOMAIN submitted' \ queued'
  BY <1>1, <1>2
<1>9. TakenOnce'
  BY <1>2, <1>7, <1>8 DEF TakenOnce
<1> QED
  BY <1>3, <1>9

LEMMA TaskTaken ==
  ASSUME PromisesInv, ThreadsTyped, TakenOnce, NEW w \in EngineWorkers, Dequeue(w)
  PROVE  ThreadsTyped' /\ TakenOnce'
<1>1. PICK n \in queued : queued' = queued \ {n} /\ doing' = [doing EXCEPT ![w] = n]
  BY DEF Dequeue
<1>2. /\ at[w] = "wait" /\ at' = [at EXCEPT ![w] = "run"] /\ submitted' = submitted
      /\ engineStats' = [engineStats EXCEPT !.submitted = @ + 1]
  BY DEF Dequeue
<1>3. n \in DOMAIN submitted /\ Len(submitted) \in Nat
  BY <1>1 DEF PromisesInv, TasksTyped
<1>4. /\ engineStats.submitted \in Nat /\ engineStats.completed \in Nat
      /\ engineStats.failed \in Nat
      /\ engineStats'.submitted = engineStats.submitted + 1
      /\ engineStats'.completed = engineStats.completed
      /\ engineStats'.failed = engineStats.failed
      /\ engineStats' \in [submitted : Nat, completed : Nat, failed : Nat]
  BY <1>2 DEF ThreadsTyped
<1>5. /\ at' \in [EngineWorkers -> {"off", "test", "wait", "run"}]
      /\ doing' \in [EngineWorkers -> {0} \cup DOMAIN submitted]
      /\ Running' = Running \cup {w} /\ w \notin Running
      /\ doing'[w] = n /\ \A v \in EngineWorkers \ {w} : doing'[v] = doing[v]
  BY <1>1, <1>2, <1>3 DEF ThreadsTyped, Running
<1>6. ThreadsTyped'
  BY <1>2, <1>4, <1>5 DEF ThreadsTyped
<1>7. Cardinality(queued') = Cardinality(queued) - 1 /\ Cardinality(queued) \in Nat
  BY <1>1, QueuedFinite, FS_RemoveElement DEF PromisesInv
<1>8. Cardinality(Running') = Cardinality(Running) + 1 /\ Cardinality(Running) \in Nat
  BY <1>5, RunningFinite, FS_AddElement
<1>9. /\ engineStats.submitted + Cardinality(queued) = Len(submitted)
      /\ engineStats.submitted = engineStats.completed + engineStats.failed + Cardinality(Running)
      /\ \A v \in Running :
           /\ doing[v] \in DOMAIN submitted \ queued
           /\ \A u \in Running \ {v} : doing[u] # doing[v]
  BY Taken
<1>10. /\ engineStats'.submitted + Cardinality(queued') = Len(submitted')
       /\ engineStats'.submitted = engineStats'.completed + engineStats'.failed + Cardinality(Running')
  <2>1. /\ engineStats.submitted + 1 + (Cardinality(queued) - 1) = Len(submitted)
        /\ engineStats.submitted + 1
             = engineStats.completed + engineStats.failed + (Cardinality(Running) + 1)
    <3>1. /\ engineStats.submitted + Cardinality(queued) = Len(submitted)
          /\ engineStats.submitted
               = engineStats.completed + engineStats.failed + Cardinality(Running)
      BY <1>9
    <3>2. /\ engineStats.submitted \in Int /\ engineStats.completed \in Int
          /\ engineStats.failed \in Int /\ Cardinality(queued) \in Int
          /\ Cardinality(Running) \in Int
      BY <1>4, <1>7, <1>8
    <3> QED
      BY <3>1, <3>2
  <2>2. submitted' = submitted
    BY <1>2
  <2> QED
    BY <1>4, <1>7, <1>8, <2>1, <2>2
<1>11. \A v \in Running' :
         /\ doing'[v] \in DOMAIN submitted' \ queued'
         /\ \A u \in Running' \ {v} : doing'[u] # doing'[v]
  <2>1. \A v \in Running : v \in EngineWorkers \ {w}
    BY <1>5 DEF Running
  <2> QED
    BY <1>1, <1>2, <1>3, <1>5, <1>9, <2>1
<1>12. TakenOnce'
  BY <1>10, <1>11 DEF TakenOnce, Running
<1> QED
  BY <1>6, <1>12

LEMMA TaskRun ==
  ASSUME ThreadsTyped, TakenOnce, NEW w \in EngineWorkers, RunTask(w)
  PROVE  ThreadsTyped' /\ TakenOnce'
<1>1. /\ at[w] = "run" /\ at' = [at EXCEPT ![w] = "test"] /\ doing' = [doing EXCEPT ![w] = 0]
      /\ UNCHANGED <<submitted, queued>>
      /\ \/ engineStats' = [engineStats EXCEPT !.completed = @ + 1]
         \/ engineStats' = [engineStats EXCEPT !.failed = @ + 1]
  BY DEF RunTask
<1>2. /\ engineStats.submitted \in Nat /\ engineStats.completed \in Nat
      /\ engineStats.failed \in Nat
      /\ engineStats'.submitted = engineStats.submitted
      /\ engineStats'.completed + engineStats'.failed
           = engineStats.completed + engineStats.failed + 1
      /\ engineStats' \in [submitted : Nat, completed : Nat, failed : Nat]
  BY <1>1 DEF ThreadsTyped
<1>3. /\ at' \in [EngineWorkers -> {"off", "test", "wait", "run"}]
      /\ doing' \in [EngineWorkers -> {0} \cup DOMAIN submitted]
      /\ Running' = Running \ {w} /\ w \in Running
      /\ \A v \in EngineWorkers \ {w} : doing'[v] = doing[v]
  BY <1>1 DEF ThreadsTyped, Running
<1>4. ThreadsTyped'
  BY <1>1, <1>2, <1>3 DEF ThreadsTyped
<1>5. Cardinality(Running') = Cardinality(Running) - 1 /\ Cardinality(Running) \in Nat
  BY <1>3, RunningFinite, FS_RemoveElement
<1>6. /\ engineStats.submitted + Cardinality(queued) = Len(submitted)
      /\ engineStats.submitted = engineStats.completed + engineStats.failed + Cardinality(Running)
      /\ \A v \in Running :
           /\ doing[v] \in DOMAIN submitted \ queued
           /\ \A u \in Running \ {v} : doing[u] # doing[v]
  BY Taken
<1>7. /\ engineStats'.submitted + Cardinality(queued') = Len(submitted')
      /\ engineStats'.submitted = engineStats'.completed + engineStats'.failed + Cardinality(Running')
  <2>1. engineStats'.completed \in Nat /\ engineStats'.failed \in Nat
    BY <1>2
  <2> QED
    BY <1>1, <1>2, <1>5, <1>6, <2>1
<1>8. \A v \in Running' :
         /\ doing'[v] \in DOMAIN submitted' \ queued'
         /\ \A u \in Running' \ {v} : doing'[u] # doing'[v]
  <2>1. \A v \in Running \ {w} : v \in EngineWorkers \ {w}
    BY DEF Running
  <2> QED
    BY <1>1, <1>3, <1>6, <2>1
<1>9. TakenOnce'
  BY <1>7, <1>8 DEF TakenOnce, Running
<1> QED
  BY <1>4, <1>9

LEMMA EngineStarts == EngineInit => EngineInv
<1> SUFFICES ASSUME EngineInit PROVE EngineInv
  OBVIOUS
<1>1. /\ submitted = <<>> /\ queued = {} /\ registering = {} /\ future = <<>>
      /\ DOMAIN pendingPromises = {} /\ pendingPromises \in [{} -> {}]
      /\ DOMAIN submitted = {} /\ DOMAIN future = {} /\ Len(submitted) = 0
  BY DEF EngineInit, EmptyMap
<1>2. PromisesInv
  <2>1. TasksTyped
    BY <1>1 DEF TasksTyped
  <2>2. TableInv /\ OpenFutureHeld
    BY <1>1 DEF TableInv, OpenFutureHeld
  <2> QED
    BY <2>1, <2>2 DEF PromisesInv
<1>3. ThreadsTyped
  BY DEF EngineInit, ThreadsTyped
<1>4. TakenOnce
  <2>1. Running = {}
    BY DEF EngineInit, Running
  <2>2. Cardinality({}) = 0
    BY FS_EmptySet
  <2>3. engineStats.submitted = 0 /\ engineStats.completed = 0 /\ engineStats.failed = 0
    BY DEF EngineInit
  <2> QED
    BY <1>1, <2>1, <2>2, <2>3, Taken
<1>5. LifeInv
  BY DEF EngineInit, LifeInv
<1> QED
  BY <1>2, <1>3, <1>4, <1>5 DEF EngineInv

LEMMA EngineStep == EngineInv /\ [EngineNext]_engineVars => EngineInv'
<1> SUFFICES ASSUME EngineInv, [EngineNext]_engineVars PROVE EngineInv'
  OBVIOUS
<1>0. PromisesInv /\ ThreadsTyped /\ TakenOnce /\ LifeInv
  BY DEF EngineInv
<1>1. ASSUME UNCHANGED <<tasksVars, at, doing, engineStats>>
      PROVE  PromisesInv' /\ ThreadsTyped' /\ TakenOnce'
  <2>1. PromisesInv'
    BY <1>0, <1>1, PromisesUntouched DEF tasksVars
  <2>2. at' \in [EngineWorkers -> {"off", "test", "wait", "run"}] /\ Running' = Running
    BY <1>0, <1>1 DEF ThreadsTyped, Running
  <2> QED
    BY <1>0, <1>1, <2>1, <2>2, NoTaskMoves DEF tasksVars
<1>2. ASSUME UNCHANGED lifeVars, knownNodes' \in SUBSET Nodes,
             \A w \in EngineWorkers : at[w] = "off" => at'[w] = "off"
      PROVE  LifeInv'
  BY <1>0, <1>2 DEF lifeVars, LifeInv
<1>3. knownNodes \in SUBSET Nodes
  BY <1>0 DEF LifeInv
<1>4. CASE UNCHANGED engineVars
  <2>1. LifeInv'
    BY <1>2, <1>3, <1>4 DEF engineVars
  <2> QED
    BY <1>1, <1>4, <2>1 DEF engineVars, EngineInv
<1>5. CASE StartEngine
  <2>1. PromisesInv'
    BY <1>0, <1>5, PromisesUntouched DEF StartEngine, tasksVars
  <2>2. Running = {} /\ Running' = {} /\ at' \in [EngineWorkers -> {"off", "test", "wait", "run"}]
    BY <1>0, <1>5 DEF StartEngine, LifeInv, Running
  <2>3. ThreadsTyped' /\ TakenOnce'
    BY <1>0, <1>5, <2>2, NoTaskMoves DEF StartEngine, tasksVars
  <2>4. LifeInv'
    BY <1>0, <1>5 DEF StartEngine, LifeInv
  <2> QED
    BY <2>1, <2>3, <2>4 DEF EngineInv
<1>6. CASE StopEngine
  <2>1. LifeInv'
    BY <1>0, <1>6 DEF StopEngine, LifeInv
  <2> QED
    BY <1>1, <1>6, <2>1 DEF StopEngine, EngineInv
<1>7. CASE ShutdownQueue
  <2>1. LifeInv'
    BY <1>0, <1>7 DEF ShutdownQueue, LifeInv
  <2> QED
    BY <1>1, <1>7, <2>1 DEF ShutdownQueue, EngineInv
<1>8. CASE StoppedEngine
  <2>1. PromisesInv'
    BY <1>0, <1>8, PromisesFailed DEF StoppedEngine
  <2>2. at' \in [EngineWorkers -> {"off", "test", "wait", "run"}] /\ Running' = Running
    BY <1>0, <1>8 DEF StoppedEngine, ThreadsTyped, Running
  <2>3. ThreadsTyped' /\ TakenOnce'
    BY <1>0, <1>8, <2>2, NoTaskMoves DEF StoppedEngine
  <2>4. LifeInv'
    BY <1>0, <1>8 DEF StoppedEngine, LifeInv
  <2> QED
    BY <2>1, <2>3, <2>4 DEF EngineInv
<1>9. ASSUME NEW id \in EngineTasks, SubmitTask(id) PROVE EngineInv'
  <2>1. PromisesInv'
    BY <1>0, <1>9, PromiseMade
  <2>2. ThreadsTyped' /\ TakenOnce'
    BY <1>0, <1>9, TaskQueued
  <2>3. LifeInv'
    BY <1>2, <1>3, <1>9 DEF SubmitTask
  <2> QED
    BY <2>1, <2>2, <2>3 DEF EngineInv
<1>10. ASSUME NEW n \in registering, RegisterPromise(n) PROVE EngineInv'
  <2>1. PromisesInv'
    BY <1>0, <1>10, PromiseStored
  <2>2. at' \in [EngineWorkers -> {"off", "test", "wait", "run"}] /\ Running' = Running
    BY <1>0, <1>10 DEF RegisterPromise, ThreadsTyped, Running
  <2>3. ThreadsTyped' /\ TakenOnce'
    BY <1>0, <1>10, <2>2, NoTaskMoves DEF RegisterPromise
  <2>4. LifeInv'
    BY <1>2, <1>3, <1>10 DEF RegisterPromise
  <2> QED
    BY <2>1, <2>3, <2>4 DEF EngineInv
<1>11. ASSUME NEW p \in Nodes, RegisterNode(p) \/ UnregisterNode(p) PROVE EngineInv'
  <2>1. LifeInv'
    BY <1>2, <1>3, <1>11 DEF RegisterNode, UnregisterNode
  <2> QED
    BY <1>1, <1>11, <2>1 DEF RegisterNode, UnregisterNode, EngineInv
<1>12. ASSUME NEW w \in EngineWorkers, TestRunning(w) \/ EndWorker(w) PROVE EngineInv'
  <2>1. PromisesInv'
    BY <1>0, <1>12, PromisesUntouched DEF TestRunning, EndWorker, tasksVars
  <2>2. at' \in [EngineWorkers -> {"off", "test", "wait", "run"}] /\ Running' = Running
    BY <1>0, <1>12 DEF TestRunning, EndWorker, ThreadsTyped, Running
  <2>3. ThreadsTyped' /\ TakenOnce'
    BY <1>0, <1>12, <2>2, NoTaskMoves DEF TestRunning, EndWorker, tasksVars
  <2>4. \A v \in EngineWorkers : at[v] = "off" => at'[v] = "off"
    BY <1>0, <1>12 DEF TestRunning, EndWorker, ThreadsTyped
  <2>5. LifeInv'
    BY <1>2, <1>3, <1>12, <2>4 DEF TestRunning, EndWorker
  <2> QED
    BY <2>1, <2>3, <2>5 DEF EngineInv
<1>13. ASSUME NEW w \in EngineWorkers, Dequeue(w) PROVE EngineInv'
  <2>1. queued' \subseteq queued
    BY <1>13 DEF Dequeue
  <2>2. PromisesInv'
    BY <1>0, <1>13, <2>1, PromisesUntouched DEF Dequeue
  <2>3. ThreadsTyped' /\ TakenOnce'
    BY <1>0, <1>13, TaskTaken
  <2>4. \A v \in EngineWorkers : at[v] = "off" => at'[v] = "off"
    BY <1>0, <1>13 DEF Dequeue, ThreadsTyped
  <2>5. LifeInv'
    BY <1>2, <1>3, <1>13, <2>4 DEF Dequeue
  <2> QED
    BY <2>2, <2>3, <2>5 DEF EngineInv
<1>14. ASSUME NEW w \in EngineWorkers, RunTask(w) PROVE EngineInv'
  <2>1. doing[w] \in DOMAIN submitted
    BY <1>0, <1>14 DEF RunTask, TakenOnce
  <2>2. PICK id \in EngineTasks : id = submitted[doing[w]]
    BY <1>0, <2>1 DEF PromisesInv, TasksTyped
  <2>3. ResolvePromise(id, "assigned") \/ ResolvePromise(id, "failed")
    BY <1>14, <2>2 DEF RunTask
  <2>4. PromisesInv'
    BY <1>0, <1>14, <2>3, PromiseResolved DEF RunTask
  <2>5. ThreadsTyped' /\ TakenOnce'
    BY <1>0, <1>14, TaskRun
  <2>6. \A v \in EngineWorkers : at[v] = "off" => at'[v] = "off"
    BY <1>0, <1>14 DEF RunTask, ThreadsTyped
  <2>7. LifeInv'
    BY <1>2, <1>3, <1>14, <2>6 DEF RunTask
  <2> QED
    BY <2>4, <2>5, <2>7 DEF EngineInv
<1> QED
  BY <1>4, <1>5, <1>6, <1>7, <1>8, <1>9, <1>10, <1>11, <1>12, <1>13, <1>14
     DEF EngineNext, EngineWorkerStep

\* No promise is dropped and no task is lost or taken twice: an open future is held by its
\* submitTask or by pendingPromises_, and every submitted task is in the queue, with
\* exactly one worker, or counted as completed or failed, for any number of
\* workers, tasks and starts.
THEOREM EngineIsAccountable == EngineSpec => []EngineAccounts
<1>1. EngineInv => EngineAccounts
  BY DEF EngineInv, PromisesInv, EngineAccounts
<1> QED
  BY <1>1, EngineStarts, EngineStep, PTL DEF EngineSpec

\* The engine's variables keep their types: in particular every promise in the
\* table and every task with a worker is one that submitTask was given.
THEOREM EngineTypeCorrect == EngineSpec => []EngineTypeOK
<1>1. EngineInv => EngineTypeOK
  <2> SUFFICES ASSUME EngineInv PROVE EngineTypeOK
    OBVIOUS
  <2>1. IsMap(pendingPromises, EngineTasks, DOMAIN submitted)
    BY DEF EngineInv, PromisesInv, TasksTyped, IsMap
  <2>2. {engineRunning, shutdown} \subseteq BOOLEAN
    BY DEF EngineInv, LifeInv
  <2> QED
    BY <2>1, <2>2 DEF EngineInv, PromisesInv, TasksTyped, ThreadsTyped, LifeInv, Futures, EngineTypeOK
<1> QED
  BY <1>1, EngineStarts, EngineStep, PTL DEF EngineSpec

-----------------------------------------------------------------------------
(* The broadcast of settlements.  The mempool only grows, so it is enough  *)
(* that a call that is about to send holds a transaction of its own.       *)

OwnTransaction ==
  \A p \in Settlements : callAt[p] \in {"lock", "send"} => rawTx[p] \in RawTxs /\ rawTx[p].pays = p

BroadcastInv == BroadcastTypeOK /\ OwnTransaction /\ SettledIsBroadcast

LEMMA BroadcastStarts == BroadcastInit => BroadcastInv
<1> SUFFICES ASSUME BroadcastInit PROVE BroadcastInv
  OBVIOUS
<1>1. attempts \in [Settlements -> 0 .. MaxAttempts]
  BY BroadcastAssumption DEF BroadcastInit
<1>2. BroadcastTypeOK
  BY <1>1 DEF BroadcastInit, BroadcastTypeOK
<1> QED
  BY <1>2 DEF BroadcastInit, BroadcastInv, OwnTransaction, SettledIsBroadcast

\* What the steps of one call leave of the others, and of the transaction it holds.
LEMMA CallMoves ==
  ASSUME BroadcastInv, NEW p \in Settlements, Execute(p) \/ CallStep(p)
  PROVE  /\ nodeMempool \subseteq nodeMempool'
         /\ \A q \in Settlements \ {p} :
              callAt'[q] = callAt[q] /\ rawTx'[q] = rawTx[q] /\ settled'[q] = settled[q]
<1>1. callAt \in [Settlements -> {"idle", "build", "lock", "send"}]
      /\ settled \in [Settlements -> BOOLEAN]
      /\ rawTx \in [Settlements -> RawTxs \cup {NoTx}]
  BY DEF BroadcastInv, BroadcastTypeOK
<1>2. CASE Execute(p)
  BY <1>1, <1>2 DEF Execute
<1>3. CASE BuildRawTx(p)
  BY <1>1, <1>3 DEF BuildRawTx, ReturnFalse
<1>4. CASE LockBroadcast(p)
  BY <1>1, <1>4 DEF LockBroadcast
<1>5. CASE SendRawTx(p)
  BY <1>1, <1>5 DEF SendRawTx, NodeAccepts
<1>6. CASE AttemptFails(p)
  BY <1>1, <1>6 DEF AttemptFails, NodeAccepts, ReturnFalse
<1> QED
  BY <1>2, <1>3, <1>4, <1>5, <1>6 DEF CallStep

LEMMA BroadcastStep == BroadcastInv /\ [BroadcastNext]_broadcastVars => BroadcastInv'
<1> SUFFICES ASSUME BroadcastInv, [BroadcastNext]_broadcastVars PROVE BroadcastInv'
  OBVIOUS
<1>1. CASE UNCHANGED broadcastVars
  BY <1>1 DEF broadcastVars, callVars, BroadcastInv, BroadcastTypeOK, OwnTransaction, SettledIsBroadcast
<1>2. ASSUME NEW p \in Settlements, Execute(p) \/ CallStep(p) PROVE BroadcastInv'
  <2>0. /\ callAt \in [Settlements -> {"idle", "build", "lock", "send"}]
        /\ rawTx \in [Settlements -> RawTxs \cup {NoTx}]
        /\ attempts \in [Settlements -> 0 .. MaxAttempts]
        /\ settled \in [Settlements -> BOOLEAN]
        /\ nodeMempool \subseteq RawTxs /\ recentBroadcasts \subseteq RawTxs
        /\ anomalyDetected \in BOOLEAN
        /\ \A q \in Settlements : callAt[q] = "send" => broadcastMutex = q
    BY DEF BroadcastInv, BroadcastTypeOK
  <2>1. /\ nodeMempool \subseteq nodeMempool'
        /\ \A q \in Settlements \ {p} :
             callAt'[q] = callAt[q] /\ rawTx'[q] = rawTx[q] /\ settled'[q] = settled[q]
    BY <1>2, CallMoves
  <2>2. ASSUME settled'[p] => settled[p] \/ \E tx \in nodeMempool' : tx.pays = p
        PROVE  SettledIsBroadcast'
    BY <2>1, <2>2 DEF BroadcastInv, SettledIsBroadcast
  <2>3. ASSUME callAt'[p] \in {"lock", "send"} => rawTx'[p] \in RawTxs /\ rawTx'[p].pays = p
        PROVE  OwnTransaction'
    BY <2>1, <2>3 DEF BroadcastInv, OwnTransaction
  <2>4. CASE Execute(p)
    <3>1. BroadcastTypeOK'
      BY <2>0, <2>4 DEF Execute, BroadcastTypeOK
    <3> QED
      BY <2>0, <2>2, <2>3, <2>4, <3>1 DEF Execute, BroadcastInv
  <2>5. CASE BuildRawTx(p)
    <3>1. CASE ReturnFalse(p) /\ UNCHANGED rawTx
      <4>1. BroadcastTypeOK'
        BY <2>0, <2>5, <3>1 DEF BuildRawTx, ReturnFalse, BroadcastTypeOK
      <4> QED
        BY <2>0, <2>2, <2>3, <2>5, <3>1, <4>1 DEF BuildRawTx, ReturnFalse, BroadcastInv
    <3>2. CASE ~(ReturnFalse(p) /\ UNCHANGED rawTx)
      <4>1. PICK coins \in GreedyCoins :
              rawTx' = [rawTx EXCEPT ![p] = [pays |-> p, spends |-> coins]]
        BY <2>5, <3>2 DEF BuildRawTx
      <4>2. coins \in SUBSET DOMAIN Wallet
        BY DEF GreedyCoins, ListUnspent
      <4>3. [pays |-> p, spends |-> coins] \in RawTxs
        BY <4>2 DEF RawTxs
      <4>4. /\ callAt' = [callAt EXCEPT ![p] = "lock"]
            /\ UNCHANGED <<settled, recentBroadcasts, anomalyDetected, attempts, broadcastMutex,
                           nodeMempool>>
        BY <2>5, <3>2 DEF BuildRawTx
      <4>5. BroadcastTypeOK'
        BY <2>0, <4>1, <4>3, <4>4 DEF BroadcastTypeOK
      <4> QED
        BY <2>0, <2>2, <2>3, <4>1, <4>3, <4>4, <4>5 DEF BroadcastInv
    <3> QED
      BY <3>1, <3>2
  <2>6. CASE LockBroadcast(p)
    <3>1. 0 \in 0 .. MaxAttempts
      BY BroadcastAssumption
    <3>2. \A q \in Settlements : callAt[q] # "send"
      BY <2>0, <2>6, BroadcastAssumption DEF LockBroadcast
    <3>3. \A q \in Settlements : callAt'[q] = "send" => broadcastMutex' = q
      BY <2>1, <2>6, <3>2 DEF LockBroadcast
    <3>4. BroadcastTypeOK'
      BY <2>0, <2>6, <3>1, <3>3 DEF LockBroadcast, BroadcastTypeOK
    <3>5. rawTx[p] \in RawTxs /\ rawTx[p].pays = p
      BY <2>6 DEF LockBroadcast, BroadcastInv, OwnTransaction
    <3> QED
      BY <2>0, <2>2, <2>3, <2>6, <3>4, <3>5 DEF LockBroadcast, BroadcastInv
  <2>7. CASE SendRawTx(p)
    <3>1. rawTx[p] \in RawTxs /\ rawTx[p].pays = p
      BY <2>7 DEF SendRawTx, BroadcastInv, OwnTransaction
    <3>2. \A q \in Settlements : callAt'[q] = "send" => broadcastMutex' = q
      BY <2>0, <2>1, <2>7 DEF SendRawTx
    <3>3. nodeMempool' = nodeMempool \cup {rawTx[p]}
      BY <2>7 DEF SendRawTx, NodeAccepts
    <3>4. BroadcastTypeOK'
      BY <2>0, <2>7, <3>1, <3>2, <3>3 DEF SendRawTx, BroadcastTypeOK
    <3> QED
      BY <2>0, <2>2, <2>3, <2>7, <3>1, <3>3, <3>4 DEF SendRawTx, BroadcastInv
  <2>8. CASE AttemptFails(p)
    <3>1. rawTx[p] \in RawTxs /\ rawTx[p].pays = p
      BY <2>8 DEF AttemptFails, BroadcastInv, OwnTransaction
    <3>2. nodeMempool' \subseteq RawTxs
      BY <2>0, <2>8, <3>1 DEF AttemptFails, NodeAccepts
    <3>3. attempts' \in [Settlements -> 0 .. MaxAttempts]
      <4>1. attempts[p] \in 0 .. MaxAttempts /\ attempts[p] + 1 <= MaxAttempts
        BY <2>0, <2>8, BroadcastAssumption DEF AttemptFails
      <4>2. attempts[p] + 1 \in 0 .. MaxAttempts
        BY <4>1, BroadcastAssumption
      <4> QED
        BY <2>0, <2>8, <4>2 DEF AttemptFails
    <3>4. /\ callAt' \in [Settlements -> {"idle", "build", "lock", "send"}]
          /\ UNCHANGED <<rawTx, settled, recentBroadcasts>> /\ anomalyDetected' \in BOOLEAN
          /\ \/ UNCHANGED <<callAt, broadcastMutex>>
             \/ callAt'[p] = "idle"
      BY <2>0, <2>8 DEF AttemptFails, ReturnFalse
    <3>5. \A q \in Settlements : callAt'[q] = "send" => broadcastMutex' = q
      BY <2>0, <2>1, <2>8, <3>4 DEF AttemptFails
    <3>6. BroadcastTypeOK'
      BY <2>0, <3>2, <3>3, <3>4, <3>5 DEF BroadcastTypeOK
    <3> QED
      BY <2>2, <2>3, <3>1, <3>4, <3>6 DEF BroadcastInv
  <2> QED
    BY <1>2, <2>4, <2>5, <2>6, <2>7, <2>8 DEF CallStep
<1> QED
  BY <1>1, <1>2 DEF BroadcastNext

\* A settlement that execute reported as done is in the node's mempool, however
\* many threads selected the same coins, retried and lost answers.
THEOREM SettlementsReachTheNode == BroadcastSpec => []SettledIsBroadcast
<1>1. BroadcastInv => SettledIsBroadcast
  BY DEF BroadcastInv
<1> QED
  BY <1>1, BroadcastStarts, BroadcastStep, PTL DEF BroadcastSpec

\* The variables keep their types, and only the thread that holds broadcastMutex_ sends.
THEOREM BroadcastTypeCorrect == BroadcastSpec => []BroadcastTypeOK
<1>1. BroadcastInv => BroadcastTypeOK
  BY DEF BroadcastInv
<1> QED
  BY <1>1, BroadcastStarts, BroadcastStep, PTL DEF BroadcastSpec

-----------------------------------------------------------------------------
(* The events of the Bitcoin adapter.  A thread that asks about a block    *)
(* asks above the last height it has seen, and no header it handed over is *)
(* above that height; the tip of the node never falls.                     *)

Places == {"off", "test", "height", "hash", "header"}
Headers == [height : Nat, block : Nat]
States == [running : BOOLEAN, at : Places, lastSeenHeight : Nat, tip : Nat, block : Nat,
           onBlock : Seq(Headers)]

Rising(headers) ==
  \A i, j \in DOMAIN headers : i < j => headers[i].height < headers[j].height

StateSound(state, top) ==
  /\ state \in States
  /\ state.tip <= top /\ state.lastSeenHeight <= top
  /\ state.at \in {"hash", "header"} => state.lastSeenHeight < state.tip
  /\ Rising(state.onBlock)
  /\ \A i \in DOMAIN state.onBlock : state.onBlock[i].height <= state.lastSeenHeight

NodeInv ==
  /\ bestChain \in Seq(Nat) /\ Len(bestChain) \in 1 .. MaxTip
  /\ nodeUp \in BOOLEAN /\ outages \in 0 .. MaxOutages

EventsInv ==
  /\ NodeInv
  /\ joining \in BOOLEAN
  /\ Len(btcStates) <= MaxInits
  /\ btcStates \in Seq(States)
  /\ \A s \in DOMAIN btcStates : StateSound(btcStates[s], Len(bestChain))

LEMMA EventsConstants == MaxInits \in Nat /\ MaxTip \in Nat \ {0} /\ MaxOutages \in Nat
BY EventsAssumption

\* The fields that each move of a thread sets.
LEMMA GoToFields ==
  ASSUME NEW r \in States, NEW p \in Places, NEW g, g = GoTo(p, r)
  PROVE  /\ g \in States /\ g.at = p /\ g.running = r.running /\ g.tip = r.tip
         /\ g.lastSeenHeight = r.lastSeenHeight /\ g.block = r.block /\ g.onBlock = r.onBlock
BY DEF GoTo, States

LEMMA SwitchedFields ==
  ASSUME NEW r \in States, NEW on \in BOOLEAN, NEW g, g = Switched(on, r)
  PROVE  /\ g \in States /\ g.at = r.at /\ g.tip = r.tip
         /\ g.lastSeenHeight = r.lastSeenHeight /\ g.block = r.block /\ g.onBlock = r.onBlock
BY DEF Switched, States

LEMMA TipFields ==
  ASSUME NEW r \in States, NEW h \in Nat, NEW g, g = WithTip(h, r)
  PROVE  /\ g \in States /\ g.at = r.at /\ g.tip = h
         /\ g.lastSeenHeight = r.lastSeenHeight /\ g.onBlock = r.onBlock
BY DEF WithTip, States

LEMMA BlockFields ==
  ASSUME NEW r \in States, NEW b \in Nat, NEW g, g = WithBlock(b, r)
  PROVE  /\ g \in States /\ g.at = r.at /\ g.tip = r.tip
         /\ g.lastSeenHeight = r.lastSeenHeight /\ g.onBlock = r.onBlock
BY DEF WithBlock, States

LEMMA ReportedFields ==
  ASSUME NEW r \in States, NEW g, g = Reported(r)
  PROVE  /\ g \in States /\ g.at = r.at /\ g.tip = r.tip
         /\ g.lastSeenHeight = r.lastSeenHeight
         /\ \E header \in Headers : header.height = r.tip /\ g.onBlock = Append(r.onBlock, header)
<1> DEFINE header == [height |-> r.tip, block |-> r.block]
<1>1. header \in Headers /\ header.height = r.tip
  BY DEF States, Headers
<1>2. PICK q \in Seq(Headers) : q = Append(r.onBlock, header)
  <2>1. PICK o \in Seq(Headers) : o = r.onBlock
    BY DEF States
  <2>2. Append(o, header) \in Seq(Headers)
    <3> HIDE DEF header
    <3> QED
      BY <1>1
  <2> QED
    BY <2>1, <2>2
<1>3. g = [r EXCEPT !.onBlock = q]
  BY <1>2 DEF Reported
<1>4. g \in States /\ g.at = r.at /\ g.tip = r.tip /\ g.lastSeenHeight = r.lastSeenHeight
      /\ g.onBlock = q
  BY <1>3 DEF States
<1> QED
  BY <1>1, <1>2, <1>4

LEMMA SeenFields ==
  ASSUME NEW r \in States, NEW g, g = Seen(r)
  PROVE  /\ g \in States /\ g.at = r.at /\ g.tip = r.tip
         /\ g.lastSeenHeight = r.tip /\ g.onBlock = r.onBlock
BY DEF Seen, States

\* One more header, above the last height that was seen.
LEMMA HeaderOnTop ==
  ASSUME NEW q \in Seq(Headers), NEW low \in Nat, Rising(q),
         \A i \in DOMAIN q : q[i].height <= low,
         NEW header \in Headers, low < header.height
  PROVE  /\ Rising(Append(q, header))
         /\ \A i \in DOMAIN Append(q, header) : Append(q, header)[i].height <= header.height
<1> DEFINE r == Append(q, header)
<1>1. /\ Len(q) \in Nat /\ DOMAIN q = 1 .. Len(q) /\ DOMAIN r = 1 .. Len(q) + 1
      /\ \A i \in 1 .. Len(q) : r[i] = q[i]
      /\ r[Len(q) + 1] = header
  OBVIOUS
<1> HIDE DEF r
<1>2. header.height \in Nat /\ \A i \in 1 .. Len(q) : q[i].height \in Nat
  <2>1. \A h \in Headers : h.height \in Nat
    BY DEF Headers
  <2>2. \A i \in 1 .. Len(q) : q[i] \in Headers
    OBVIOUS
  <2> QED
    BY <2>1, <2>2
<1>3. \A i \in 1 .. Len(q) : r[i].height < header.height
  <2> SUFFICES ASSUME NEW i \in 1 .. Len(q) PROVE q[i].height < header.height
    BY <1>1
  <2>1. q[i].height <= low /\ q[i].height \in Nat
    BY <1>1, <1>2
  <2> QED
    BY <1>2, <2>1
<1>4. Rising(r)
  BY <1>1, <1>3 DEF Rising
<1>5. \A i \in DOMAIN r : r[i].height <= header.height
  <2> SUFFICES ASSUME NEW i \in DOMAIN r PROVE r[i].height <= header.height
    OBVIOUS
  <2>1. CASE i \in 1 .. Len(q)
    BY <1>1, <1>2, <1>3, <2>1
  <2>2. CASE i = Len(q) + 1
    BY <1>1, <1>2, <2>2
  <2> QED
    BY <1>1, <2>1, <2>2
<1> QED
  BY <1>4, <1>5 DEF r

\* A step of one state's thread or of a call about it.
LEMMA StateMoves ==
  ASSUME EventsInv, NEW s \in DOMAIN btcStates, NEW r, StateSound(r, Len(bestChain)),
         btcStates' = [btcStates EXCEPT ![s] = r], UNCHANGED nodeVars, joining' \in BOOLEAN
  PROVE  EventsInv'
<1>1. r \in States
  BY DEF StateSound
<1>2. /\ btcStates' \in Seq(States) /\ Len(btcStates') = Len(btcStates)
      /\ DOMAIN btcStates' = DOMAIN btcStates
      /\ \A t \in DOMAIN btcStates : btcStates'[t] = IF t = s THEN r ELSE btcStates[t]
  BY <1>1 DEF EventsInv
<1>3. bestChain' = bestChain /\ NodeInv'
  BY DEF EventsInv, NodeInv, nodeVars
<1>4. \A t \in DOMAIN btcStates' : StateSound(btcStates'[t], Len(bestChain'))
  BY <1>2, <1>3 DEF EventsInv
<1> QED
  BY <1>2, <1>3, <1>4 DEF EventsInv

\* A step of the node.
LEMMA NodeMoves ==
  ASSUME EventsInv, NodeInv', Len(bestChain) <= Len(bestChain'), UNCHANGED <<btcStates, joining>>
  PROVE  EventsInv'
<1>1. ASSUME NEW t \in DOMAIN btcStates PROVE StateSound(btcStates[t], Len(bestChain'))
  <2>1. StateSound(btcStates[t], Len(bestChain)) /\ Len(bestChain) \in Nat /\ Len(bestChain') \in Nat
    BY DEF EventsInv, NodeInv
  <2>2. btcStates[t].tip \in Nat /\ btcStates[t].lastSeenHeight \in Nat
    BY <2>1 DEF StateSound, States
  <2> QED
    BY <2>1, <2>2 DEF StateSound
<1> QED
  BY <1>1 DEF EventsInv

LEMMA EventsStart == EventsInit => EventsInv
<1> SUFFICES ASSUME EventsInit PROVE EventsInv
  OBVIOUS
<1>1. NodeInv
  <2>1. bestChain \in Seq(Nat) /\ Len(bestChain) = 1
    BY DEF EventsInit
  <2>2. 1 \in 1 .. MaxTip /\ 0 \in 0 .. MaxOutages
    BY EventsConstants
  <2> QED
    BY <2>1, <2>2 DEF EventsInit, NodeInv
<1>2. btcStates = <<>> /\ joining = FALSE
  BY DEF EventsInit
<1>3. Len(btcStates) = 0 /\ DOMAIN btcStates = {} /\ btcStates \in Seq(States)
  BY <1>2
<1>4. Len(btcStates) <= MaxInits
  BY <1>3, EventsConstants
<1> QED
  BY <1>1, <1>2, <1>3, <1>4 DEF EventsInv

LEMMA NodeStep ==
  ASSUME EventsInv, NodeMines \/ NodeReorganises \/ NodeFails \/ NodeReturns
  PROVE  EventsInv'
<1>0. NodeInv
  BY DEF EventsInv
<1>1. CASE NodeMines
  <2>1. bestChain[Len(bestChain)] \in Nat
    BY <1>0 DEF NodeInv
  <2>2. bestChain' \in Seq(Nat) /\ Len(bestChain') = Len(bestChain) + 1
    BY <1>0, <1>1, <2>1 DEF NodeMines, NodeInv
  <2>3. Len(bestChain') \in 1 .. MaxTip
    BY <1>0, <1>1, <2>2, EventsConstants DEF NodeMines, NodeInv
  <2>4. NodeInv' /\ Len(bestChain) <= Len(bestChain')
    BY <1>0, <1>1, <2>2, <2>3 DEF NodeMines, NodeInv
  <2> QED
    BY <1>1, <2>4, NodeMoves DEF NodeMines
<1>2. CASE NodeReorganises
  <2>1. PICK branch \in Nat : branch = bestChain[Len(bestChain)] + 1
    BY <1>0 DEF NodeInv
  <2>2. PICK q : q = [bestChain EXCEPT ![Len(bestChain)] = branch]
    OBVIOUS
  <2>3. q \in Seq(Nat) /\ Len(q) = Len(bestChain)
    BY <1>0, <2>1, <2>2 DEF NodeInv
  <2>4. bestChain' = Append(q, branch)
    BY <1>2, <2>1, <2>2 DEF NodeReorganises
  <2>5. bestChain' \in Seq(Nat) /\ Len(bestChain') = Len(bestChain) + 1
    BY <2>1, <2>3, <2>4
  <2>6. Len(bestChain') \in 1 .. MaxTip
    BY <1>0, <1>2, <2>5, EventsConstants DEF NodeReorganises, NodeInv
  <2>7. NodeInv' /\ Len(bestChain) <= Len(bestChain')
    BY <1>0, <1>2, <2>5, <2>6 DEF NodeReorganises, NodeInv
  <2> QED
    BY <1>2, <2>7, NodeMoves DEF NodeReorganises
<1>3. CASE NodeFails \/ NodeReturns
  <2>1. outages' \in 0 .. MaxOutages
    <3>1. outages \in 0 .. MaxOutages
      BY <1>0 DEF NodeInv
    <3>2. outages' = outages \/ (outages < MaxOutages /\ outages' = outages + 1)
      BY <1>3 DEF NodeFails, NodeReturns
    <3> QED
      BY <3>1, <3>2, EventsConstants
  <2>2. bestChain' = bestChain /\ nodeUp' \in BOOLEAN
    BY <1>3 DEF NodeFails, NodeReturns
  <2>3. NodeInv'
    BY <1>0, <2>1, <2>2 DEF NodeInv
  <2>4. Len(bestChain) <= Len(bestChain')
    BY <1>0, <2>2 DEF NodeInv
  <2> QED
    BY <1>3, <2>3, <2>4, NodeMoves DEF NodeFails, NodeReturns
<1> QED
  BY <1>1, <1>2, <1>3

LEMMA AdapterCalls ==
  ASSUME EventsInv, InitAdapter \/ StartAdapter \/ StopAdapter \/ JoinedAdapter
  PROVE  EventsInv'
<1>0. /\ Len(bestChain) \in Nat /\ Len(btcStates) \in Nat /\ Len(btcStates) <= MaxInits
      /\ btcStates \in Seq(States)
      /\ \A s \in DOMAIN btcStates : StateSound(btcStates[s], Len(bestChain))
  BY DEF EventsInv, NodeInv
<1>1. CASE InitAdapter
  <2>1. /\ BtcState.tip = 0 /\ BtcState.lastSeenHeight = 0 /\ BtcState.at = "off"
        /\ BtcState.onBlock = <<>> /\ BtcState \in States
    BY DEF BtcState, States, Places
  <2>2. StateSound(BtcState, Len(bestChain))
    <3>1. DOMAIN BtcState.onBlock = {}
      BY <2>1
    <3> QED
      BY <1>0, <2>1, <3>1 DEF StateSound, Rising
  <2>3. /\ btcStates' \in Seq(States) /\ Len(btcStates') = Len(btcStates) + 1
        /\ DOMAIN btcStates' = 1 .. Len(btcStates) + 1
        /\ \A t \in 1 .. Len(btcStates) : btcStates'[t] = btcStates[t]
        /\ btcStates'[Len(btcStates) + 1] = BtcState
    <3> HIDE DEF BtcState
    <3> QED
      BY <1>0, <1>1, <2>1 DEF InitAdapter
  <2>4. \A t \in DOMAIN btcStates' : StateSound(btcStates'[t], Len(bestChain'))
    <3>1. bestChain' = bestChain
      BY <1>1 DEF InitAdapter, nodeVars
    <3> QED
      BY <1>0, <2>2, <2>3, <3>1
  <2>5. NodeInv' /\ joining' \in BOOLEAN
    BY <1>1 DEF InitAdapter, nodeVars, EventsInv, NodeInv
  <2>6. Len(btcStates') <= MaxInits
    BY <1>0, <1>1, <2>3, EventsConstants DEF InitAdapter, Current
  <2> QED
    BY <2>3, <2>4, <2>5, <2>6 DEF EventsInv
<1>2. CASE StartAdapter
  <2>1. PICK s \in DOMAIN btcStates : s = Current
    BY <1>0, <1>2 DEF StartAdapter, Current
  <2>2. PICK r : r = Switched(TRUE, btcStates[s])
    OBVIOUS
  <2>3. PICK g : g = GoTo("test", r)
    OBVIOUS
  <2>4. btcStates' = [btcStates EXCEPT ![s] = g]
    BY <1>2, <2>1, <2>2, <2>3 DEF StartAdapter
  <2>5. StateSound(g, Len(bestChain))
    <3>1. StateSound(btcStates[s], Len(bestChain)) /\ btcStates[s] \in States
      BY <1>0 DEF StateSound
    <3>2. "test" \in Places
      BY DEF Places
    <3>3. /\ r \in States /\ r.tip = btcStates[s].tip /\ r.onBlock = btcStates[s].onBlock
          /\ r.lastSeenHeight = btcStates[s].lastSeenHeight
      BY <2>2, <3>1, SwitchedFields
    <3>4. /\ g \in States /\ g.at = "test" /\ g.tip = r.tip /\ g.onBlock = r.onBlock
          /\ g.lastSeenHeight = r.lastSeenHeight
      BY <2>3, <3>2, <3>3, GoToFields
    <3> QED
      BY <3>1, <3>3, <3>4 DEF StateSound
  <2> QED
    BY <1>2, <2>4, <2>5, StateMoves DEF StartAdapter, EventsInv
<1>3. CASE StopAdapter
  <2>1. PICK s \in DOMAIN btcStates : s = Current
    BY <1>0, <1>3 DEF StopAdapter, Current
  <2>2. PICK r : r = Switched(FALSE, btcStates[s])
    OBVIOUS
  <2>3. btcStates' = [btcStates EXCEPT ![s] = r]
    BY <1>3, <2>1, <2>2 DEF StopAdapter
  <2>4. StateSound(r, Len(bestChain))
    <3>1. StateSound(btcStates[s], Len(bestChain)) /\ btcStates[s] \in States
      BY <1>0 DEF StateSound
    <3>2. /\ r \in States /\ r.at = btcStates[s].at /\ r.tip = btcStates[s].tip
          /\ r.onBlock = btcStates[s].onBlock /\ r.lastSeenHeight = btcStates[s].lastSeenHeight
      BY <2>2, <3>1, SwitchedFields
    <3> QED
      BY <3>1, <3>2 DEF StateSound
  <2> QED
    BY <1>3, <2>3, <2>4, StateMoves DEF StopAdapter
<1>4. CASE JoinedAdapter
  BY <1>4 DEF JoinedAdapter, EventsInv, NodeInv, nodeVars
<1> QED
  BY <1>1, <1>2, <1>3, <1>4

LEMMA ThreadMoves ==
  ASSUME EventsInv, NEW s \in DOMAIN btcStates, EventStep(s)
  PROVE  EventsInv'
<1> DEFINE b == btcStates[s]
           top == Len(bestChain)
<1>0. StateSound(b, top) /\ b \in States /\ top \in Nat
  BY DEF EventsInv, NodeInv, StateSound
<1>1. UNCHANGED nodeVars /\ joining' \in BOOLEAN
  BY DEF EventStep, TestLoop, AskHeight, AskHash, AskHeader, EventsInv
<1>2. Places = {"off", "test", "height", "hash", "header"} /\ \A p \in Places : p \in Places
  BY DEF Places
<1> SUFFICES \E g : btcStates' = [btcStates EXCEPT ![s] = g] /\ StateSound(g, top)
  BY <1>1, StateMoves
\* A thread that goes where it asks about no block.
<1>3. ASSUME NEW p \in {"off", "test", "height"}, btcStates' = [btcStates EXCEPT ![s] = GoTo(p, b)]
      PROVE  \E g : btcStates' = [btcStates EXCEPT ![s] = g] /\ StateSound(g, top)
  <2>1. PICK g : g = GoTo(p, b)
    OBVIOUS
  <2>2. p \in Places
    BY <1>2
  <2>3. /\ g \in States /\ g.at = p /\ g.tip = b.tip /\ g.onBlock = b.onBlock
        /\ g.lastSeenHeight = b.lastSeenHeight
    <3> HIDE DEF b
    <3> QED
      BY <1>0, <2>1, <2>2, GoToFields
  <2>4. StateSound(g, top)
    BY <1>0, <2>3 DEF StateSound
  <2> QED
    BY <1>3, <2>1, <2>4
<1>4. CASE TestLoop(s)
  <2>1. \/ btcStates' = [btcStates EXCEPT ![s] = GoTo("height", b)]
        \/ btcStates' = [btcStates EXCEPT ![s] = GoTo("off", b)]
    BY <1>4 DEF TestLoop
  <2> QED
    BY <1>3, <2>1
<1>5. CASE AskHeight(s)
  <2>1. CASE ~(nodeUp /\ Len(bestChain) > btcStates[s].lastSeenHeight)
    <3>1. btcStates' = [btcStates EXCEPT ![s] = GoTo("test", b)]
      BY <1>5, <2>1 DEF AskHeight
    <3> QED
      BY <1>3, <3>1
  <2>2. CASE nodeUp /\ Len(bestChain) > btcStates[s].lastSeenHeight
    <3>1. PICK r : r = WithTip(top, b)
      OBVIOUS
    <3>2. PICK g : g = GoTo("hash", r)
      OBVIOUS
    <3>3. btcStates' = [btcStates EXCEPT ![s] = g]
      BY <1>5, <2>2, <3>1, <3>2 DEF AskHeight
    <3>4. /\ r \in States /\ r.tip = top /\ r.onBlock = b.onBlock
          /\ r.lastSeenHeight = b.lastSeenHeight
      <4> HIDE DEF b, top
      <4> QED
        BY <1>0, <3>1, TipFields
    <3>5. /\ g \in States /\ g.tip = top /\ g.onBlock = b.onBlock
          /\ g.lastSeenHeight = b.lastSeenHeight
      BY <1>2, <3>2, <3>4, GoToFields
    <3>6. StateSound(g, top)
      BY <1>0, <2>2, <3>5 DEF StateSound
    <3> QED
      BY <3>3, <3>6
  <2> QED
    BY <2>1, <2>2
<1>6. CASE AskHash(s)
  <2>1. CASE ~nodeUp
    <3>1. btcStates' = [btcStates EXCEPT ![s] = GoTo("test", b)]
      BY <1>6, <2>1 DEF AskHash
    <3> QED
      BY <1>3, <3>1
  <2>2. CASE nodeUp
    <3>0. b.at = "hash" /\ b.tip \in Nat /\ b.lastSeenHeight \in Nat
      BY <1>0, <1>6 DEF AskHash, States
    <3>1. b.lastSeenHeight < b.tip /\ b.tip <= top
      BY <1>0, <3>0 DEF StateSound
    <3>2. bestChain[b.tip] \in Nat
      <4>1. b.tip \in 1 .. Len(bestChain) /\ bestChain \in Seq(Nat)
        BY <1>0, <3>0, <3>1 DEF EventsInv, NodeInv
      <4> HIDE DEF b
      <4> QED
        BY <4>1
    <3>3. PICK r : r = WithBlock(bestChain[b.tip], b)
      OBVIOUS
    <3>4. PICK g : g = GoTo("header", r)
      OBVIOUS
    <3>5. btcStates' = [btcStates EXCEPT ![s] = g]
      BY <1>6, <2>2, <3>3, <3>4 DEF AskHash
    <3>6. /\ r \in States /\ r.tip = b.tip /\ r.onBlock = b.onBlock
          /\ r.lastSeenHeight = b.lastSeenHeight
      <4> HIDE DEF b
      <4> QED
        BY <1>0, <3>2, <3>3, BlockFields
    <3>7. /\ g \in States /\ g.tip = b.tip /\ g.onBlock = b.onBlock
          /\ g.lastSeenHeight = b.lastSeenHeight
      BY <1>2, <3>4, <3>6, GoToFields
    <3>8. StateSound(g, top)
      BY <1>0, <3>1, <3>7 DEF StateSound
    <3> QED
      BY <3>5, <3>8
  <2> QED
    BY <2>1, <2>2
<1>7. CASE AskHeader(s)
  <2>1. CASE ~nodeUp
    <3>1. btcStates' = [btcStates EXCEPT ![s] = GoTo("test", b)]
      BY <1>7, <2>1 DEF AskHeader
    <3> QED
      BY <1>3, <3>1
  <2>2. CASE nodeUp
    <3>0. b.at = "header" /\ b.tip \in Nat /\ b.lastSeenHeight \in Nat /\ b.onBlock \in Seq(Headers)
      BY <1>0, <1>7 DEF AskHeader, States
    <3>1. /\ b.lastSeenHeight < b.tip /\ b.tip <= top
          /\ Rising(b.onBlock) /\ \A i \in DOMAIN b.onBlock : b.onBlock[i].height <= b.lastSeenHeight
      BY <1>0, <3>0 DEF StateSound
    <3>2. PICK r : r = Reported(b)
      OBVIOUS
    <3>3. PICK v : v = Seen(r)
      OBVIOUS
    <3>4. PICK g : g = GoTo("test", v)
      OBVIOUS
    <3>5. btcStates' = [btcStates EXCEPT ![s] = g]
      BY <1>7, <2>2, <3>2, <3>3, <3>4 DEF AskHeader
    <3> HIDE DEF b, top
    <3>6. r \in States /\ r.tip = b.tip
      BY <1>0, <3>2, ReportedFields
    <3>7. PICK header \in Headers : header.height = b.tip /\ r.onBlock = Append(b.onBlock, header)
      BY <1>0, <3>2, ReportedFields
    <3>8. v \in States /\ v.tip = b.tip /\ v.lastSeenHeight = b.tip /\ v.onBlock = r.onBlock
      BY <3>3, <3>6, SeenFields
    <3>9. /\ g \in States /\ g.at = "test" /\ g.tip = b.tip /\ g.lastSeenHeight = b.tip
          /\ g.onBlock = Append(b.onBlock, header)
      BY <1>2, <3>4, <3>7, <3>8, GoToFields
    <3>10. /\ Rising(Append(b.onBlock, header))
           /\ \A i \in DOMAIN Append(b.onBlock, header) :
                Append(b.onBlock, header)[i].height <= b.tip
      BY <3>0, <3>1, <3>7, HeaderOnTop
    <3>11. StateSound(g, top)
      BY <3>1, <3>9, <3>10 DEF StateSound
    <3> QED
      BY <3>5, <3>11
  <2> QED
    BY <2>1, <2>2
<1> QED
  BY <1>4, <1>5, <1>6, <1>7 DEF EventStep

LEMMA EventsStep == EventsInv /\ [EventsNext]_eventVars => EventsInv'
<1> SUFFICES ASSUME EventsInv, [EventsNext]_eventVars PROVE EventsInv'
  OBVIOUS
<1>1. CASE UNCHANGED eventVars
  BY <1>1 DEF eventVars, nodeVars, EventsInv, NodeInv
<1>2. CASE EventsNext
  BY <1>2, NodeStep, AdapterCalls, ThreadMoves DEF EventsNext
<1> QED
  BY <1>1, <1>2

\* A subscriber of the Bitcoin adapter sees each height at most once and in order: for
\* any chain, any outages and reorganisations between the three RPC calls of a
\* round, and any number of init(), start() and stop().
THEOREM HeightsOnlyRise == EventsSpec => []HeightsIncrease
<1>1. EventsInv => HeightsIncrease
  BY DEF EventsInv, StateSound, Rising, HeightsIncrease
<1> QED
  BY <1>1, EventsStart, EventsStep, PTL DEF EventsSpec

\* The adapter's variables keep their types, and no thread asks for a height that
\* the node did not have.
THEOREM EventsTypeCorrect == EventsSpec => []EventsTypeOK
<1>1. EventsInv => EventsTypeOK
  <2> SUFFICES ASSUME EventsInv PROVE EventsTypeOK
    OBVIOUS
  <2>1. Current \in 0 .. MaxInits /\ {nodeUp, joining} \subseteq BOOLEAN
    BY EventsConstants DEF EventsInv, NodeInv, Current
  <2>2. ASSUME NEW s \in DOMAIN btcStates
        PROVE  /\ btcStates[s].running \in BOOLEAN
               /\ btcStates[s].at \in {"off", "test", "height", "hash", "header"}
               /\ {btcStates[s].tip, btcStates[s].lastSeenHeight} \subseteq 0 .. Len(bestChain)
    <3>1. StateSound(btcStates[s], Len(bestChain)) /\ Len(bestChain) \in Nat
      BY DEF EventsInv, NodeInv
    <3> QED
      BY <3>1 DEF StateSound, States, Places
  <2> QED
    BY <2>1, <2>2 DEF EventsInv, NodeInv, EventsTypeOK
<1> QED
  BY <1>1, EventsStart, EventsStep, PTL DEF EventsSpec

-----------------------------------------------------------------------------
(* The mempool and the block producer.                                     *)

IsUpTo(f, q, kept) ==
  f = [n \in 0 .. Len(q) |->
         IF n = 0 THEN <<>>
         ELSE IF q[n] \in kept THEN Append(f[n - 1], q[n]) ELSE f[n - 1]]

\* The recursive function in the definition of Only exists.
LEMMA UpToExists ==
  ASSUME NEW S, NEW q \in Seq(S), NEW kept
  PROVE  \E f : IsUpTo(f, q, kept)
<1> DEFINE Body(f, n) == IF n = 0 THEN <<>>
                         ELSE IF q[n] \in kept THEN Append(f[n - 1], q[n]) ELSE f[n - 1]
           Reach == {m \in Nat : \E f : f = [n \in 0 .. m |-> Body(f, n)]}
<1>1. 0 \in Reach
  <2> DEFINE f == [n \in 0 .. 0 |-> <<>>]
  <2>1. f = [n \in 0 .. 0 |-> Body(f, n)]
    <3>1. \A n \in 0 .. 0 : n = 0
      OBVIOUS
    <3> QED
      BY <3>1
  <2> QED
    BY <2>1
<1>2. ASSUME NEW m \in Reach PROVE m + 1 \in Reach
  <2>1. PICK f : f = [n \in 0 .. m |-> Body(f, n)]
    OBVIOUS
  <2> DEFINE g == [n \in 0 .. m + 1 |-> IF n = m + 1 THEN Body(f, n) ELSE f[n]]
  <2>2. m \in Nat
    OBVIOUS
  <2>3. ASSUME NEW n \in 0 .. m + 1 PROVE g[n] = Body(g, n)
    <3>1. CASE n = 0
      <4>1. n \in 0 .. m /\ n # m + 1
        BY <2>2, <3>1
      <4>2. f[n] = <<>>
        BY <2>1, <3>1, <4>1
      <4> QED
        BY <3>1, <4>1, <4>2
    <3>2. CASE n # 0
      <4>1. n - 1 \in 0 .. m /\ n - 1 \in 0 .. m + 1 /\ n - 1 # m + 1
        BY <2>2, <3>2
      <4>2. g[n - 1] = f[n - 1]
        BY <4>1
      <4>3. CASE n = m + 1
        <5>1. g[n] = Body(f, n)
          BY <4>3
        <5> HIDE DEF g
        <5> QED
          BY <4>2, <5>1
      <4>4. CASE n # m + 1
        <5>1. n \in 0 .. m /\ g[n] = f[n]
          BY <2>2, <4>4
        <5>2. f[n] = Body(f, n)
          BY <2>1, <5>1
        <5> HIDE DEF g
        <5> QED
          BY <4>2, <5>1, <5>2
      <4> QED
        BY <4>3, <4>4
    <3> QED
      BY <3>1, <3>2
  <2>4. g = [n \in 0 .. m + 1 |-> Body(g, n)]
    <3>1. g = [n \in 0 .. m + 1 |-> g[n]]
      OBVIOUS
    <3> HIDE DEF g
    <3> QED
      BY <2>3, <3>1
  <2>5. m + 1 \in Nat
    BY <2>2
  <2> HIDE DEF g
  <2> QED
    BY <2>4, <2>5
<1>3. Reach \in SUBSET Nat
  OBVIOUS
<1>4. Len(q) \in Reach
  <2>1. Reach = Nat
    <3> HIDE DEF Reach
    <3> QED
      BY <1>1, <1>2, <1>3, ClosedSetIsNat
  <2> QED
    BY SMTT(30), <2>1
<1> QED
  BY <1>4 DEF IsUpTo

LEMMA OnlyIsUpTo ==
  ASSUME NEW S, NEW q \in Seq(S), NEW kept
  PROVE  \E f : IsUpTo(f, q, kept) /\ Only(q, kept) = f[Len(q)]
<1> DEFINE f == CHOOSE f : IsUpTo(f, q, kept)
<1>1. IsUpTo(f, q, kept)
  BY UpToExists
<1>2. Only(q, kept) = f[Len(q)]
  BY DEF Only, IsUpTo
<1> QED
  BY <1>1, <1>2

\* What is kept of the empty sequence, and of a sequence with one more element.
LEMMA OnlyEmpty == ASSUME NEW kept PROVE Only(<<>>, kept) = <<>>
<1>1. <<>> \in Seq({}) /\ Len(<<>>) = 0
  OBVIOUS
<1>2. PICK f : IsUpTo(f, <<>>, kept) /\ Only(<<>>, kept) = f[Len(<<>>)]
  BY <1>1, OnlyIsUpTo
<1> QED
  BY <1>1, <1>2 DEF IsUpTo

LEMMA OnlyAppend ==
  ASSUME NEW S, NEW q \in Seq(S), NEW e \in S, NEW kept
  PROVE  Only(Append(q, e), kept)
           = IF e \in kept THEN Append(Only(q, kept), e) ELSE Only(q, kept)
<1>1. PICK r : r = Append(q, e)
  OBVIOUS
<1>2. /\ r \in Seq(S) /\ Len(q) \in Nat /\ Len(r) = Len(q) + 1
      /\ \A i \in 1 .. Len(q) : r[i] = q[i]
      /\ r[Len(q) + 1] = e
  BY <1>1
<1>3. PICK f : IsUpTo(f, q, kept) /\ Only(q, kept) = f[Len(q)]
  BY OnlyIsUpTo
<1>4. PICK g : IsUpTo(g, r, kept) /\ Only(r, kept) = g[Len(r)]
  BY <1>2, OnlyIsUpTo
<1> DEFINE G == {n \in Nat : n <= Len(q) => f[n] = g[n]}
<1>5. 0 \in G
  <2>1. 0 \in 0 .. Len(q) /\ 0 \in 0 .. Len(r)
    BY <1>2
  <2>2. f[0] = <<>> /\ g[0] = <<>>
    BY <1>3, <1>4, <2>1 DEF IsUpTo
  <2> QED
    BY <2>2
<1>6. ASSUME NEW n \in G PROVE n + 1 \in G
  <2> SUFFICES ASSUME n + 1 <= Len(q) PROVE f[n + 1] = g[n + 1]
    OBVIOUS
  <2>1. n \in Nat /\ f[n] = g[n]
    BY <1>2
  <2>2. /\ n + 1 \in 0 .. Len(q) /\ n + 1 \in 0 .. Len(r) /\ n + 1 # 0 /\ (n + 1) - 1 = n
        /\ r[n + 1] = q[n + 1]
    BY <1>2, <2>1
  <2>3. f[n + 1] = IF q[n + 1] \in kept THEN Append(f[n], q[n + 1]) ELSE f[n]
    BY <1>3, <2>2 DEF IsUpTo
  <2>4. g[n + 1] = IF r[n + 1] \in kept THEN Append(g[n], r[n + 1]) ELSE g[n]
    BY <1>4, <2>2 DEF IsUpTo
  <2> QED
    BY <2>1, <2>2, <2>3, <2>4
<1>7. f[Len(q)] = g[Len(q)]
  <2>1. G \in SUBSET Nat
    OBVIOUS
  <2>2. G = Nat
    <3> HIDE DEF G
    <3> QED
      BY <1>5, <1>6, <2>1, ClosedSetIsNat
  <2>3. Len(q) \in G
    BY <1>2, <2>2
  <2> QED
    BY <1>2, <2>3
<1>8. g[Len(r)] = IF e \in kept THEN Append(g[Len(q)], e) ELSE g[Len(q)]
  <2>1. Len(r) \in 0 .. Len(r) /\ Len(r) # 0 /\ Len(r) - 1 = Len(q) /\ r[Len(r)] = e
    BY <1>2
  <2> QED
    BY <1>4, <2>1 DEF IsUpTo
<1> QED
  BY <1>1, <1>3, <1>4, <1>7, <1>8

\* The elements that are kept.
LEMMA OnlyElements ==
  ASSUME NEW S, NEW q \in Seq(S), NEW kept
  PROVE  Only(q, kept) \in Seq(S) /\ ToSet(Only(q, kept)) = ToSet(q) \cap kept
<1> DEFINE G == {s \in Seq(S) : Only(s, kept) \in Seq(S) /\ ToSet(Only(s, kept)) = ToSet(s) \cap kept}
<1>1. <<>> \in G
  <2>1. <<>> \in Seq(S) /\ ToSet(<<>>) = {}
    BY DEF ToSet
  <2> QED
    BY <2>1, OnlyEmpty
<1>2. ASSUME NEW s \in G, NEW e \in S PROVE Append(s, e) \in G
  <2>1. Append(s, e) \in Seq(S) /\ ToSet(Append(s, e)) = ToSet(s) \cup {e}
    BY AppendElements
  <2>2. Only(Append(s, e), kept) = IF e \in kept THEN Append(Only(s, kept), e) ELSE Only(s, kept)
    BY OnlyAppend
  <2>3. /\ Append(Only(s, kept), e) \in Seq(S)
        /\ ToSet(Append(Only(s, kept), e)) = ToSet(Only(s, kept)) \cup {e}
    BY AppendElements
  <2> QED
    BY <2>1, <2>2, <2>3
<1>3. G \in SUBSET Seq(S)
  OBVIOUS
<1>4. G = Seq(S)
  <2> HIDE DEF G
  <2> QED
    BY <1>1, <1>2, <1>3, ClosedSetIsSeq
<1> QED
  BY <1>4

\* Sets that agree on the elements of a sequence keep the same.
LEMMA OnlySame ==
  ASSUME NEW S, NEW q \in Seq(S), NEW T, NEW U, \A x \in ToSet(q) : x \in T <=> x \in U
  PROVE  Only(q, T) = Only(q, U)
<1> DEFINE G == {s \in Seq(S) : (\A x \in ToSet(s) : x \in T <=> x \in U) => Only(s, T) = Only(s, U)}
<1>1. <<>> \in G
  BY OnlyEmpty
<1>2. ASSUME NEW s \in G, NEW e \in S PROVE Append(s, e) \in G
  <2>1. Append(s, e) \in Seq(S) /\ ToSet(Append(s, e)) = ToSet(s) \cup {e}
    BY AppendElements
  <2>2. /\ Only(Append(s, e), T) = IF e \in T THEN Append(Only(s, T), e) ELSE Only(s, T)
        /\ Only(Append(s, e), U) = IF e \in U THEN Append(Only(s, U), e) ELSE Only(s, U)
    BY OnlyAppend
  <2> QED
    BY SMTT(30), <2>1, <2>2
<1>3. G \in SUBSET Seq(S)
  OBVIOUS
<1>4. G = Seq(S)
  <2> HIDE DEF G
  <2> QED
    BY <1>1, <1>2, <1>3, ClosedSetIsSeq
<1> QED
  BY <1>4

LEMMA OnlyNone ==
  ASSUME NEW S, NEW q \in Seq(S), NEW T, ToSet(q) \cap T = {}
  PROVE  Only(q, T) = <<>>
<1>1. Only(q, T) \in Seq(S) /\ ToSet(Only(q, T)) = {}
  BY OnlyElements
<1> QED
  BY <1>1 DEF ToSet

\* What is kept of what was kept.
LEMMA OnlyTwice ==
  ASSUME NEW S, NEW q \in Seq(S), NEW T, NEW U
  PROVE  Only(Only(q, T), U) = Only(q, T \cap U)
<1> DEFINE G == {s \in Seq(S) : Only(Only(s, T), U) = Only(s, T \cap U)}
<1>1. <<>> \in G
  BY OnlyEmpty
<1>2. ASSUME NEW s \in G, NEW e \in S PROVE Append(s, e) \in G
  <2>1. Append(s, e) \in Seq(S) /\ Only(s, T) \in Seq(S)
    BY AppendElements, OnlyElements
  <2>2. /\ Only(Append(s, e), T) = IF e \in T THEN Append(Only(s, T), e) ELSE Only(s, T)
        /\ Only(Append(s, e), T \cap U)
             = IF e \in T \cap U THEN Append(Only(s, T \cap U), e) ELSE Only(s, T \cap U)
    BY OnlyAppend
  <2>3. Only(Append(Only(s, T), e), U)
          = IF e \in U THEN Append(Only(Only(s, T), U), e) ELSE Only(Only(s, T), U)
    BY ZenonT(30), <2>1, OnlyAppend
  <2>4. Only(Only(s, T), U) = Only(s, T \cap U)
    OBVIOUS
  <2>5. Only(Only(Append(s, e), T), U) = Only(Append(s, e), T \cap U)
    <3>1. CASE e \in T /\ e \in U
      BY <2>2, <2>3, <2>4, <3>1
    <3>2. CASE e \in T /\ e \notin U
      BY <2>2, <2>3, <2>4, <3>2
    <3>3. CASE e \notin T
      BY <2>2, <2>4, <3>3
    <3> QED
      BY <3>1, <3>2, <3>3
  <2> QED
    BY <2>1, <2>5
<1>3. G \in SUBSET Seq(S)
  OBVIOUS
<1>4. G = Seq(S)
  <2> HIDE DEF G
  <2> QED
    BY <1>1, <1>2, <1>3, ClosedSetIsSeq
<1> QED
  BY <1>4

LEMMA ConcatAppend ==
  ASSUME NEW S, NEW q \in Seq(S), NEW r \in Seq(S), NEW e \in S
  PROVE  q \o Append(r, e) = Append(q \o r, e)
<1>1. Append(r, e) = r \o <<e>> /\ <<e>> \in Seq(S) /\ q \o r \in Seq(S)
  BY AppendIsConcat, ConcatProperties
<1>2. Append(q \o r, e) = (q \o r) \o <<e>>
  BY <1>1, AppendIsConcat
<1> QED
  BY <1>1, <1>2, ConcatAssociative

\* What is kept of one sequence after another.
LEMMA OnlyConcat ==
  ASSUME NEW S, NEW q \in Seq(S), NEW r \in Seq(S), NEW T
  PROVE  Only(q \o r, T) = Only(q, T) \o Only(r, T)
<1> DEFINE G == {s \in Seq(S) : Only(q \o s, T) = Only(q, T) \o Only(s, T)}
<1>0. Only(q, T) \in Seq(S)
  BY OnlyElements
<1>1. <<>> \in G
  BY <1>0, OnlyEmpty, ConcatEmptySeq
<1>2. ASSUME NEW s \in G, NEW e \in S PROVE Append(s, e) \in G
  <2>1. Append(s, e) \in Seq(S) /\ Only(s, T) \in Seq(S) /\ q \o s \in Seq(S)
    BY AppendElements, OnlyElements, ConcatProperties
  <2>2. Only(Append(s, e), T) = IF e \in T THEN Append(Only(s, T), e) ELSE Only(s, T)
    BY OnlyAppend
  <2>3. q \o Append(s, e) = Append(q \o s, e)
    BY ConcatAppend
  <2>4. Only(Append(q \o s, e), T) = IF e \in T THEN Append(Only(q \o s, T), e) ELSE Only(q \o s, T)
    <3>1. PICK u \in Seq(S) : u = q \o s
      BY <2>1
    <3>2. Only(Append(u, e), T) = IF e \in T THEN Append(Only(u, T), e) ELSE Only(u, T)
      BY OnlyAppend
    <3> QED
      BY <3>1, <3>2
  <2>5. Only(q, T) \o Append(Only(s, T), e) = Append(Only(q, T) \o Only(s, T), e)
    BY <1>0, <2>1, ConcatAppend
  <2>6. Only(q \o s, T) = Only(q, T) \o Only(s, T)
    OBVIOUS
  <2> QED
    BY <2>1, <2>2, <2>3, <2>4, <2>5, <2>6
<1>3. G \in SUBSET Seq(S)
  OBVIOUS
<1>4. G = Seq(S)
  <2> HIDE DEF G
  <2> QED
    BY <1>1, <1>2, <1>3, ClosedSetIsSeq
<1> QED
  BY <1>4

\* No hash occurs twice.
HashOnce(q) == \A i, j \in DOMAIN q : q[i].hash = q[j].hash => i = j

LEMMA HashesOf ==
  ASSUME NEW q
  PROVE  Hashes(q) = {x.hash : x \in ToSet(q)}
BY DEF Hashes, ToSet

LEMMA HashOnceAppend ==
  ASSUME NEW S, NEW q \in Seq(S), NEW e \in S
  PROVE  HashOnce(Append(q, e)) <=> HashOnce(q) /\ e.hash \notin Hashes(q)
<1>1. PICK r : r = Append(q, e)
  OBVIOUS
<1>2. /\ Len(q) \in Nat /\ DOMAIN q = 1 .. Len(q) /\ DOMAIN r = 1 .. Len(q) + 1
      /\ \A i \in 1 .. Len(q) : r[i] = q[i]
      /\ r[Len(q) + 1] = e
  BY <1>1
<1>3. DOMAIN r = DOMAIN q \cup {Len(q) + 1} /\ Len(q) + 1 \notin DOMAIN q
  BY <1>2
<1> QED
  BY <1>1, <1>2, <1>3 DEF HashOnce, Hashes

LEMMA HashOnceOnly ==
  ASSUME NEW S, NEW q \in Seq(S), HashOnce(q), NEW kept
  PROVE  HashOnce(Only(q, kept))
<1> DEFINE G == {s \in Seq(S) : HashOnce(s) => HashOnce(Only(s, kept))}
<1>1. <<>> \in G
  <2>1. HashOnce(<<>>) /\ <<>> \in Seq(S)
    BY DEF HashOnce
  <2> QED
    BY <2>1, OnlyEmpty
<1>2. ASSUME NEW s \in G, NEW e \in S PROVE Append(s, e) \in G
  <2>1. Append(s, e) \in Seq(S) /\ Only(s, kept) \in Seq(S) /\ ToSet(Only(s, kept)) \subseteq ToSet(s)
    BY AppendElements, OnlyElements
  <2>2. Only(Append(s, e), kept) = IF e \in kept THEN Append(Only(s, kept), e) ELSE Only(s, kept)
    BY OnlyAppend
  <2>3. HashOnce(Append(s, e)) => HashOnce(s) /\ e.hash \notin Hashes(s)
    BY HashOnceAppend
  <2>4. HashOnce(Append(Only(s, kept), e)) <=> HashOnce(Only(s, kept)) /\ e.hash \notin Hashes(Only(s, kept))
    BY <2>1, HashOnceAppend
  <2>5. Hashes(Only(s, kept)) \subseteq Hashes(s)
    BY <2>1, HashesOf
  <2>6. HashOnce(s) => HashOnce(Only(s, kept))
    OBVIOUS
  <2>7. HashOnce(Append(s, e)) => HashOnce(Only(Append(s, e), kept))
    BY <2>2, <2>3, <2>4, <2>5, <2>6
  <2> QED
    BY <2>1, <2>7
<1>3. G \in SUBSET Seq(S)
  OBVIOUS
<1>4. G = Seq(S)
  <2> HIDE DEF G
  <2> QED
    BY <1>1, <1>2, <1>3, ClosedSetIsSeq
<1> QED
  BY <1>4

LEMMA ConcatElements ==
  ASSUME NEW S, NEW q \in Seq(S), NEW r \in Seq(S)
  PROVE  /\ q \o r \in Seq(S) /\ ToSet(q \o r) = ToSet(q) \cup ToSet(r)
         /\ HashOnce(q \o r) => \A x \in ToSet(q), y \in ToSet(r) : x.hash # y.hash
<1>1. PICK u : u = q \o r
  OBVIOUS
<1>2. /\ u \in Seq(S) /\ Len(q) \in Nat /\ Len(r) \in Nat /\ Len(u) = Len(q) + Len(r)
      /\ DOMAIN q = 1 .. Len(q) /\ DOMAIN r = 1 .. Len(r) /\ DOMAIN u = 1 .. Len(q) + Len(r)
      /\ \A i \in 1 .. Len(q) + Len(r) : u[i] = IF i <= Len(q) THEN q[i] ELSE r[i - Len(q)]
  BY <1>1, ConcatProperties, LenProperties
<1>3. \A i \in DOMAIN q : i \in DOMAIN u /\ u[i] = q[i] /\ i <= Len(q)
  BY <1>2
<1>4. \A i \in DOMAIN r : i + Len(q) \in DOMAIN u /\ u[i + Len(q)] = r[i] /\ i + Len(q) > Len(q)
  BY <1>2
<1>5. \A i \in DOMAIN u : i \in DOMAIN q \/ i - Len(q) \in DOMAIN r
  BY <1>2
<1>6. ToSet(u) = ToSet(q) \cup ToSet(r)
  <2>1. ToSet(q) \subseteq ToSet(u) /\ ToSet(r) \subseteq ToSet(u)
    BY <1>3, <1>4 DEF ToSet
  <2>2. ASSUME NEW i \in DOMAIN u PROVE u[i] \in ToSet(q) \cup ToSet(r)
    <3>1. CASE i \in DOMAIN q
      BY <1>3, <3>1 DEF ToSet
    <3>2. CASE i - Len(q) \in DOMAIN r
      <4>1. i = (i - Len(q)) + Len(q)
        BY <1>2
      <4> QED
        BY <1>4, <3>2, <4>1 DEF ToSet
    <3> QED
      BY <1>5, <3>1, <3>2
  <2>3. ToSet(u) \subseteq ToSet(q) \cup ToSet(r)
    <3>1. ToSet(u) = {u[i] : i \in DOMAIN u}
      BY DEF ToSet
    <3> QED
      BY <2>2, <3>1
  <2> QED
    BY <2>1, <2>3
<1>7. ASSUME HashOnce(u), NEW i \in DOMAIN q, NEW j \in DOMAIN r PROVE q[i].hash # r[j].hash
  <2>1. /\ i \in DOMAIN u /\ u[i] = q[i] /\ j + Len(q) \in DOMAIN u /\ u[j + Len(q)] = r[j]
        /\ i # j + Len(q)
    BY <1>2, <1>3, <1>4
  <2> QED
    BY <1>7, <2>1 DEF HashOnce
<1> QED
  BY ZenonT(30), <1>1, <1>2, <1>6, <1>7 DEF ToSet

-----------------------------------------------------------------------------
\* The block under way was copied from the front of the mempool, and a rejected hash
\* is that of an invalid transaction that is still there.
CopiedFromFront == pc = "confirm" => \E rest \in Seq(Transactions) : pending = batch \o rest

RejectedStays == \A h \in rejected : \E tx \in ToSet(pending) : tx.hash = h /\ ~tx.valid

\* The thread checks the interval after every block, before it can end.
AnchorInv ==
  /\ sinceAnchor \in Nat /\ sinceAnchor <= CommitmentInterval
  /\ pc \in {"off", "loop"} => sinceAnchor < CommitmentInterval

BooksTyped ==
  /\ pending \in Seq(Transactions) /\ batch \in Seq(Transactions)
  /\ confirmed \in Seq(Transactions) /\ Len(confirmed) <= KeepConfirmed
  /\ included \in Seq(Transactions)
  /\ index \subseteq TxHashes /\ rejected \subseteq TxHashes
  /\ submissions \in 0 .. MaxSubmissions

ThreadTyped == running \in BOOLEAN /\ pc \in {"off", "loop", "confirm", "anchor"}

MempoolInv == BooksTyped /\ IndexMatchesPending /\ CopiedFromFront /\ RejectedStays

ProducerInv == MempoolInv /\ ThreadTyped /\ AnchorInv

LEMMA L2Constants ==
  /\ Validity \subseteq BOOLEAN
  /\ MaxTransactionsPerBlock \in Nat \ {0} /\ CommitmentInterval \in Nat \ {0}
  /\ KeepConfirmed \in Nat /\ MaxSubmissions \in Nat
BY L2Assumption

LEMMA IndexForm == IndexMatchesPending <=> index = Hashes(pending) /\ HashOnce(pending)
BY DEF IndexMatchesPending, HashOnce

\* submit appends a transaction whose hash is new.
LEMMA Submitted ==
  ASSUME MempoolInv, NEW hash \in TxHashes, NEW valid \in Validity, AddTransaction(hash, valid)
  PROVE  /\ MempoolInv'
         /\ \E tx \in Transactions : tx.valid = valid /\ pending' = Append(pending, tx)
<1>1. submissions \in 0 .. MaxSubmissions /\ submissions' = submissions + 1 /\ submissions < MaxSubmissions
  BY DEF MempoolInv, BooksTyped, AddTransaction
<1>2. submissions' \in 0 .. MaxSubmissions /\ submissions + 1 \in 1 .. MaxSubmissions
  BY <1>1, L2Constants
<1>3. PICK tx : tx = [hash |-> hash, valid |-> valid, n |-> submissions + 1]
  OBVIOUS
<1>4. tx \in Transactions /\ tx.hash = hash /\ tx.valid = valid
  BY <1>2, <1>3, L2Constants DEF Transactions
<1>5. /\ pending' = Append(pending, tx) /\ index' = index \cup {hash} /\ hash \notin index
      /\ UNCHANGED <<confirmed, rejected, pc, batch, included>>
  BY <1>3 DEF AddTransaction
<1>6. /\ pending' \in Seq(Transactions) /\ ToSet(pending') = ToSet(pending) \cup {tx}
      /\ pending \in Seq(Transactions)
  BY <1>4, <1>5, AppendElements DEF MempoolInv, BooksTyped
<1>7. BooksTyped'
  BY <1>2, <1>5, <1>6 DEF MempoolInv, BooksTyped
<1>8. IndexMatchesPending'
  <2>1. index = Hashes(pending) /\ HashOnce(pending)
    BY IndexForm DEF MempoolInv
  <2>2. HashOnce(Append(pending, tx))
    BY <1>4, <1>5, <1>6, <2>1, HashOnceAppend
  <2>3. Hashes(pending') = Hashes(pending) \cup {hash}
    BY <1>4, <1>6, HashesOf
  <2>4. index' = Hashes(pending')
    BY <1>5, <2>1, <2>3
  <2>5. HashOnce(pending')
    BY <1>5, <2>2
  <2> QED
    BY <2>4, <2>5 DEF IndexMatchesPending, HashOnce
<1>9. CopiedFromFront'
  <2> SUFFICES ASSUME pc = "confirm" PROVE \E rest \in Seq(Transactions) : pending' = batch \o rest
    BY <1>5 DEF CopiedFromFront
  <2>1. PICK rest \in Seq(Transactions) : pending = batch \o rest
    BY DEF MempoolInv, CopiedFromFront
  <2>2. batch \in Seq(Transactions)
    BY DEF MempoolInv, BooksTyped
  <2>3. batch \o Append(rest, tx) = Append(batch \o rest, tx)
    BY <1>4, <2>2, ConcatAppend
  <2>4. Append(rest, tx) \in Seq(Transactions)
    BY <1>4
  <2> QED
    BY <1>5, <2>1, <2>3, <2>4
<1>10. RejectedStays'
  BY <1>5, <1>6 DEF MempoolInv, RejectedStays
<1> QED
  BY <1>4, <1>5, <1>7, <1>8, <1>9, <1>10 DEF MempoolInv

\* A block that begins copies the front of the mempool.
LEMMA Copied ==
  ASSUME MempoolInv, BeginBlock
  PROVE  MempoolInv'
<1>1. PICK k \in 0 .. Len(pending) : batch' = SubSeq(pending, 1, k)
  <2>1. Len(pending) \in Nat
    BY DEF MempoolInv, BooksTyped
  <2> QED
    BY <2>1, L2Constants DEF BeginBlock, GetPendingTransactions
<1>2. pending \in Seq(Transactions) /\ Len(pending) \in Nat
  BY DEF MempoolInv, BooksTyped
<1>3. /\ \A i \in 1 .. k : pending[i] \in Transactions
      /\ \A i \in k + 1 .. Len(pending) : pending[i] \in Transactions
  BY <1>2
<1>4. batch' \in Seq(Transactions) /\ SubSeq(pending, k + 1, Len(pending)) \in Seq(Transactions)
  BY <1>1, <1>2, <1>3, SubSeqProperties
<1>5. pending = batch' \o SubSeq(pending, k + 1, Len(pending))
  <2>1. /\ 1 \in 1 .. Len(pending) + 1 /\ k \in 1 - 1 .. Len(pending)
        /\ Len(pending) \in k .. Len(pending)
    BY <1>2
  <2>2. SubSeq(pending, 1, k) \o SubSeq(pending, k + 1, Len(pending)) = SubSeq(pending, 1, Len(pending))
    BY <1>2, <2>1, ConcatAdjacentSubSeq
  <2>3. SubSeq(pending, 1, Len(pending)) = pending
    BY <1>2, SubSeqFull
  <2> QED
    BY <1>1, <2>2, <2>3
<1>6. UNCHANGED <<pending, index, confirmed, rejected, submissions, included>>
  BY DEF BeginBlock
<1>7. BooksTyped'
  BY <1>4, <1>6 DEF MempoolInv, BooksTyped
<1>8. CopiedFromFront'
  BY <1>4, <1>5, <1>6 DEF CopiedFromFront
<1> QED
  BY <1>6, <1>7, <1>8 DEF MempoolInv, IndexMatchesPending, RejectedStays

LEMMA SameHash ==
  ASSUME NEW q, HashOnce(q), NEW x \in ToSet(q), NEW y \in ToSet(q), x.hash = y.hash
  PROVE  x = y
BY DEF HashOnce, ToSet

\* The transactions of a block are the valid ones of the batch: their hashes were not
\* rejected, for the invalid transaction of a rejected hash would still be pending.
LEMMA BlockMade ==
  ASSUME MempoolInv, ConfirmBlock
  PROVE  \E rest \in Seq(Transactions) :
           /\ pending = batch \o rest
           /\ ConfirmTransactions(Only(batch, Valid))
           /\ included' = included \o Only(batch, Valid)
<1>1. PICK rest \in Seq(Transactions) : pending = batch \o rest
  BY DEF MempoolInv, CopiedFromFront, ConfirmBlock
<1>2. batch \in Seq(Transactions) /\ pending \in Seq(Transactions) /\ HashOnce(pending)
  BY IndexForm DEF MempoolInv, BooksTyped
<1>3. ToSet(batch) \subseteq ToSet(pending)
  BY <1>1, <1>2, ConcatElements
<1>4. ToSet(pending) \subseteq Transactions
  BY <1>2 DEF ToSet
<1>5. ASSUME NEW x \in ToSet(batch), x \in Valid PROVE x \in Without(rejected)
  <2> SUFFICES ASSUME x.hash \in rejected PROVE FALSE
    BY <1>3, <1>4 DEF Without
  <2>1. PICK tx \in ToSet(pending) : tx.hash = x.hash /\ ~tx.valid
    BY DEF MempoolInv, RejectedStays
  <2>2. tx = x
    BY <1>2, <1>3, <2>1, SameHash
  <2> QED
    BY <1>5, <2>1, <2>2 DEF Valid
<1>6. Only(batch, Valid \cap Without(rejected)) = Only(batch, Valid)
  <2>1. PICK T : T = Valid \cap Without(rejected)
    OBVIOUS
  <2>2. \A x \in ToSet(batch) : x \in T <=> x \in Valid
    BY <1>5, <2>1
  <2>3. Only(batch, T) = Only(batch, Valid)
    BY <1>2, <2>2, OnlySame
  <2> QED
    BY <2>1, <2>3
<1>7. /\ ConfirmTransactions(Only(batch, Valid \cap Without(rejected)))
      /\ included' = included \o Only(batch, Valid \cap Without(rejected))
  BY DEF ConfirmBlock
<1> QED
  BY <1>1, <1>6, <1>7

\* Of a batch at the front of the mempool exactly the valid transactions go.
LEMMA WhatStays ==
  ASSUME NEW b \in Seq(Transactions), NEW rest \in Seq(Transactions), HashOnce(b \o rest),
         NEW T, T = Without(Hashes(Only(b, Valid)))
  PROVE  /\ \A x \in ToSet(b) : x \in T <=> x \notin Valid
         /\ \A x \in ToSet(rest) : x \in T
<1>1. /\ ToSet(b \o rest) = ToSet(b) \cup ToSet(rest)
      /\ \A x \in ToSet(b), y \in ToSet(rest) : x.hash # y.hash
  BY ConcatElements
<1>2. ToSet(b) \subseteq Transactions /\ ToSet(rest) \subseteq Transactions
  BY DEF ToSet
<1>3. ToSet(Only(b, Valid)) = ToSet(b) \cap Valid
  BY OnlyElements
<1>4. Hashes(Only(b, Valid)) = {x.hash : x \in ToSet(b) \cap Valid}
  BY <1>3, HashesOf
<1>5. ASSUME NEW x \in ToSet(b), NEW y \in ToSet(b) \cap Valid, x.hash = y.hash PROVE x = y
  <2>1. x \in ToSet(b \o rest) /\ y \in ToSet(b \o rest)
    BY <1>1
  <2> QED
    BY <1>5, <2>1, SameHash
<1> QED
  BY <1>1, <1>2, <1>4, <1>5 DEF Without

LEMMA Confirmed ==
  ASSUME MempoolInv, ConfirmBlock
  PROVE  MempoolInv'
<1>1. PICK rest \in Seq(Transactions) :
        /\ pending = batch \o rest
        /\ ConfirmTransactions(Only(batch, Valid))
        /\ included' = included \o Only(batch, Valid)
  BY BlockMade
<1>2. PICK good : good = Only(batch, Valid)
  OBVIOUS
<1>3. PICK T : T = Without(Hashes(good))
  OBVIOUS
<1>4. /\ batch \in Seq(Transactions) /\ pending \in Seq(Transactions) /\ included \in Seq(Transactions)
      /\ HashOnce(pending) /\ index = Hashes(pending)
  BY IndexForm DEF MempoolInv, BooksTyped
<1>5. /\ good \in Seq(Transactions) /\ ToSet(good) = ToSet(batch) \cap Valid
      /\ ToSet(pending) = ToSet(batch) \cup ToSet(rest)
  BY <1>1, <1>2, <1>4, OnlyElements, ConcatElements
<1>6. pending' = Only(pending, T) /\ index' = index \ Hashes(good)
  BY <1>1, <1>2, <1>3 DEF ConfirmTransactions
<1>7. /\ pending' \in Seq(Transactions) /\ ToSet(pending') = ToSet(pending) \cap T
      /\ HashOnce(pending')
  BY <1>4, <1>6, OnlyElements, HashOnceOnly
<1>8. ToSet(pending) \subseteq Transactions
  BY <1>4 DEF ToSet
<1>9. IndexMatchesPending'
  <2>1. Hashes(pending') = Hashes(pending) \ Hashes(good)
    <3>1. /\ Hashes(pending') = {x.hash : x \in ToSet(pending')}
          /\ Hashes(pending) = {x.hash : x \in ToSet(pending)}
      BY HashesOf
    <3>2. \A x \in ToSet(pending) : x \in T <=> x.hash \notin Hashes(good)
      BY <1>3, <1>8 DEF Without
    <3> QED
      BY <1>7, <3>1, <3>2
  <2>2. index' = Hashes(pending')
    BY <1>4, <1>6, <2>1
  <2> QED
    BY <1>7, <2>2 DEF IndexMatchesPending, HashOnce
<1>10. BooksTyped'
  <2>1. included' \in Seq(Transactions)
    BY <1>1, <1>2, <1>4, <1>5, ConcatProperties
  <2>2. confirmed' \in Seq(Transactions) /\ Len(confirmed') <= KeepConfirmed
    <3>1. PICK all : all = confirmed \o good
      OBVIOUS
    <3>2. all \in Seq(Transactions) /\ Len(all) \in Nat
      BY <1>5, <3>1, ConcatProperties DEF MempoolInv, BooksTyped
    <3>3. confirmed' = IF Len(all) <= KeepConfirmed THEN all
                       ELSE SubSeq(all, Len(all) + 1 - KeepConfirmed, Len(all))
      BY <1>1, <1>2, <3>1 DEF ConfirmTransactions
    <3>4. CASE Len(all) <= KeepConfirmed
      BY <3>2, <3>3, <3>4
    <3>5. CASE ~(Len(all) <= KeepConfirmed)
      <4>1. PICK m \in Int : m = Len(all) + 1 - KeepConfirmed
        <5>1. Len(all) + 1 - KeepConfirmed \in Int
          BY <3>2, L2Constants
        <5> QED
          BY <5>1
      <4>2. m >= 1 /\ Len(all) - m + 1 = KeepConfirmed
        BY <3>2, <3>5, <4>1, L2Constants
      <4>3. \A i \in m .. Len(all) : all[i] \in Transactions
        BY <3>2, <4>2
      <4>4. /\ SubSeq(all, m, Len(all)) \in Seq(Transactions)
            /\ Len(SubSeq(all, m, Len(all))) = IF m <= Len(all) THEN Len(all) - m + 1 ELSE 0
        BY <3>2, <4>3, SubSeqProperties
      <4>5. Len(SubSeq(all, m, Len(all))) <= KeepConfirmed
        BY <4>2, <4>4, L2Constants
      <4>6. confirmed' = SubSeq(all, m, Len(all))
        BY <3>3, <3>5, <4>1
      <4> QED
        BY <4>4, <4>5, <4>6
    <3> QED
      BY <3>4, <3>5
  <2>3. index' \subseteq TxHashes
    BY <1>6 DEF MempoolInv, BooksTyped
  <2>4. rejected' \subseteq TxHashes
    <3>1. \A j \in DOMAIN batch : batch[j] \in Transactions
      BY <1>4
    <3>2. \A x \in Transactions : x.hash \in TxHashes
      BY DEF Transactions
    <3>3. rejected \subseteq TxHashes
      BY DEF MempoolInv, BooksTyped
    <3> QED
      BY <3>1, <3>2, <3>3 DEF ConfirmBlock
  <2>5. batch' \in Seq(Transactions) /\ submissions' \in 0 .. MaxSubmissions
    BY DEF ConfirmBlock, MempoolInv, BooksTyped
  <2> QED
    BY <1>7, <2>1, <2>2, <2>3, <2>4, <2>5 DEF BooksTyped
<1>11. CopiedFromFront'
  BY DEF ConfirmBlock, CopiedFromFront
<1>12. RejectedStays'
  <2>0. /\ \A x \in ToSet(batch) : x \in T <=> x \notin Valid
        /\ \A x \in ToSet(rest) : x \in T
    BY <1>1, <1>2, <1>3, <1>4, WhatStays
  <2>1. ASSUME NEW tx \in ToSet(pending), ~tx.valid PROVE tx \in ToSet(pending')
    BY <1>5, <1>7, <2>0, <2>1 DEF Valid
  <2>2. ASSUME NEW h \in rejected' PROVE \E tx \in ToSet(pending) : tx.hash = h /\ ~tx.valid
    <3>1. CASE h \in rejected
      BY <3>1 DEF MempoolInv, RejectedStays
    <3>2. CASE h \notin rejected
      <4>1. PICK i \in DOMAIN batch : ~batch[i].valid /\ batch[i].hash = h
        BY <2>2, <3>2 DEF ConfirmBlock
      <4>2. batch[i] \in ToSet(batch)
        BY DEF ToSet
      <4> QED
        BY <1>5, <4>1, <4>2
    <3> QED
      BY <3>1, <3>2
  <2> QED
    BY <2>1, <2>2 DEF RejectedStays
<1> QED
  BY <1>9, <1>10, <1>11, <1>12 DEF MempoolInv

LEMMA ProducerStarts == Init => ProducerInv
<1> SUFFICES ASSUME Init PROVE ProducerInv
  OBVIOUS
<1>1. /\ pending = <<>> /\ index = {} /\ confirmed = <<>> /\ rejected = {} /\ batch = <<>>
      /\ submissions = 0 /\ included = <<>> /\ pc = "off" /\ sinceAnchor = 0 /\ running = FALSE
  BY DEF Init
<1>2. BooksTyped
  <2>1. <<>> \in Seq(Transactions) /\ Len(<<>>) = 0
    OBVIOUS
  <2>2. Len(confirmed) <= KeepConfirmed /\ submissions \in 0 .. MaxSubmissions
    BY <1>1, <2>1, L2Constants
  <2> QED
    BY <1>1, <2>1, <2>2 DEF BooksTyped
<1>3. IndexMatchesPending /\ CopiedFromFront /\ RejectedStays
  BY <1>1 DEF IndexMatchesPending, Hashes, CopiedFromFront, RejectedStays
<1>4. ThreadTyped
  BY <1>1 DEF ThreadTyped
<1>5. AnchorInv
  BY <1>1, L2Constants DEF AnchorInv
<1> QED
  BY <1>2, <1>3, <1>4, <1>5 DEF MempoolInv, ProducerInv

\* A step of the thread or of a call that leaves the mempool alone.
LEMMA MempoolAlone ==
  ASSUME MempoolInv, pc' # "confirm" \/ pc' = pc,
         UNCHANGED <<pending, index, confirmed, rejected, batch, submissions, included>>
  PROVE  MempoolInv'
<1>1. BooksTyped'
  BY DEF MempoolInv, BooksTyped
<1>2. IndexMatchesPending'
  BY DEF MempoolInv, IndexMatchesPending
<1>3. CopiedFromFront' /\ RejectedStays'
  BY DEF MempoolInv, CopiedFromFront, RejectedStays
<1> QED
  BY <1>1, <1>2, <1>3 DEF MempoolInv

LEMMA ProducerKept == ProducerInv /\ [Next]_vars => ProducerInv'
<1> SUFFICES ASSUME ProducerInv, [Next]_vars PROVE ProducerInv'
  OBVIOUS
<1>0. MempoolInv /\ ThreadTyped /\ AnchorInv
  BY DEF ProducerInv
<1>1. CASE UNCHANGED vars
  <2>1. MempoolInv'
    BY <1>0, <1>1, MempoolAlone DEF vars
  <2> QED
    BY <1>0, <1>1, <2>1 DEF vars, ThreadTyped, AnchorInv, ProducerInv
<1>2. ASSUME NEW hash \in TxHashes, NEW valid \in Validity, AddTransaction(hash, valid)
      PROVE  ProducerInv'
  <2>1. MempoolInv'
    BY <1>0, <1>2, Submitted
  <2> QED
    BY <1>0, <1>2, <2>1 DEF AddTransaction, ThreadTyped, AnchorInv, ProducerInv
<1>3. CASE Start \/ Stop \/ ExitLoop
  <2>1. MempoolInv'
    BY <1>0, <1>3, MempoolAlone DEF Start, Stop, ExitLoop
  <2>2. ThreadTyped'
    BY <1>0, <1>3 DEF Start, Stop, ExitLoop, ThreadTyped
  <2>3. AnchorInv'
    BY <1>0, <1>3 DEF Start, Stop, ExitLoop, AnchorInv
  <2> QED
    BY <2>1, <2>2, <2>3 DEF ProducerInv
<1>4. CASE BeginBlock
  <2>1. MempoolInv'
    BY <1>0, <1>4, Copied
  <2>2. ThreadTyped'
    BY <1>0, <1>4 DEF BeginBlock, ThreadTyped
  <2>3. AnchorInv'
    <3>1. pc = "loop" /\ pc' = "confirm" /\ sinceAnchor' = sinceAnchor + 1
      BY <1>4 DEF BeginBlock
    <3> QED
      BY <1>0, <3>1, L2Constants DEF AnchorInv
  <2> QED
    BY <2>1, <2>2, <2>3 DEF ProducerInv
<1>5. CASE ConfirmBlock
  <2>1. MempoolInv'
    BY <1>0, <1>5, Confirmed
  <2>2. running' = running /\ pc' = "anchor" /\ sinceAnchor' = sinceAnchor
    BY <1>5 DEF ConfirmBlock
  <2>3. ThreadTyped'
    BY <1>0, <2>2 DEF ThreadTyped
  <2>4. AnchorInv'
    BY <1>0, <2>2 DEF AnchorInv
  <2> QED
    BY <2>1, <2>3, <2>4 DEF ProducerInv
<1>6. CASE CheckAnchorCommitment
  <2>1. MempoolInv'
    BY <1>0, <1>6, MempoolAlone DEF CheckAnchorCommitment
  <2>2. ThreadTyped'
    BY <1>0, <1>6 DEF CheckAnchorCommitment, ThreadTyped
  <2>3. AnchorInv'
    <3>1. sinceAnchor' = IF sinceAnchor >= CommitmentInterval THEN 0 ELSE sinceAnchor
      BY <1>6 DEF CheckAnchorCommitment
    <3> QED
      BY <1>0, <3>1, L2Constants DEF AnchorInv
  <2> QED
    BY <2>1, <2>2, <2>3 DEF ProducerInv
<1> QED
  BY <1>1, <1>2, <1>3, <1>4, <1>5, <1>6 DEF Next, ProducerStep

\* The deduplication index of the mempool is exactly the pending hashes, none of them
\* pending twice, and no more than commitmentInterval blocks go without an
\* anchor, whatever is submitted between the two locks of produceBlock and
\* however often the producer is stopped and started.
THEOREM ProducerIsSound == Spec => []ProducerSound
<1>1. ProducerInv => ProducerSound
  BY DEF ProducerInv, MempoolInv, AnchorInv, ProducerSound, AnchoredInTime
<1> QED
  BY <1>1, ProducerStarts, ProducerKept, PTL DEF Spec

\* The mempool and the producer keep their types; at most KeepConfirmed confirmed
\* transactions are remembered.
THEOREM ProducerTypeCorrect == Spec => []TypeOK
<1>1. ProducerInv => TypeOK
  BY DEF ProducerInv, MempoolInv, BooksTyped, ThreadTyped, AnchorInv, TypeOK
<1> QED
  BY <1>1, ProducerStarts, ProducerKept, PTL DEF Spec

-----------------------------------------------------------------------------
(* The mempool and the producer implement TxFifo.  What waits is what is   *)
(* pending and valid; a block includes all of the batch that is, which is  *)
(* the oldest of what waits, and leaves the rest.                          *)

LEMMA BlockIncludesOldest ==
  ASSUME MempoolInv, ConfirmBlock
  PROVE  \E good, later \in Seq(Transactions) :
           /\ Only(pending, Valid) = good \o later
           /\ Only(pending', Valid) = later
           /\ included' = included \o good
<1>1. PICK rest \in Seq(Transactions) :
        /\ pending = batch \o rest
        /\ ConfirmTransactions(Only(batch, Valid))
        /\ included' = included \o Only(batch, Valid)
  BY BlockMade
<1>2. PICK T : T = Without(Hashes(Only(batch, Valid)))
  OBVIOUS
<1>3. /\ batch \in Seq(Transactions) /\ pending \in Seq(Transactions) /\ HashOnce(pending)
  BY IndexForm DEF MempoolInv, BooksTyped
<1>4. /\ \A x \in ToSet(batch) : x \in T <=> x \notin Valid
      /\ \A x \in ToSet(rest) : x \in T
  BY <1>1, <1>2, <1>3, WhatStays
<1>5. pending' = Only(pending, T)
  BY <1>1, <1>2 DEF ConfirmTransactions
<1>6. Only(batch, Valid) \in Seq(Transactions) /\ Only(rest, Valid) \in Seq(Transactions)
  BY <1>3, OnlyElements
<1>7. Only(pending, Valid) = Only(batch, Valid) \o Only(rest, Valid)
  BY <1>1, <1>3, OnlyConcat
<1>8. PICK U : U = T \cap Valid
  OBVIOUS
<1>9. Only(pending', Valid) = Only(pending, U)
  BY <1>3, <1>5, <1>8, OnlyTwice
<1>10. Only(pending, U) = Only(batch, U) \o Only(rest, U)
  BY <1>1, <1>3, OnlyConcat
<1>11. Only(batch, U) = <<>>
  <2>1. ToSet(batch) \cap U = {}
    BY <1>4, <1>8
  <2> QED
    BY <1>3, <2>1, OnlyNone
<1>12. Only(rest, U) = Only(rest, Valid)
  <2>1. \A x \in ToSet(rest) : x \in U <=> x \in Valid
    BY <1>4, <1>8
  <2> QED
    BY <2>1, OnlySame
<1>13. Only(pending', Valid) = Only(rest, Valid)
  BY <1>6, <1>9, <1>10, <1>11, <1>12, ConcatEmptySeq
<1> QED
  BY <1>1, <1>6, <1>7, <1>13

LEMMA FifoStarts == Init => Fifo!FifoInit
BY OnlyEmpty DEF Init, Fifo!FifoInit

LEMMA FifoStep ==
  ASSUME ProducerInv, [Next]_vars
  PROVE  [Fifo!FifoNext]_<<Only(pending, Valid), included>>
<1>0. MempoolInv /\ pending \in Seq(Transactions) /\ included \in Seq(Transactions)
  BY DEF ProducerInv, MempoolInv, BooksTyped
<1>1. ASSUME UNCHANGED <<pending, included>>
      PROVE  [Fifo!FifoNext]_<<Only(pending, Valid), included>>
  BY <1>1
<1>2. ASSUME NEW hash \in TxHashes, NEW valid \in Validity, AddTransaction(hash, valid)
      PROVE  [Fifo!FifoNext]_<<Only(pending, Valid), included>>
  <2>1. PICK tx \in Transactions : tx.valid = valid /\ pending' = Append(pending, tx)
    BY <1>0, <1>2, Submitted
  <2>2. Only(Append(pending, tx), Valid)
          = IF tx \in Valid THEN Append(Only(pending, Valid), tx) ELSE Only(pending, Valid)
    BY <1>0, OnlyAppend
  <2>3. included' = included
    BY <1>2 DEF AddTransaction
  <2>4. CASE tx \in Valid
    <3>1. Fifo!Accept(tx)
      BY <2>1, <2>2, <2>3, <2>4 DEF Fifo!Accept
    <3> QED
      BY <3>1 DEF Fifo!FifoNext
  <2>5. CASE tx \notin Valid
    BY <2>1, <2>2, <2>3, <2>5
  <2> QED
    BY <2>4, <2>5
<1>3. CASE ConfirmBlock
  <2>1. PICK good, later \in Seq(Transactions) :
           /\ Only(pending, Valid) = good \o later
           /\ Only(pending', Valid) = later
           /\ included' = included \o good
    BY <1>0, <1>3, BlockIncludesOldest
  <2>2. CASE good = <<>>
    <3>1. good \o later = later /\ included \o good = included
      BY <1>0, <2>2, ConcatEmptySeq
    <3> QED
      BY <2>1, <3>1
  <2>3. CASE good # <<>>
    <3>1. PICK w : w = good \o later
      OBVIOUS
    <3>2. /\ w \in Seq(Transactions) /\ Len(w) = Len(good) + Len(later)
          /\ Len(good) \in Nat /\ Len(good) # 0 /\ Len(later) \in Nat
      BY <2>3, <3>1, ConcatProperties
    <3>3. SubSeq(w, 1, Len(good)) = good
      <4>1. SubSeq(good, 1, Len(good)) = good
        BY SubSeqFull
      <4>2. 1 \in 1 .. Len(good) /\ Len(good) \in 1 .. Len(good)
        BY <3>2
      <4> QED
        BY <3>1, <4>1, <4>2, SubSeqOfConcat1
    <3>4. SubSeq(w, Len(good) + 1, Len(w)) = later
      <4>1. CASE later = <<>>
        <5>1. Len(later) = 0
          BY <4>1
        <5>2. Len(w) < Len(good) + 1 /\ Len(w) \in Int /\ Len(good) + 1 \in Int
          BY <3>2, <5>1
        <5> QED
          BY <4>1, <5>2, SubSeqEmpty
      <4>2. CASE later # <<>>
        <5>1. Len(later) # 0
          BY <4>2
        <5>2. /\ Len(good) + 1 \in Len(good) + 1 .. Len(good) + Len(later)
              /\ Len(w) \in Len(good) + 1 .. Len(good) + Len(later)
              /\ (Len(good) + 1) - Len(good) = 1 /\ Len(w) - Len(good) = Len(later)
          BY <3>2, <5>1
        <5>3. SubSeq(good \o later, Len(good) + 1, Len(w))
                = SubSeq(later, (Len(good) + 1) - Len(good), Len(w) - Len(good))
          BY <5>2, SubSeqOfConcat2
        <5>4. SubSeq(later, 1, Len(later)) = later
          BY SubSeqFull
        <5> QED
          BY <3>1, <5>2, <5>3, <5>4
      <4> QED
        BY <4>1, <4>2
    <3>5. Len(good) \in 1 .. Len(w)
      BY <3>2
    <3>6. Fifo!Include(Len(good))
      BY <2>1, <3>1, <3>3, <3>4 DEF Fifo!Include
    <3> QED
      BY <2>1, <3>1, <3>5, <3>6 DEF Fifo!FifoNext
  <2> QED
    BY <2>2, <2>3
<1>4. CASE Start \/ Stop \/ ExitLoop \/ BeginBlock \/ CheckAnchorCommitment
  BY <1>1, <1>4 DEF Start, Stop, ExitLoop, BeginBlock, CheckAnchorCommitment
<1>5. CASE UNCHANGED vars
  BY <1>1, <1>5 DEF vars
<1> QED
  BY <1>2, <1>3, <1>4, <1>5 DEF Next, ProducerStep

\* The mempool and the block producer implement the queue of TxFifo: what was accepted
\* and is valid is included in blocks in the order of its acceptance, each
\* acceptance once and none left out, although produceBlock copies and
\* confirms under two locks and transactions are submitted in between.
THEOREM ProducerImplementsFifo == Spec => ImplementsFifo
<1>1. ProducerInv /\ [Next]_vars => [Fifo!FifoNext]_<<Only(pending, Valid), included>>
  BY FifoStep
<1> QED
  BY <1>1, FifoStarts, ProducerStarts, ProducerKept, PTL DEF Spec, ImplementsFifo, Fifo!FifoSpec

-----------------------------------------------------------------------------
(* All parts together.  They share no variable, so a behaviour of the node *)
(* is a behaviour of each.                                                 *)

workersVars == <<vars, taskVars, engineVars, eventVars, broadcastVars, part>>

LEMMA EveryPartMoves ==
  [WorkersNext]_workersVars =>
    /\ [Next]_vars /\ [TaskNext]_taskVars /\ [EngineNext]_engineVars
    /\ [EventsNext]_eventVars /\ [BroadcastNext]_broadcastVars
<1> SUFFICES ASSUME [WorkersNext]_workersVars
             PROVE  /\ [Next]_vars /\ [TaskNext]_taskVars /\ [EngineNext]_engineVars
                    /\ [EventsNext]_eventVars /\ [BroadcastNext]_broadcastVars
  OBVIOUS
<1>1. CASE UNCHANGED workersVars
  BY <1>1 DEF workersVars
<1>2. CASE WorkersNext
  BY <1>2 DEF WorkersNext
<1> QED
  BY <1>1, <1>2

\* The node with all its worker threads behaves, part by part, as the parts do alone:
\* what is proved of the block producer, the task protocol, the engine and
\* the Bitcoin threads holds of the node.
THEOREM PartsSideBySide ==
  WorkersSpec => Spec /\ TaskSpec /\ EngineSpec /\ EventsSpec /\ BroadcastSpec
<1>1. WorkersInit => Init /\ TaskInit /\ EngineInit /\ EventsInit /\ BroadcastInit
  BY DEF WorkersInit
<1> QED
  BY <1>1, EveryPartMoves, PTL
     DEF WorkersSpec, workersVars, Spec, TaskSpec, EngineSpec, EventsSpec, BroadcastSpec

\* What the node tells of Bitcoin and tells Bitcoin, with all its threads running:
\* subscribers see rising heights, and a settlement that execute reported as
\* done is in the mempool of the Bitcoin node.
THEOREM AdaptersAreSound == WorkersSpec => []AdapterSound
BY PartsSideBySide, HeightsOnlyRise, SettlementsReachTheNode, PTL DEF AdapterSound

\* Every variable of the five parts keeps its type in the node that runs them all.
THEOREM WorkersTypeCorrect == WorkersSpec => []WorkersTypeOK
BY PartsSideBySide, ProducerTypeCorrect, TaskTypeCorrect, EngineTypeCorrect, EventsTypeCorrect,
   BroadcastTypeCorrect, PTL DEF WorkersTypeOK

=============================================================================
