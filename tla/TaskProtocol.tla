---------------------------- MODULE TaskProtocol ----------------------------
(***************************************************************************)
(* src/orchestration/DistributedTaskProtocol.cpp: tasks wait in a priority *)
(* queue, a worker thread takes them one at a time and starts a detached   *)
(* thread for each.                                                        *)
(*                                                                         *)
(* All calls hold impl_->mutex from beginning to end; stop() also holds it *)
(* while it joins the worker.  A step that needs the mutex is therefore    *)
(* possible only while no stop() is waiting.                               *)
(***************************************************************************)
EXTENDS Integers, FiniteSets, Functions

CONSTANTS
  Tasks,                \* task ids
  Rank,                 \* priority and age of each task: the highest is the top
  MaxConcurrentTasks,   \* config.maxConcurrentTasks
  Outcomes,             \* what an executor does: a subset of {"success", "failure", "none"}
  MaxSent               \* bound on distributeTask, for model checking

ASSUME TaskAssumption ==
  /\ IsFiniteSet(Tasks)
  /\ Rank \in [Tasks -> Nat]
  /\ MaxConcurrentTasks \in Nat
  /\ Outcomes \subseteq {"success", "failure", "none"}
  /\ MaxSent \in Nat

VARIABLES
  taskQueue,        \* how often each task is in the priority queue
  pendingTasks,     \* keys of pendingTasks
  runningTasks,     \* keys of runningTasks
  completedTasks,   \* the tasks with a result, by TaskResult::success
  started,          \* detached threads of each task that look for the executor
  executing,        \* those past that, by whether they found one
  hasExecutor,      \* registerExecutor was called
  protocolRunning,  \* running
  stopWorker,
  stopping,         \* a stop() holds the mutex and joins the worker
  worker,           \* where the worker thread stands; "off" when there is none
  hand,             \* the task it has taken off the queue
  taskStats         \* stats

taskVars == <<taskQueue, pendingTasks, runningTasks, completedTasks, started,
              executing, hasExecutor, protocolRunning, stopWorker, stopping,
              worker, hand, taskStats>>

\* The variables only the threads and calls about tasks change.
taskState == <<taskQueue, pendingTasks, runningTasks, completedTasks, started,
               executing, hand, taskStats>>
control == <<hasExecutor, protocolRunning, stopWorker, stopping>>

Counts(S) == [S -> 0 .. MaxSent]
Total(counts) == SumFunction(counts)
Plus(counts, x) == [counts EXCEPT ![x] = @ + 1]
Minus(counts, x) == [counts EXCEPT ![x] = @ - 1]

\* The lock_guard of a call.
MutexFree == ~stopping

-----------------------------------------------------------------------------
(* Calls.                                                                  *)

StartProtocol ==
  /\ MutexFree
  /\ ~protocolRunning
  /\ protocolRunning' = TRUE
  /\ stopWorker' = FALSE
  /\ worker' = "test"
  /\ UNCHANGED <<taskState, hasExecutor, stopping>>

\* stop() takes the mutex and joins ...
StopProtocol ==
  /\ MutexFree
  /\ protocolRunning
  /\ stopping' = TRUE
  /\ stopWorker' = TRUE
  /\ UNCHANGED <<taskState, hasExecutor, protocolRunning, worker>>

\* ... and returns when the worker has ended.
StopReturn ==
  /\ stopping
  /\ worker = "off"
  /\ stopping' = FALSE
  /\ protocolRunning' = FALSE
  /\ UNCHANGED <<taskState, hasExecutor, stopWorker, worker>>

\* The same id may be distributed again.
DistributeTask(t) ==
  /\ MutexFree
  /\ protocolRunning
  /\ taskStats.sent < MaxSent
  /\ pendingTasks' = pendingTasks \cup {t}
  /\ taskQueue' = Plus(taskQueue, t)
  /\ taskStats' = [taskStats EXCEPT !.sent = @ + 1]
  /\ UNCHANGED <<runningTasks, completedTasks, started, executing, hand, control, worker>>

\* Fault: the task also leaves the queue.
ExecuteUnqueued(t) ==
  /\ MutexFree
  /\ t \in pendingTasks
  /\ pendingTasks' = pendingTasks \ {t}
  /\ taskQueue' = Minus(taskQueue, t)
  /\ UNCHANGED <<runningTasks, completedTasks, started, executing, hand, taskStats,
                 control, worker>>

\* Runs the executor in the caller's thread, if there is one, and hands its
\* result to the caller alone.  The task stays in the queue.
ExecuteTask(t) ==
  /\ MutexFree
  /\ t \in pendingTasks
  /\ pendingTasks' = pendingTasks \ {t}
  /\ UNCHANGED <<taskQueue, runningTasks, completedTasks, started, executing, hand,
                 taskStats, control, worker>>

\* The task stays in the queue, or its thread goes on.
CancelTask(t) ==
  /\ MutexFree
  /\ pendingTasks' = pendingTasks \ {t}
  /\ runningTasks' = runningTasks \ {t}
  /\ UNCHANGED <<taskQueue, completedTasks, started, executing, hand, taskStats,
                 control, worker>>

RegisterExecutor ==
  /\ MutexFree
  /\ hasExecutor' = TRUE
  /\ UNCHANGED <<taskState, protocolRunning, stopWorker, stopping, worker>>

-----------------------------------------------------------------------------
(* The worker thread.                                                      *)

\* while (!stopWorker)
TestStop ==
  /\ worker = "test"
  /\ worker' = IF stopWorker THEN "off" ELSE "lock"
  /\ UNCHANGED <<taskState, control>>

\* Fault: the last slot is never used.
CanTakeButLast == Total(taskQueue) > 0 /\ Cardinality(runningTasks) + 1 < MaxConcurrentTasks

CanTake == Total(taskQueue) > 0 /\ Cardinality(runningTasks) < MaxConcurrentTasks

Top == {t \in Tasks : taskQueue[t] > 0 /\ \A u \in Tasks : taskQueue[u] > 0 => Rank[u] <= Rank[t]}

\* Fault: one more than maxConcurrentTasks is taken.
TakeOneMore(t) ==
  /\ worker = "lock" /\ MutexFree
  /\ Cardinality(runningTasks) <= MaxConcurrentTasks /\ t \in Top
  /\ taskQueue' = Minus(taskQueue, t)
  /\ runningTasks' = runningTasks \cup {t}
  /\ pendingTasks' = pendingTasks \ {t}
  /\ hand' = {t}
  /\ worker' = "spawn"
  /\ UNCHANGED <<completedTasks, started, executing, taskStats, control>>

TakeTask(t) ==
  /\ worker = "lock" /\ MutexFree
  /\ CanTake /\ t \in Top
  /\ taskQueue' = Minus(taskQueue, t)
  /\ runningTasks' = runningTasks \cup {t}
  /\ pendingTasks' = pendingTasks \ {t}
  /\ hand' = {t}
  /\ worker' = "spawn"
  /\ UNCHANGED <<completedTasks, started, executing, taskStats, control>>

TakeNothing ==
  /\ worker = "lock" /\ MutexFree
  /\ ~CanTake
  /\ worker' = "test"
  /\ UNCHANGED <<taskState, control>>

\* executeTaskAsync, after the mutex is released; the sleep follows.
SpawnThread ==
  /\ worker = "spawn"
  /\ \E t \in hand : started' = Plus(started, t)
  /\ hand' = {}
  /\ worker' = "test"
  /\ UNCHANGED <<taskQueue, pendingTasks, runningTasks, completedTasks, executing,
                 taskStats, control>>

-----------------------------------------------------------------------------
(* The detached threads.                                                   *)

\* Looks the executor up; runs it, if there is one, without the mutex.
FindExecutor(t) ==
  /\ MutexFree
  /\ started[t] > 0
  /\ started' = Minus(started, t)
  /\ executing' = Plus(executing, <<t, hasExecutor>>)
  /\ UNCHANGED <<taskQueue, pendingTasks, runningTasks, completedTasks, hand,
                 taskStats, control, worker>>

\* What a thread may end with: without an executor the result is a failure.
Results(found) == IF found THEN Outcomes ELSE {"failure"}

\* Fault: an executor that returns nothing keeps its slot.
FinishKeepingSlot(t, found, outcome) ==
  /\ MutexFree
  /\ executing[<<t, found>>] > 0
  /\ executing' = Minus(executing, <<t, found>>)
  /\ IF outcome = "none"
     THEN /\ taskStats' = [taskStats EXCEPT !.failed = @ + 1]
          /\ UNCHANGED <<completedTasks, runningTasks>>
     ELSE /\ runningTasks' = runningTasks \ {t}
          /\ completedTasks' = [completedTasks EXCEPT ![t] = outcome]
          /\ taskStats' = [taskStats EXCEPT !.executed = @ + 1]
  /\ UNCHANGED <<taskQueue, pendingTasks, started, hand, control, worker>>

\* The end of a thread; "none" is an executor's nullopt.
FinishTask(t, found, outcome) ==
  /\ MutexFree
  /\ executing[<<t, found>>] > 0
  /\ executing' = Minus(executing, <<t, found>>)
  /\ runningTasks' = runningTasks \ {t}
  /\ IF outcome = "none"
     THEN /\ taskStats' = [taskStats EXCEPT !.failed = @ + 1]
          /\ UNCHANGED completedTasks
     ELSE /\ completedTasks' = [completedTasks EXCEPT ![t] = outcome]
          /\ taskStats' = [taskStats EXCEPT !.executed = @ + 1]
  /\ UNCHANGED <<taskQueue, pendingTasks, started, hand, control, worker>>

-----------------------------------------------------------------------------
TaskInit ==
  /\ taskQueue = [t \in Tasks |-> 0]
  /\ pendingTasks = {} /\ runningTasks = {}
  /\ completedTasks = [t \in Tasks |-> "none"]
  /\ started = [t \in Tasks |-> 0] /\ executing = [x \in Tasks \X BOOLEAN |-> 0]
  /\ hasExecutor = FALSE
  /\ protocolRunning = FALSE /\ stopWorker = FALSE /\ stopping = FALSE
  /\ worker = "off" /\ hand = {}
  /\ taskStats = [sent |-> 0, executed |-> 0, failed |-> 0]

WorkerStep == TestStop \/ (\E t \in Tasks : TakeTask(t)) \/ TakeNothing \/ SpawnThread

ThreadStep(t) ==
  \/ FindExecutor(t)
  \/ \E found \in BOOLEAN : \E outcome \in Results(found) : FinishTask(t, found, outcome)

TaskNext ==
  \/ StartProtocol \/ StopProtocol \/ StopReturn
  \/ RegisterExecutor
  \/ \E t \in Tasks : DistributeTask(t) \/ ExecuteTask(t) \/ CancelTask(t)
  \/ WorkerStep
  \/ \E t \in Tasks : ThreadStep(t)

\* Threads that were started and do not wait run, executors return, and a join
\* notices that its thread has ended.
TaskFairness ==
  /\ WF_taskVars(WorkerStep)
  /\ WF_taskVars(StopReturn)
  /\ \A t \in Tasks : WF_taskVars(ThreadStep(t))

TaskSpec == TaskInit /\ [][TaskNext]_taskVars /\ TaskFairness

-----------------------------------------------------------------------------
(* Properties.                                                             *)

\* Every variable has its type, and no more tasks are listed as running than
\* maxConcurrentTasks.
TaskTypeOK ==
  /\ taskQueue \in Counts(Tasks) /\ started \in Counts(Tasks)
  /\ executing \in Counts(Tasks \X BOOLEAN)
  /\ pendingTasks \subseteq Tasks /\ runningTasks \subseteq Tasks /\ hand \subseteq Tasks
  /\ Cardinality(runningTasks) <= MaxConcurrentTasks
  /\ completedTasks \in [Tasks -> {"none", "success", "failure"}]
  /\ {hasExecutor, protocolRunning, stopWorker, stopping} \subseteq BOOLEAN
  /\ worker \in {"off", "test", "lock", "spawn"}
  /\ taskStats \in [sent : 0 .. MaxSent, executed : Nat, failed : Nat]

\* A PENDING task is in the queue, so it will run; a RUNNING one has a thread, so
\* its slot will be free again.
StatusHonest ==
  /\ \A t \in pendingTasks : taskQueue[t] > 0
  /\ \A t \in runningTasks : t \in hand \/ started[t] > 0 \/ \E found \in BOOLEAN : executing[<<t, found>>] > 0

\* Every task that was distributed is in the queue, in a thread or counted as
\* executed or failed, through cancellations, repeated ids, stops and starts.
TasksAccounted ==
  taskStats.sent = taskStats.executed + taskStats.failed + Total(taskQueue)
                   + Cardinality(hand) + Total(started) + Total(executing)

\* While the protocol is running every task that was distributed is settled.
TasksSettle ==
  (<>[](protocolRunning /\ ~stopping)) =>
    <>[](taskStats.executed + taskStats.failed = taskStats.sent)

-----------------------------------------------------------------------------
(* What the interface says and the code does not keep.                     *)

\* "Stop the protocol": a stop() that was called returns.
StopReturns == stopping ~> ~stopping

=============================================================================
