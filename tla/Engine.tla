------------------------------- MODULE Engine -------------------------------
(***************************************************************************)
(* sched::Engine of include/Orchestrator.h: submitTask queues a task and   *)
(* returns a future, worker threads take tasks by priority, choose a node  *)
(* and resolve the promise behind the future.                              *)
(*                                                                         *)
(* The tasks are numbered in the order they were queued, so the four       *)
(* queues are one set.  start() and stop() are called from one thread.     *)
(* The discovery and monitoring threads only refresh measurements.         *)
(***************************************************************************)
EXTENDS Integers, FiniteSets, Sequences, Maps

CONSTANTS
  EngineWorkers,     \* the worker threads
  EngineTasks,       \* task ids
  PriorityOf,        \* the TaskPriority of each task id, CRITICAL the highest
  Nodes,             \* peer ids
  Viable,            \* the nodes filterCandidates keeps for a task id
  MaxTasks,          \* bound on the submissions, for model checking
  MaxEngineStarts    \* bound on start(), for model checking

ASSUME EngineAssumption ==
  /\ EngineWorkers # {} /\ IsFiniteSet(EngineWorkers)
  /\ PriorityOf \in [EngineTasks -> Nat]
  /\ Viable \in [EngineTasks -> SUBSET Nodes]
  /\ MaxTasks \in Nat /\ MaxEngineStarts \in Nat

VARIABLES
  submitted,        \* the task ids in the order of their enqueue
  queued,           \* the numbers of the tasks in taskQueue_
  registering,      \* those whose submitTask has not stored the promise yet
  pendingPromises,  \* task id to the number of the task whose promise it holds
  future,           \* what each future has become
  knownNodes,
  engineRunning,    \* running_
  shutdown,         \* TaskQueue::shutdown_
  engineStopping,   \* how far stop() has come: "no", "queue", "join"
  at,               \* where each worker stands
  doing,            \* the task each worker has taken, 0 for none
  engineStats,      \* totalTasksSubmitted_, ...Completed_, ...Failed_
  starts            \* for MaxEngineStarts

tasksVars == <<submitted, queued, registering, pendingPromises, future>>
lifeVars == <<engineRunning, shutdown, engineStopping, starts>>
engineVars == <<tasksVars, knownNodes, lifeVars, at, doing, engineStats>>

EngineInit ==
  /\ submitted = <<>> /\ queued = {} /\ registering = {}
  /\ pendingPromises = EmptyMap /\ future = <<>>
  /\ knownNodes = {}
  /\ engineRunning = FALSE /\ shutdown = FALSE /\ engineStopping = "no" /\ starts = 0
  /\ at = [w \in EngineWorkers |-> "off"] /\ doing = [w \in EngineWorkers |-> 0]
  /\ engineStats = [submitted |-> 0, completed |-> 0, failed |-> 0]

-----------------------------------------------------------------------------
(* Calls.                                                                  *)

\* shutdown_ stays as the last stop() left it.
StartEngine ==
  /\ ~engineRunning /\ engineStopping = "no"
  /\ starts < MaxEngineStarts
  /\ engineRunning' = TRUE
  /\ starts' = starts + 1
  /\ at' = [w \in EngineWorkers |-> "test"]
  /\ UNCHANGED <<tasksVars, knownNodes, shutdown, engineStopping, doing, engineStats>>

\* stop() clears running_ ...
StopEngine ==
  /\ engineRunning
  /\ engineRunning' = FALSE /\ engineStopping' = "queue"
  /\ UNCHANGED <<tasksVars, knownNodes, shutdown, starts, at, doing, engineStats>>

\* ... shuts the queue down, which wakes the workers that wait on it ...
ShutdownQueue ==
  /\ engineStopping = "queue"
  /\ shutdown' = TRUE /\ engineStopping' = "join"
  /\ UNCHANGED <<tasksVars, knownNodes, engineRunning, starts, at, doing, engineStats>>

\* The table holds the promise of task n.
Registered(n) ==
  submitted[n] \in DOMAIN pendingPromises /\ pendingPromises[submitted[n]] = n

\* Fault: only the promises of tasks that are still queued are failed.
FailQueuedPending ==
  /\ future' = [n \in DOMAIN future |->
                  IF Registered(n) /\ n \in queued THEN "cancelled" ELSE future[n]]
  /\ pendingPromises' = EmptyMap

FailAllPending ==
  /\ future' = [n \in DOMAIN future |-> IF Registered(n) THEN "cancelled" ELSE future[n]]
  /\ pendingPromises' = EmptyMap

\* ... and fails the promises that are left once its threads have ended.
StoppedEngine ==
  /\ engineStopping = "join"
  /\ \A w \in EngineWorkers : at[w] = "off"
  /\ engineStopping' = "no"
  /\ FailAllPending
  /\ UNCHANGED <<submitted, queued, registering, knownNodes, engineRunning, shutdown,
                 starts, at, doing, engineStats>>

\* submitTask queues the task ...
SubmitTask(id) ==
  /\ Len(submitted) < MaxTasks
  /\ submitted' = Append(submitted, id)
  /\ future' = Append(future, "open")
  /\ queued' = queued \cup {Len(submitted) + 1}
  /\ registering' = registering \cup {Len(submitted) + 1}
  /\ UNCHANGED <<pendingPromises, knownNodes, lifeVars, at, doing, engineStats>>

\* ... and then stores its promise.  A promise already there under this id is
\* destroyed, which breaks its future.
RegisterPromise(n) ==
  /\ n \in registering
  /\ registering' = registering \ {n}
  /\ pendingPromises' = Put(pendingPromises, submitted[n], n)
  /\ future' = [m \in DOMAIN future |->
                  IF m # n /\ submitted[m] = submitted[n] /\ Registered(m)
                    THEN "broken" ELSE future[m]]
  /\ UNCHANGED <<submitted, queued, knownNodes, lifeVars, at, doing, engineStats>>

RegisterNode(p) ==
  /\ knownNodes' = knownNodes \cup {p}
  /\ UNCHANGED <<tasksVars, lifeVars, at, doing, engineStats>>

UnregisterNode(p) ==
  /\ knownNodes' = knownNodes \ {p}
  /\ UNCHANGED <<tasksVars, lifeVars, at, doing, engineStats>>

-----------------------------------------------------------------------------
(* A worker thread.                                                        *)

\* while (running_.load())
TestRunning(w) ==
  /\ at[w] = "test"
  /\ at' = [at EXCEPT ![w] = IF engineRunning THEN "wait" ELSE "off"]
  /\ UNCHANGED <<tasksVars, knownNodes, lifeVars, doing, engineStats>>

\* Fault: what is left in the queue is done before the worker ends.
EndWhenEmpty(w) ==
  /\ at[w] = "wait" /\ shutdown /\ queued = {}
  /\ at' = [at EXCEPT ![w] = "off"]
  /\ UNCHANGED <<tasksVars, knownNodes, lifeVars, doing, engineStats>>

\* dequeue() returns nullopt.
EndWorker(w) ==
  /\ at[w] = "wait" /\ shutdown
  /\ at' = [at EXCEPT ![w] = "off"]
  /\ UNCHANGED <<tasksVars, knownNodes, lifeVars, doing, engineStats>>

\* The first task of the highest priority that has any.
First(n) ==
  LET Priority(m) == PriorityOf[submitted[m]]
  IN  \A m \in queued :
        Priority(m) < Priority(n) \/ (Priority(m) = Priority(n) /\ n <= m)

\* Fault: the task at the front is returned and stays in the queue.
DequeueWithoutPop(w) ==
  /\ at[w] = "wait" /\ ~shutdown
  /\ \E n \in queued : First(n) /\ doing' = [doing EXCEPT ![w] = n]
  /\ at' = [at EXCEPT ![w] = "run"]
  /\ engineStats' = [engineStats EXCEPT !.submitted = @ + 1]
  /\ UNCHANGED <<tasksVars, knownNodes, lifeVars>>

Dequeue(w) ==
  /\ at[w] = "wait" /\ ~shutdown
  /\ \E n \in queued :
       /\ First(n)
       /\ queued' = queued \ {n}
       /\ doing' = [doing EXCEPT ![w] = n]
  /\ at' = [at EXCEPT ![w] = "run"]
  /\ engineStats' = [engineStats EXCEPT !.submitted = @ + 1]
  /\ UNCHANGED <<submitted, registering, pendingPromises, future, knownNodes, lifeVars>>

\* Fault: the promise is moved out of the table and its entry stays, null.
ResolveWithoutErase(id, outcome) ==
  IF id \in DOMAIN pendingPromises
  THEN /\ future' = [future EXCEPT ![pendingPromises[id]] = outcome]
       /\ pendingPromises' = Put(pendingPromises, id, 0)
  ELSE UNCHANGED <<future, pendingPromises>>

\* The promise stored under the id, whichever task it belongs to; or none yet.
ResolvePromise(id, outcome) ==
  IF id \in DOMAIN pendingPromises
  THEN /\ future' = [future EXCEPT ![pendingPromises[id]] = outcome]
       /\ pendingPromises' = Erase(pendingPromises, id)
  ELSE UNCHANGED <<future, pendingPromises>>

\* Fault: a task no node can serve is counted and forgotten.
RunSilently(w) ==
  /\ at[w] = "run"
  /\ LET id == submitted[doing[w]] IN
     \/ /\ knownNodes \cap Viable[id] # {}
        /\ engineStats' = [engineStats EXCEPT !.completed = @ + 1]
        /\ ResolvePromise(id, "assigned")
     \/ /\ knownNodes \cap Viable[id] = {}
        /\ engineStats' = [engineStats EXCEPT !.failed = @ + 1]
        /\ UNCHANGED <<future, pendingPromises>>
  /\ at' = [at EXCEPT ![w] = "test"]
  /\ doing' = [doing EXCEPT ![w] = 0]
  /\ UNCHANGED <<submitted, queued, registering, knownNodes, lifeVars>>

\* runTask with dispatch: the best of the viable nodes that are known, if any.
RunTask(w) ==
  /\ at[w] = "run"
  /\ LET id == submitted[doing[w]] IN
     \/ /\ knownNodes \cap Viable[id] # {}
        /\ engineStats' = [engineStats EXCEPT !.completed = @ + 1]
        /\ ResolvePromise(id, "assigned")
     \/ /\ knownNodes \cap Viable[id] = {}
        /\ engineStats' = [engineStats EXCEPT !.failed = @ + 1]
        /\ ResolvePromise(id, "failed")
  /\ at' = [at EXCEPT ![w] = "test"]
  /\ doing' = [doing EXCEPT ![w] = 0]
  /\ UNCHANGED <<submitted, queued, registering, knownNodes, lifeVars>>

-----------------------------------------------------------------------------
EngineWorkerStep(w) == TestRunning(w) \/ EndWorker(w) \/ Dequeue(w) \/ RunTask(w)

EngineNext ==
  \/ StartEngine \/ StopEngine \/ ShutdownQueue \/ StoppedEngine
  \/ \E id \in EngineTasks : SubmitTask(id)
  \/ \E n \in registering : RegisterPromise(n)
  \/ \E p \in Nodes : RegisterNode(p) \/ UnregisterNode(p)
  \/ \E w \in EngineWorkers : EngineWorkerStep(w)

\* The workers run, and a submitTask or a stop under way goes on.
EngineFairness ==
  /\ \A w \in EngineWorkers : WF_engineVars(EngineWorkerStep(w))
  /\ WF_engineVars(\E n \in registering : RegisterPromise(n))
  /\ WF_engineVars(ShutdownQueue \/ StoppedEngine)

EngineSpec == EngineInit /\ [][EngineNext]_engineVars /\ EngineFairness

-----------------------------------------------------------------------------
(* Properties.                                                             *)

\* Every variable has its type.
EngineTypeOK ==
  /\ submitted \in Seq(EngineTasks)
  /\ future \in [DOMAIN submitted -> {"open", "assigned", "failed", "cancelled", "broken"}]
  /\ queued \subseteq DOMAIN submitted /\ registering \subseteq DOMAIN submitted
  /\ IsMap(pendingPromises, EngineTasks, DOMAIN submitted)
  /\ knownNodes \subseteq Nodes
  /\ {engineRunning, shutdown} \subseteq BOOLEAN /\ engineStopping \in {"no", "queue", "join"}
  /\ at \in [EngineWorkers -> {"off", "test", "wait", "run"}]
  /\ doing \in [EngineWorkers -> {0} \cup DOMAIN submitted]
  /\ engineStats \in [submitted : Nat, completed : Nat, failed : Nat]

\* Nothing but the table or its own submitTask holds the promise of a future that
\* is still open: nobody waits for a promise that was dropped.
OpenFutureHeld ==
  \A n \in DOMAIN future : future[n] = "open" <=> n \in registering \/ Registered(n)

\* No task is lost or taken twice: each is queued, at one worker, or counted once as
\* completed or failed (dequeue, runTask).
TakenOnce ==
  /\ engineStats.submitted + Cardinality(queued) = Len(submitted)
  /\ engineStats.submitted = engineStats.completed + engineStats.failed
                             + Cardinality({w \in EngineWorkers : at[w] = "run"})
  /\ \A w \in EngineWorkers : at[w] = "run" =>
       /\ doing[w] \in DOMAIN submitted \ queued
       /\ \A v \in EngineWorkers \ {w} : at[v] = "run" => doing[v] # doing[w]

\* What submitTask was given is accounted for: the task by the queue, a worker or a
\* count, and the open future by the table of promises.
EngineAccounts == OpenFutureHeld /\ TakenOnce

\* stop() returns.
EngineStops == engineStopping = "queue" ~> engineStopping = "no"

\* A promise that is stored while its task still waits in a running engine is
\* resolved: by a worker, by a worker that has the same id, or by stop().
PromisesKept ==
  \A n \in 1 .. MaxTasks :
    (n \in queued /\ Registered(n) /\ engineRunning /\ ~shutdown) ~>
      (n \in DOMAIN future /\ future[n] # "open")

=============================================================================
