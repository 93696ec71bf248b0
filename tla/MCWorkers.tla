----------------------------- MODULE MCWorkers -----------------------------
(***************************************************************************)
(* The parts of the node that hand queued work to a thread: the block      *)
(* producer, the task protocol, the orchestration engine, and the threads  *)
(* that read from and send to Bitcoin.  They share no state, so a          *)
(* behaviour of the node is one of each side by side, and TLC explores     *)
(* them one at a time: part says which of them takes steps.                *)
(***************************************************************************)
EXTENDS L2Chain, TaskProtocol, Engine, BitcoinEvents, SettlementBroadcast

CONSTANTS t1, t2, t3, k1, k2, e1, e2, p1, g1, g2

VARIABLE part

\* k2 has the higher priority.
MCRank == [t \in Tasks |-> IF t = k2 THEN 1 ELSE 0]

\* e2 has the higher priority, and no node that can run it.
MCPriorityOf == [e \in EngineTasks |-> IF e = e2 THEN 2 ELSE 1]
MCViable == [e \in EngineTasks |-> IF e = e2 THEN {} ELSE {p1}]

\* Two coins are needed at first, one later.
MCWallet == <<1, 1, 2, 3>>

WorkersInit ==
  /\ Init /\ TaskInit /\ EngineInit /\ EventsInit /\ BroadcastInit
  /\ part \in {"producer", "tasks", "engine", "events", "broadcast"}

WorkersNext ==
  /\ UNCHANGED part
  /\ \/ part = "producer" /\ Next /\ UNCHANGED <<taskVars, engineVars, eventVars, broadcastVars>>
     \/ part = "tasks" /\ TaskNext /\ UNCHANGED <<vars, engineVars, eventVars, broadcastVars>>
     \/ part = "engine" /\ EngineNext /\ UNCHANGED <<vars, taskVars, eventVars, broadcastVars>>
     \/ part = "events" /\ EventsNext /\ UNCHANGED <<vars, taskVars, engineVars, broadcastVars>>
     \/ part = "broadcast" /\ BroadcastNext /\ UNCHANGED <<vars, taskVars, engineVars, eventVars>>

WorkersSpec ==
  /\ WorkersInit
  /\ [][WorkersNext]_<<vars, taskVars, engineVars, eventVars, broadcastVars, part>>
  /\ WF_vars(ProducerStep) /\ TaskFairness /\ EngineFairness /\ EventsFairness
  /\ BroadcastFairness

-----------------------------------------------------------------------------
(* The questions put to all of them.                                       *)

\* Every variable of the five parts has its type.
WorkersTypeOK ==
  TypeOK /\ TaskTypeOK /\ EngineTypeOK /\ EventsTypeOK /\ BroadcastTypeOK

\* What the node tells of Bitcoin and tells Bitcoin: subscribers see rising heights,
\* and a settlement reported as done is in the node's mempool.
AdapterSound == HeightsIncrease /\ SettledIsBroadcast

\* Whoever waits for a thread or a mutex gets on: stop() of the producer, of the
\* engine and of the adapter return, and so does every execute.
CallsReturn == StopJoins /\ EngineStops /\ AdapterStops /\ ExecuteReturns

\* What was handed to a running thread is done: valid transactions land in blocks,
\* tasks are settled, promises are kept, and the tip of a node that is up is reported.
HandedOverIsDone == AcceptedLand /\ TasksSettle /\ PromisesKept /\ TipReported

=============================================================================
