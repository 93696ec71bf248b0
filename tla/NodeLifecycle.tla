---------------------------- MODULE NodeLifecycle ----------------------------
(***************************************************************************)
(* The life of the node process, src/main.cpp: main constructs the parts   *)
(* of AILEEEngine, starts their threads, serves until a signal sets        *)
(* g_shutdown, stops the threads in turn and destroys the parts.  Signals  *)
(* interrupt main or another thread at any point; their handler writes a   *)
(* line of the log, under the mutex that main's own lines are written      *)
(* under.                                                                  *)
(*                                                                         *)
(* Before each of its steps main logs.  The tests and demonstrations are   *)
(* one step, which leaves nothing that the others use; what the threads    *)
(* compute is in L2Chain, Engine and ClusterScheduler.                     *)
(***************************************************************************)
EXTENDS Integers, Sequences

CONSTANTS
  MaxSignals,    \* bound on the signals, for model checking
  MaxRequests    \* threads of the web server's pool

ASSUME NodeAssumption == {MaxSignals, MaxRequests} \subseteq Nat

\* The members of AILEEEngine in the order of their destruction, which is the reverse
\* of that of their declaration.
Members ==
  <<"listener", "detector", "mempool", "producer", "server", "engine", "storage">>

VARIABLES
  mainAt,         \* the step main comes to
  mainLog,        \* "before", "inside" or "after" the line it logs there
  logMutex,       \* who holds g_logMutex
  handler,        \* where the signal handler on main and on another thread is
  gShutdown,      \* g_shutdown
  signals,
  parts,          \* the members that exist
  destroyed,      \* how many of Members main has come past, destroying them
  serverRefs,     \* block_producer_ and mempool_ of the web server, if set
  tickFlag,       \* tick_running_
  tickThread,
  producerFlag,   \* running_ of the block producer
  producerThread,
  serverThread,
  engineThreads,  \* the workers of the orchestration engine
  socketOpen,     \* svr_sock_ of httplib::Server
  handling        \* the requests being handled

threadVars == <<tickFlag, tickThread, producerFlag, producerThread,
                serverThread, engineThreads, socketOpen, handling>>
signalVars == <<handler, gShutdown, signals>>
partVars == <<parts, destroyed, serverRefs>>
nodeVars == <<mainAt, mainLog, logMutex, signalVars, partVars, threadVars>>

NodeInit ==
  /\ mainAt = "off" /\ mainLog = "before" /\ logMutex = "free"
  /\ handler = [t \in {"main", "other"} |-> "none"]
  /\ gShutdown = FALSE /\ signals = 0
  /\ parts = {} /\ destroyed = 0 /\ serverRefs = {}
  /\ tickFlag = FALSE /\ tickThread = "none"
  /\ producerFlag = FALSE /\ producerThread = "none"
  /\ serverThread = "none" /\ engineThreads = "none" /\ socketOpen = FALSE /\ handling = 0

-----------------------------------------------------------------------------
(* main                                                                    *)

Alive == mainAt \notin {"off", "ended", "exited"}

Launch ==
  /\ mainAt = "off" /\ mainAt' = "construct"
  /\ UNCHANGED <<mainLog, logMutex, signalVars, partVars, threadVars>>

\* log: a handler on the same thread keeps main from going on.
MainLogs ==
  /\ Alive /\ mainAt # "destroy" /\ handler["main"] = "none"
  /\ \/ mainLog = "before" /\ logMutex = "free" /\ mainLog' = "inside" /\ logMutex' = "main"
     \/ mainLog = "inside" /\ mainLog' = "after" /\ logMutex' = "free"
  /\ UNCHANGED <<mainAt, signalVars, partVars, threadVars>>

MainGoes(here, next) ==
  /\ mainAt = here /\ mainLog = "after" /\ handler["main"] = "none"
  /\ mainAt' = next /\ mainLog' = "before"
  /\ UNCHANGED <<logMutex, signalVars>>

\* What the init functions may leave.  Orchestration and web server may be switched off;
\* storage, detector and listener may be missing too, which no step here depends on.
MadeParts ==
  {{Members[n] : n \in DOMAIN Members} \ missing : missing \in SUBSET {"engine", "server"}}

\* AILEEEngine's constructor, and a health check that repeats what was checked before it.
Construct ==
  /\ MainGoes("construct", "start_engine")
  /\ parts' \in MadeParts
  /\ UNCHANGED <<destroyed, serverRefs, threadVars>>

\* The init functions of engine, producer and web server rethrow, and what was made by
\* then goes; there is nothing to shut down.
ConstructThrows ==
  /\ MainGoes("construct", "farewell")
  /\ UNCHANGED <<partVars, threadVars>>

EngineStarts ==
  /\ engineThreads' = IF "engine" \in parts THEN "running" ELSE "none"
  /\ UNCHANGED <<tickFlag, tickThread, producerFlag, producerThread, serverThread,
                 socketOpen, handling>>

\* An exception of start(), as of a thread that cannot be created: main shuts down.  The
\* engine may have created some of its threads by then; a flag that was set for a thread
\* which does not exist is cleared before anybody reads it.
StartThrows ==
  /\ \/ MainGoes("start_engine", "stop_tick") /\ EngineStarts
     \/ /\ \E here \in {"start_server", "start_producer", "start_tick"} :
             MainGoes(here, "stop_tick")
        /\ UNCHANGED threadVars
  /\ UNCHANGED partVars

StartEngine == MainGoes("start_engine", "set_refs") /\ EngineStarts /\ UNCHANGED partVars

\* Fault: the mempool is forgotten.
SetProducerRef ==
  /\ MainGoes("set_refs", "start_server")
  /\ serverRefs' = IF "server" \in parts THEN {"producer"} ELSE {}
  /\ UNCHANGED <<parts, destroyed, threadVars>>

\* "Connect block producer and mempool to web server before starting"
SetRefs ==
  /\ MainGoes("set_refs", "start_server")
  /\ serverRefs' = IF "server" \in parts THEN {"producer", "mempool"} ELSE {}
  /\ UNCHANGED <<parts, destroyed, threadVars>>

StartServer ==
  /\ MainGoes("start_server", "start_producer")
  /\ serverThread' = IF "server" \in parts THEN "binding" ELSE "none"
  /\ UNCHANGED <<partVars, tickFlag, tickThread, producerFlag, producerThread,
                 socketOpen, handling, engineThreads>>

StartProducer ==
  /\ MainGoes("start_producer", "start_tick")
  /\ producerFlag' = TRUE /\ producerThread' = "sleeping"
  /\ UNCHANGED <<partVars, tickFlag, tickThread, serverThread,
                 socketOpen, handling, engineThreads>>

StartTick ==
  /\ MainGoes("start_tick", "demos")
  /\ tickFlag' = TRUE /\ tickThread' = "sleeping"
  /\ UNCHANGED <<partVars, producerFlag, producerThread, serverThread,
                 socketOpen, handling, engineThreads>>

\* The tests and demonstrations: each is skipped after a signal, none throws.
RunDemos == MainGoes("demos", "serve") /\ UNCHANGED <<partVars, threadVars>>

\* Fault: the loop looks at g_forceShutdown, which only a second signal sets.
ServeUntilForced == gShutdown /\ signals > 1

\* The service loop ends when a signal was handled.
ServeEnds == gShutdown

Serve == ServeEnds /\ MainGoes("serve", "stop_tick") /\ UNCHANGED <<partVars, threadVars>>

Gone(thread) == thread \in {"none", "ended"}

Threads == {tickThread, producerThread, serverThread, engineThreads}

\* shutdown, first its tick_running_.store(false) ...
StopTick ==
  /\ MainGoes("stop_tick", "join_tick")
  /\ tickFlag' = FALSE
  /\ UNCHANGED <<partVars, tickThread, producerFlag, producerThread, serverThread,
                 socketOpen, handling, engineThreads>>

\* Fault: the producer is told to stop by its destructor only.
StopProducerLate ==
  /\ MainGoes("join_tick", "join_producer") /\ Gone(tickThread)
  /\ UNCHANGED <<partVars, threadVars>>

\* ... and join(), then BlockProducer::stop ...
StopProducer ==
  /\ MainGoes("join_tick", "join_producer") /\ Gone(tickThread)
  /\ producerFlag' = FALSE
  /\ UNCHANGED <<partVars, tickFlag, tickThread, producerThread, serverThread,
                 socketOpen, handling, engineThreads>>

\* ... and its join(), then AILEEWebServer::stop: httplib's stop() closes the socket of a
\* server that is running, and does nothing to one that is not yet ...
StopServer ==
  /\ MainGoes("join_producer", "join_server") /\ Gone(producerThread)
  /\ socketOpen' = (socketOpen /\ serverThread # "listening")
  /\ UNCHANGED <<partVars, tickFlag, tickThread, producerFlag, producerThread,
                 serverThread, handling, engineThreads>>

\* Fault: the server's thread is not waited for.
ServerJoinedAnyway == TRUE

\* ... whose thread is joined in either case; last the engine is stopped.
ServerJoined == Gone(serverThread)

StopEngine ==
  /\ MainGoes("join_server", "farewell") /\ ServerJoined
  /\ engineThreads' = IF engineThreads = "running" THEN "ended" ELSE engineThreads
  /\ UNCHANGED <<partVars, tickFlag, tickThread, producerFlag, producerThread,
                 serverThread, socketOpen, handling>>

Farewell == MainGoes("farewell", "destroy") /\ UNCHANGED <<partVars, threadVars>>

\* return exitCode: the members go one by one, and the process ends.
DestroyMember ==
  /\ mainAt = "destroy" /\ handler["main"] = "none"
  /\ destroyed < Len(Members)
  /\ destroyed' = destroyed + 1
  /\ parts' = parts \ {Members[destroyed + 1]}
  /\ UNCHANGED <<mainAt, mainLog, logMutex, signalVars, serverRefs, threadVars>>

EndProcess ==
  /\ mainAt = "destroy" /\ handler["main"] = "none"
  /\ destroyed = Len(Members)
  /\ mainAt' = "ended"
  /\ UNCHANGED <<mainLog, logMutex, signalVars, partVars, threadVars>>

MainStep ==
  \/ MainLogs \/ Construct \/ StartEngine \/ SetRefs \/ StartServer \/ StartProducer
  \/ StartTick \/ RunDemos \/ Serve \/ StopTick \/ StopProducer \/ StopServer
  \/ StopEngine \/ Farewell \/ DestroyMember \/ EndProcess

-----------------------------------------------------------------------------
(* The other threads.                                                      *)

otherThan == <<mainAt, mainLog, logMutex, signalVars, partVars>>

\* A loop that sleeps, tests its flag and works.
Loops(thread, flag) ==
  \/ thread = "sleeping" /\ thread' = IF flag THEN "working" ELSE "ended"
  \/ thread = "working" /\ thread' = "sleeping"

TickStep ==
  /\ Alive /\ Loops(tickThread, tickFlag)
  /\ UNCHANGED <<otherThan, tickFlag, producerFlag, producerThread, serverThread,
                 socketOpen, handling, engineThreads>>

ProducerStep ==
  /\ Alive /\ Loops(producerThread, producerFlag)
  /\ UNCHANGED <<otherThan, tickFlag, tickThread, producerFlag, serverThread,
                 socketOpen, handling, engineThreads>>

\* listen: the port is bound, or it is not and the thread ends; between that and its
\* is_running_ the socket is open already.
ServerBinds ==
  /\ Alive /\ serverThread = "binding"
  /\ \/ serverThread' = "bound" /\ socketOpen' = TRUE
     \/ serverThread' = "ended" /\ UNCHANGED socketOpen
  /\ UNCHANGED <<otherThan, tickFlag, tickThread, producerFlag, producerThread,
                 handling, engineThreads>>

ServerListens ==
  /\ Alive /\ serverThread = "bound" /\ serverThread' = "listening"
  /\ UNCHANGED <<otherThan, tickFlag, tickThread, producerFlag, producerThread,
                 socketOpen, handling, engineThreads>>

TakeRequest ==
  /\ Alive /\ serverThread = "listening" /\ socketOpen
  /\ handling < MaxRequests /\ handling' = handling + 1
  /\ UNCHANGED <<otherThan, tickFlag, tickThread, producerFlag, producerThread,
                 serverThread, socketOpen, engineThreads>>

AnswerHttp ==
  /\ Alive /\ handling > 0 /\ handling' = handling - 1
  /\ UNCHANGED <<otherThan, tickFlag, tickThread, producerFlag, producerThread,
                 serverThread, socketOpen, engineThreads>>

\* The accept loop ends with its socket, and waits for the pool's threads.
ServerEnds ==
  /\ Alive /\ serverThread = "listening" /\ ~socketOpen /\ handling = 0
  /\ serverThread' = "ended"
  /\ UNCHANGED <<otherThan, tickFlag, tickThread, producerFlag, producerThread,
                 socketOpen, handling, engineThreads>>

-----------------------------------------------------------------------------
(* Signals.                                                                *)

Handles(t, place) == handler' = [handler EXCEPT ![t] = place]

\* A signal interrupts a thread that exists.
Signal(t) ==
  /\ Alive /\ signals < MaxSignals /\ handler[t] = "none"
  /\ t = "main" \/ \E thread \in Threads : ~Gone(thread)
  /\ signals' = signals + 1
  /\ Handles(t, IF gShutdown THEN "force" ELSE "grace")
  /\ UNCHANGED <<mainAt, mainLog, logMutex, gShutdown, partVars, threadVars>>

\* Fault: the handler's line is written without the mutex.
HandlerWrites(t) ==
  /\ Alive /\ handler[t] \in {"force", "grace"}
  /\ Handles(t, IF handler[t] = "force" THEN "logs_force" ELSE "logs_grace")
  /\ UNCHANGED <<mainAt, mainLog, logMutex, gShutdown, signals, partVars, threadVars>>

\* The handler takes the mutex of the log ...
HandlerLocks(t) ==
  /\ Alive /\ handler[t] \in {"force", "grace"} /\ logMutex = "free"
  /\ logMutex' = t
  /\ Handles(t, IF handler[t] = "force" THEN "logs_force" ELSE "logs_grace")
  /\ UNCHANGED <<mainAt, mainLog, gShutdown, signals, partVars, threadVars>>

\* ... gives it back, and sets g_shutdown, or calls std::exit for a second signal.
HandlerReturns(t) ==
  /\ Alive /\ handler[t] \in {"logs_force", "logs_grace"}
  /\ logMutex' = "free"
  /\ Handles(t, "none")
  /\ gShutdown' = TRUE
  /\ mainAt' = IF handler[t] = "logs_force" THEN "exited" ELSE mainAt
  /\ UNCHANGED <<mainLog, signals, partVars, threadVars>>

HandlerStep(t) == HandlerLocks(t) \/ HandlerReturns(t)

NodeNext ==
  \/ Launch \/ MainStep \/ ConstructThrows \/ StartThrows
  \/ TickStep \/ ProducerStep
  \/ ServerBinds \/ ServerListens \/ TakeRequest \/ AnswerHttp \/ ServerEnds
  \/ \E t \in {"main", "other"} : Signal(t) \/ HandlerStep(t)

\* The threads are scheduled, and requests and demonstrations come to an end.
NodeFairness ==
  /\ WF_nodeVars(MainStep) /\ WF_nodeVars(TickStep) /\ WF_nodeVars(ProducerStep)
  /\ WF_nodeVars(ServerBinds \/ ServerListens \/ ServerEnds) /\ WF_nodeVars(AnswerHttp)
  /\ \A t \in {"main", "other"} : WF_nodeVars(HandlerStep(t))

NodeSpec == NodeInit /\ [][NodeNext]_nodeVars /\ NodeFairness

-----------------------------------------------------------------------------
(* Properties.                                                             *)

\* Every variable has its type, and the log's mutex is held by whoever is writing.
NodeTypeOK ==
  /\ mainLog \in {"before", "inside", "after"}
  /\ logMutex \in {"free", "main", "other"}
  /\ logMutex = "other" <=> handler["other"] \in {"logs_force", "logs_grace"}
  /\ mainLog = "inside" => logMutex = "main" \/ ~Alive
  /\ handling \in 0 .. MaxRequests /\ destroyed \in 0 .. Len(Members)

\* Whatever was missing, threw or was interrupted on the way, no thread works with a
\* member that main has destroyed, and no member goes while its thread exists.
NothingUsedAfterItsEnd ==
  destroyed > 0 => \A thread \in Threads : Gone(thread)

\* No request is handled before the web server knows block producer and mempool.
RequestsSeeRefs == handling > 0 => serverRefs = {"producer", "mempool"}

\* Construction, start and shutdown are in an order that their threads can bear.
NodeSound == NothingUsedAfterItsEnd /\ RequestsSeeRefs

\* The handler waits for the mutex that the thread it interrupted holds.
HandlerStuck == logMutex = "main" /\ handler["main"] \in {"force", "grace"}

\* stop() came before the server listened, which it now does for ever.
ServerMissedStop == mainAt = "join_server" /\ serverThread = "listening" /\ socketOpen

\* A signal that was handled ends the process ("Press Ctrl+C to shutdown gracefully"),
\* but for two cases: a second signal that interrupts main while it logs, and a stop of
\* the web server before its thread listens.
SignalEndsNode == gShutdown ~> (mainAt \in {"ended", "exited"} \/ HandlerStuck \/ ServerMissedStop)

=============================================================================
