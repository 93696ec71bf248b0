---------------------------- MODULE Gateway_proofs ----------------------------
(***************************************************************************)
(* The node towards the outside, for any number of callers, requests,      *)
(* endpoints and signals: the life of the process, the submission of       *)
(* transactions, the failover of the RPC calls and the gate for the        *)
(* messages of peers.                                                      *)
(***************************************************************************)
EXTENDS MCGateway, FiniteSetTheorems, WellFoundedInduction, TLAPS

-----------------------------------------------------------------------------
(* The life of the process.  A thread is created at one step of main and   *)
(* joined at a later one, so where main is says which threads may exist;   *)
(* the exits on the way (a constructor or start() that throws) only skip   *)
(* steps that create.                                                      *)

BeforeEngine == {"off", "construct", "start_engine"}
BeforeServer == BeforeEngine \cup {"set_refs", "start_server"}
BeforeProducer == BeforeServer \cup {"start_producer"}
BeforeTick == BeforeProducer \cup {"start_tick"}
AfterEngine == {"farewell", "destroy", "ended"}
AfterServer == AfterEngine
AfterProducer == AfterServer \cup {"join_server"}
AfterTick == AfterProducer \cup {"join_producer"}

\* What exists at which step of main, and that the members go last.
PhaseInv ==
  /\ mainAt \in BeforeEngine => engineThreads = "none"
  /\ mainAt \in BeforeServer => serverThread = "none"
  /\ mainAt \in BeforeProducer => producerThread = "none"
  /\ mainAt \in BeforeTick => tickThread = "none"
  /\ mainAt \in AfterEngine => Gone(engineThreads)
  /\ mainAt \in AfterServer => Gone(serverThread)
  /\ mainAt \in AfterProducer => Gone(producerThread)
  /\ mainAt \in AfterTick => Gone(tickThread)
  /\ engineThreads \in {"none", "running", "ended"}
  /\ destroyed \in 0 .. Len(Members)
  /\ destroyed > 0 => /\ mainAt \in {"destroy", "ended", "exited"}
                      /\ \A thread \in Threads : Gone(thread)

\* The web server's thread is created after the server was told of producer and
\* mempool, and a request is handled while the thread listens.
RefsInv ==
  /\ mainAt = "start_server" /\ "server" \in parts => serverRefs = {"producer", "mempool"}
  /\ serverThread # "none" => serverRefs = {"producer", "mempool"}
  /\ handling \in 0 .. MaxRequests
  /\ handling > 0 => serverThread = "listening"

\* Who writes a line of the log holds its mutex, a handler on main's thread too.
LogInv ==
  /\ mainLog \in {"before", "inside", "after"}
  /\ logMutex \in {"free", "main", "other"}
  /\ DOMAIN handler = {"main", "other"}
  /\ logMutex = "other" <=> handler["other"] \in {"logs_force", "logs_grace"}
  /\ handler["main"] \in {"logs_force", "logs_grace"} => logMutex = "main" /\ mainLog # "inside"
  /\ mainLog = "inside" => logMutex = "main"

NodeInv == PhaseInv /\ RefsInv /\ LogInv

LEMMA NodeInvInit == NodeInit => NodeInv
<1> SUFFICES ASSUME NodeInit
             PROVE  NodeInv
  OBVIOUS
<1>1. PhaseInv
  BY DEF NodeInit, PhaseInv, Gone, Threads, Members, BeforeEngine, BeforeServer,
         BeforeProducer, BeforeTick, AfterEngine, AfterServer, AfterProducer, AfterTick
<1>2. RefsInv
  BY NodeAssumption DEF NodeInit, RefsInv
<1>3. LogInv
  BY DEF NodeInit, LogInv
<1> QED
  BY <1>1, <1>2, <1>3 DEF NodeInv

\* main's steps.
LEMMA PhaseInvMain ==
  ASSUME PhaseInv, Launch \/ MainStep \/ ConstructThrows \/ StartThrows
  PROVE  PhaseInv'
<1> USE DEF PhaseInv, Gone, Threads, BeforeEngine, BeforeServer, BeforeProducer, BeforeTick,
            AfterEngine, AfterServer, AfterProducer, AfterTick
<1>1. CASE Launch
  BY <1>1 DEF Launch, threadVars, partVars
<1>2. CASE MainLogs
  BY <1>2 DEF MainLogs, threadVars, partVars
<1>3. CASE Construct \/ ConstructThrows
  BY <1>3 DEF Construct, ConstructThrows, MainGoes, threadVars, partVars
<1>4. CASE StartEngine
  BY <1>4 DEF StartEngine, EngineStarts, MainGoes, partVars
<1>5. CASE StartThrows
  <2>1. CASE MainGoes("start_engine", "stop_tick") /\ EngineStarts
    BY <1>5, <2>1 DEF StartThrows, EngineStarts, MainGoes, partVars
  <2>2. CASE /\ \E here \in {"start_server", "start_producer", "start_tick"} :
                  MainGoes(here, "stop_tick")
             /\ UNCHANGED threadVars
    BY <1>5, <2>2 DEF StartThrows, MainGoes, partVars, threadVars
  <2> QED
    BY <1>5, <2>1, <2>2 DEF StartThrows
<1>6. CASE SetRefs
  BY <1>6 DEF SetRefs, MainGoes, threadVars
<1>7. CASE StartServer
  BY <1>7 DEF StartServer, MainGoes, partVars
<1>8. CASE StartProducer
  BY <1>8 DEF StartProducer, MainGoes, partVars
<1>9. CASE StartTick
  BY <1>9 DEF StartTick, MainGoes, partVars
<1>10. CASE RunDemos \/ Serve \/ Farewell
  BY <1>10 DEF RunDemos, Serve, Farewell, MainGoes, partVars, threadVars
<1>11. CASE StopTick
  BY <1>11 DEF StopTick, MainGoes, partVars
<1>12. CASE StopProducer
  BY <1>12 DEF StopProducer, MainGoes, partVars
<1>13. CASE StopServer
  BY <1>13 DEF StopServer, MainGoes, partVars
<1>14. CASE StopEngine
  BY <1>14 DEF StopEngine, ServerJoined, MainGoes, partVars
<1>15. CASE DestroyMember
  BY <1>15 DEF DestroyMember, Members, threadVars
<1>16. CASE EndProcess
  BY <1>16 DEF EndProcess, partVars, threadVars
<1> QED
  BY <1>1, <1>2, <1>3, <1>4, <1>5, <1>6, <1>7, <1>8, <1>9, <1>10, <1>11, <1>12, <1>13,
     <1>14, <1>15, <1>16 DEF MainStep

\* The other threads, and the signals: a thread that is gone takes no step.
LEMMA PhaseInvThreads ==
  ASSUME PhaseInv,
         \/ TickStep \/ ProducerStep \/ ServerBinds \/ ServerListens \/ TakeRequest
         \/ AnswerHttp \/ ServerEnds
         \/ \E t \in {"main", "other"} : Signal(t) \/ HandlerStep(t)
  PROVE  PhaseInv'
<1> USE DEF PhaseInv, Gone, Threads, BeforeEngine, BeforeServer, BeforeProducer, BeforeTick,
            AfterEngine, AfterServer, AfterProducer, AfterTick
<1>1. CASE TickStep
  BY <1>1 DEF TickStep, Loops, otherThan, partVars
<1>2. CASE ProducerStep
  BY <1>2 DEF ProducerStep, Loops, otherThan, partVars
<1>3. CASE ServerBinds \/ ServerListens \/ ServerEnds
  BY <1>3 DEF ServerBinds, ServerListens, ServerEnds, otherThan, partVars
<1>4. CASE TakeRequest \/ AnswerHttp
  BY <1>4 DEF TakeRequest, AnswerHttp, otherThan, partVars
<1>5. ASSUME NEW t \in {"main", "other"}, Signal(t) \/ HandlerStep(t)
      PROVE  PhaseInv'
  BY <1>5 DEF Signal, HandlerStep, HandlerLocks, HandlerReturns, partVars, threadVars
<1> QED
  BY <1>1, <1>2, <1>3, <1>4, <1>5

LEMMA PhaseInvNext ==
  ASSUME PhaseInv, [NodeNext]_nodeVars
  PROVE  PhaseInv'
<1>1. CASE NodeNext
  BY <1>1, PhaseInvMain, PhaseInvThreads DEF NodeNext
<1>2. CASE UNCHANGED nodeVars
  BY <1>2 DEF nodeVars, partVars, threadVars, PhaseInv, Gone, Threads
<1> QED
  BY <1>1, <1>2

\* Only SetRefs changes what the web server knows, and main is past it when the
\* server's thread starts.
LEMMA RefsInvNext ==
  ASSUME PhaseInv, RefsInv, [NodeNext]_nodeVars
  PROVE  RefsInv'
<1> USE DEF RefsInv
<1> serverThread = "none" \/ mainAt \notin {"set_refs", "construct", "start_server"}
  BY DEF PhaseInv, BeforeServer, BeforeEngine
<1> MaxRequests \in Nat
  BY NodeAssumption
<1>1. CASE SetRefs
  BY <1>1 DEF SetRefs, MainGoes, threadVars
<1>2. CASE StartServer
  BY <1>2 DEF StartServer, MainGoes, partVars
<1>3. CASE Construct
  BY <1>3 DEF Construct, MainGoes, threadVars
<1>4. CASE StartThrows \/ StartEngine
  BY <1>4 DEF StartThrows, StartEngine, EngineStarts, MainGoes, partVars, threadVars
<1>5. CASE Launch \/ MainLogs \/ ConstructThrows
  BY <1>5 DEF Launch, MainLogs, ConstructThrows, MainGoes, partVars, threadVars
<1>6. CASE StartProducer \/ StartTick
  BY <1>6 DEF StartProducer, StartTick, MainGoes, partVars
<1>7. CASE RunDemos \/ Serve \/ Farewell
  BY <1>7 DEF RunDemos, Serve, Farewell, MainGoes, partVars, threadVars
<1>8. CASE StopTick \/ StopProducer \/ StopServer \/ StopEngine
  BY <1>8 DEF StopTick, StopProducer, StopServer, StopEngine, MainGoes, partVars
<1>9. CASE DestroyMember \/ EndProcess
  BY <1>9 DEF DestroyMember, EndProcess, partVars, threadVars
<1>10. CASE TickStep \/ ProducerStep
  BY <1>10 DEF TickStep, ProducerStep, otherThan, partVars
<1>11. CASE ServerBinds \/ ServerListens \/ ServerEnds
  BY <1>11 DEF ServerBinds, ServerListens, ServerEnds, otherThan, partVars
<1>12. CASE TakeRequest \/ AnswerHttp
  BY <1>12 DEF TakeRequest, AnswerHttp, otherThan, partVars
<1>13. ASSUME NEW t \in {"main", "other"}, Signal(t) \/ HandlerStep(t)
       PROVE  RefsInv'
  BY <1>13 DEF Signal, HandlerStep, HandlerLocks, HandlerReturns, partVars, threadVars
<1>14. CASE UNCHANGED nodeVars
  BY <1>14 DEF nodeVars, partVars, threadVars
<1> QED
  BY <1>1, <1>2, <1>3, <1>4, <1>5, <1>6, <1>7, <1>8, <1>9, <1>10, <1>11, <1>12, <1>13,
     <1>14 DEF NodeNext, MainStep

\* Only MainLogs and the handlers touch the mutex.
LEMMA LogInvNext ==
  ASSUME LogInv, [NodeNext]_nodeVars
  PROVE  LogInv'
<1> USE DEF LogInv
<1>1. CASE MainLogs
  BY <1>1 DEF MainLogs, signalVars
<1>2. ASSUME NEW here, NEW next, MainGoes(here, next)
      PROVE  LogInv'
  BY <1>2 DEF MainGoes, signalVars
<1>3. CASE Launch \/ DestroyMember \/ EndProcess
  BY <1>3 DEF Launch, DestroyMember, EndProcess, signalVars
<1>4. ASSUME NEW t \in {"main", "other"}, Signal(t)
      PROVE  LogInv'
  BY <1>4 DEF Signal, Handles
<1>5. ASSUME NEW t \in {"main", "other"}, HandlerLocks(t)
      PROVE  LogInv'
  BY <1>5 DEF HandlerLocks, Handles
<1>6. ASSUME NEW t \in {"main", "other"}, HandlerReturns(t)
      PROVE  LogInv'
  BY <1>6 DEF HandlerReturns, Handles
<1>7. CASE \/ TickStep \/ ProducerStep \/ ServerBinds \/ ServerListens \/ TakeRequest
           \/ AnswerHttp \/ ServerEnds
  BY <1>7 DEF TickStep, ProducerStep, ServerBinds, ServerListens, TakeRequest, AnswerHttp,
              ServerEnds, otherThan, signalVars
<1>8. CASE UNCHANGED nodeVars
  BY <1>8 DEF nodeVars, signalVars
<1> QED
  BY <1>1, <1>2, <1>3, <1>4, <1>5, <1>6, <1>7, <1>8
     DEF NodeNext, MainStep, HandlerStep, Construct, StartEngine, SetRefs, StartServer,
         StartProducer, StartTick, RunDemos, Serve, StopTick, StopProducer, StopServer,
         StopEngine, Farewell, ConstructThrows, StartThrows

LEMMA NodeInvNext == NodeInv /\ [NodeNext]_nodeVars => NodeInv'
  BY PhaseInvNext, RefsInvNext, LogInvNext DEF NodeInv

\* No thread outlives the member it works with, and no request is handled by a web
\* server that was not told of producer and mempool: whatever main was asked to leave
\* out, whichever start threw, however many signals interrupt it where.
THEOREM NodeIsSound == NodeSpec => []NodeSound
<1>1. NodeInv => NodeSound
  BY DEF NodeInv, PhaseInv, RefsInv, NodeSound, NothingUsedAfterItsEnd, RequestsSeeRefs
<1> QED
  BY <1>1, NodeInvInit, NodeInvNext, PTL DEF NodeSpec

\* The log's mutex is held by whoever is writing a line, and every variable has its type.
THEOREM NodeTypeCorrect == NodeSpec => []NodeTypeOK
<1>1. NodeInv => NodeTypeOK
  BY DEF NodeInv, PhaseInv, RefsInv, LogInv, NodeTypeOK
<1> QED
  BY <1>1, NodeInvInit, NodeInvNext, PTL DEF NodeSpec

-----------------------------------------------------------------------------
(* The submission of transactions.  A request owns its row from the insert *)
(* on, and no two requests own the same; without trouble the node counts   *)
(* as available and has taken whatever is inserted.                        *)

Places == {"none", "available", "healthy", "unhealthy", "post", "insert", "commit",
           "state", "answered", "failed"}

Owns(r) == request[r] \in {"commit", "state", "answered"}

RowsInv ==
  /\ request \in [Requests -> Places]
  /\ \A r \in Requests : Owns(r) => HashOf[r] \in table \cup openRows
  /\ \A r \in Requests : request[r] \in {"state", "answered"} => HashOf[r] \in table
  /\ \A r, s \in Requests : r # s /\ Owns(r) /\ Owns(s) => HashOf[r] # HashOf[s]

Untroubled == troubles = 0 /\ refusals = 0

TroubleInv == troubles \in Nat /\ refusals \in Nat

ForwardInv ==
  /\ request \in [Requests -> Places]
  /\ nodeAvailable \in {"unknown", "yes", "no"}
  /\ Untroubled =>
       /\ nodeRunning /\ nodeAvailable # "no"
       /\ \A r \in Requests : request[r] # "unhealthy"
       /\ \A r \in Requests : request[r] = "insert" \/ Owns(r) => HashOf[r] \in nodePool

FreshInv == availableFresh \in BOOLEAN

ApiInv == RowsInv /\ TroubleInv /\ ForwardInv /\ FreshInv

LEMMA ApiInvInit == ApiInit => ApiInv
<1> SUFFICES ASSUME ApiInit
             PROVE  ApiInv
  OBVIOUS
<1>1. RowsInv /\ ForwardInv
  BY DEF ApiInit, RowsInv, ForwardInv, Owns, Places
<1>2. TroubleInv /\ FreshInv
  BY DEF ApiInit, TroubleInv, FreshInv
<1> QED
  BY <1>1, <1>2 DEF ApiInv

\* Only insert and commit change rows; a crash of the process keeps what is committed.
LEMMA RowsInvNext ==
  ASSUME RowsInv, [ApiNext]_apiVars
  PROVE  RowsInv'
<1> USE DEF RowsInv, Owns, Places, Goes
<1>1. ASSUME NEW r \in Requests,
             \/ ReceiveRequest(r) \/ UseCached(r) \/ AskHealth(r) \/ CacheHealth(r)
             \/ PostAccepted(r) \/ PostRefused(r) \/ PostFails(r)
      PROVE  RowsInv'
  <2>1. /\ UNCHANGED <<table, openRows>> /\ ~Owns(r)
        /\ \E place \in {"available", "healthy", "unhealthy", "post", "insert"} : Goes(r, place)
    BY <1>1 DEF ReceiveRequest, UseCached, AskHealth, CacheHealth, PostAccepted, PostRefused,
                PostFails, storeVars
  <2> QED
    BY <2>1
<1>2. ASSUME NEW r \in Requests, InsertTransaction(r)
      PROVE  RowsInv'
  BY <1>2 DEF InsertTransaction
<1>3. ASSUME NEW r \in Requests, CommitTransaction(r)
      PROVE  RowsInv'
  <2>1. CASE table' = table \cup openRows /\ openRows' = {} /\ Goes(r, "state")
    BY <1>3, <2>1 DEF CommitTransaction
  <2>2. CASE UNCHANGED <<table, openRows>> /\ Goes(r, "failed")
    BY <1>3, <2>2 DEF CommitTransaction
  <2> QED
    BY <1>3, <2>1, <2>2 DEF CommitTransaction, storeVars
<1>4. ASSUME NEW r \in Requests, AnswerRequest(r)
      PROVE  RowsInv'
  BY <1>4 DEF AnswerRequest, storeVars
<1>5. CASE ApiCrash
  <2>1. \A r \in Requests : Owns(r)' => request[r] = "answered"
    BY <1>5 DEF ApiCrash
  <2> QED
    BY <1>5, <2>1 DEF ApiCrash
<1>6. CASE QueryNode \/ CacheExpires \/ NodeStops \/ NodeStarts \/ UNCHANGED apiVars
  BY <1>6 DEF QueryNode, CacheExpires, NodeStops, NodeStarts, apiVars, storeVars
<1> QED
  BY <1>1, <1>2, <1>3, <1>4, <1>5, <1>6 DEF ApiNext, RequestStep

\* What went wrong is not forgotten.
LEMMA TroubleStays ==
  ASSUME TroubleInv, [ApiNext]_apiVars
  PROVE  /\ TroubleInv'
         /\ Untroubled' => Untroubled /\ ~Trouble /\ refusals' # refusals + 1
<1>1. troubles' \in {troubles, troubles + 1} /\ refusals' \in {refusals, refusals + 1}
  BY DEF ApiNext, RequestStep, ReceiveRequest, UseCached, AskHealth, CacheHealth, PostAccepted,
         PostRefused, PostFails, InsertTransaction, CommitTransaction, AnswerRequest, AskNode,
         QueryNode, CacheExpires, ApiCrash, NodeStops, NodeStarts, Trouble, apiVars
<1> QED
  BY <1>1 DEF TroubleInv, Untroubled, Trouble

\* The node counts as unavailable only after trouble or a refusal, so every insert
\* without them comes from a submission that the node accepted.
LEMMA ForwardInvNext ==
  ASSUME TroubleInv, ForwardInv, [ApiNext]_apiVars
  PROVE  ForwardInv'
<1> Untroubled' => Untroubled /\ ~Trouble /\ refusals' # refusals + 1
  BY TroubleStays
<1> USE DEF ForwardInv, Owns, Places, Goes, Caches
<1>1. ASSUME NEW r \in Requests, ReceiveRequest(r) \/ UseCached(r)
      PROVE  ForwardInv'
  BY <1>1 DEF ReceiveRequest, UseCached, nodeVarsOfApi
<1>2. ASSUME NEW r \in Requests, AskHealth(r) \/ CacheHealth(r)
      PROVE  ForwardInv'
  BY <1>2 DEF AskHealth, CacheHealth, nodeVarsOfApi
<1>3. ASSUME NEW r \in Requests, PostAccepted(r) \/ PostRefused(r)
      PROVE  ForwardInv'
  BY <1>3 DEF PostAccepted, PostRefused, nodeVarsOfApi
<1>4. ASSUME NEW r \in Requests, PostFails(r)
      PROVE  ForwardInv'
  BY <1>4 DEF PostFails
<1>5. ASSUME NEW r \in Requests, InsertTransaction(r) \/ CommitTransaction(r)
      PROVE  ForwardInv'
  BY <1>5 DEF InsertTransaction, CommitTransaction, nodeVarsOfApi
<1>6. ASSUME NEW r \in Requests, AnswerRequest(r)
      PROVE  ForwardInv'
  BY <1>6 DEF AnswerRequest, AskNode, nodeVarsOfApi
<1>7. CASE QueryNode \/ CacheExpires
  BY <1>7 DEF QueryNode, CacheExpires, AskNode, nodeVarsOfApi
<1>8. CASE ApiCrash
  BY <1>8 DEF ApiCrash, nodeVarsOfApi
<1>9. CASE NodeStops \/ NodeStarts
  BY <1>9 DEF NodeStops, NodeStarts
<1>10. CASE UNCHANGED apiVars
  BY <1>10 DEF apiVars, Untroubled
<1> QED
  BY <1>1, <1>2, <1>3, <1>4, <1>5, <1>6, <1>7, <1>8, <1>9, <1>10 DEF ApiNext, RequestStep

LEMMA FreshInvNext ==
  ASSUME FreshInv, [ApiNext]_apiVars
  PROVE  FreshInv'
  BY DEF FreshInv, ApiNext, RequestStep, ReceiveRequest, UseCached, AskHealth, CacheHealth,
         PostAccepted, PostRefused, PostFails, InsertTransaction, CommitTransaction,
         AnswerRequest, AskNode, QueryNode, CacheExpires, ApiCrash, NodeStops, NodeStarts,
         Caches, apiVars

LEMMA ApiInvNext == ApiInv /\ [ApiNext]_apiVars => ApiInv'
  BY RowsInvNext, TroubleStays, ForwardInvNext, FreshInvNext DEF ApiInv

\* An answered transaction is in the database, was answered to one request only, and
\* reached the node unless the node or an answer failed or a request was refused: for
\* any number of requests at any await, with any hashes, over any crash.
THEOREM SubmissionIsSound == ApiSpec => []SubmissionSound
<1>1. ApiInv => SubmissionSound
  BY DEF ApiInv, RowsInv, ForwardInv, Owns, Untroubled, SubmissionSound, AnswerHonest,
         AnsweredIsStored, AnsweredOnce, ForwardedUnlessTrouble
<1> QED
  BY <1>1, ApiInvInit, ApiInvNext, PTL DEF ApiSpec

\* A request that waits for its commit has its row, whoever committed it.
THEOREM ApiTypeCorrect == ApiSpec => []ApiTypeOK
<1>1. ApiInv => ApiTypeOK
  BY DEF ApiInv, RowsInv, ForwardInv, FreshInv, Owns, Places, ApiTypeOK
<1> QED
  BY <1>1, ApiInvInit, ApiInvNext, PTL DEF ApiSpec

-----------------------------------------------------------------------------
(* The failover of the RPC calls.  A call moves on from an endpoint only    *)
(* after a step at which the endpoint was not usable: its circuit was open, *)
(* it was marked unhealthy or it did not answer.                            *)

CallerPlaces == {"idle", "circuit", "compare", "delete", "status", "send", "won", "lost"}

Verdicts == {"none", "answered", "all_failed", "key_error"}

ThreadsInv ==
  /\ caller \in [RpcCallers -> [at : CallerPlaces, ep : Endpoints, good : BOOLEAN]]
  /\ checker \in [HealthThreads -> [at : {"off", "test", "ping", "good", "bad"}, ep : Endpoints]]
  /\ verdict \in [RpcCallers -> Verdicts]
  /\ epUp \subseteq Endpoints

\* A call in progress has no verdict, and cannot have counted on an endpoint that it has
\* come past or that it is about to skip.
CalmInv ==
  /\ calm \in [RpcCallers -> SUBSET Endpoints]
  /\ \A c \in RpcCallers :
       /\ caller[c].at # "idle" =>
            /\ verdict[c] = "none"
            /\ caller[c].good => /\ \A e \in calm[c] : e >= caller[c].ep
                                 /\ caller[c].at \in {"compare", "delete", "lost"} =>
                                      caller[c].ep \notin calm[c]
       /\ caller[c].good /\ verdict[c] = "all_failed" => calm[c] = {}

LEMMA EndpointsNotEmpty == 1 \in Endpoints /\ LastEndpoint \in Endpoints /\ Endpoints \subseteq Nat
  BY FailoverAssumption DEF Endpoints

\* The step to the next endpoint stays among them.
LEMMA NextEndpointMoves ==
  ASSUME ThreadsInv, NEW c \in RpcCallers, NextEndpoint(c)
  PROVE  \/ /\ caller[c].ep + 1 \in Endpoints
            /\ caller' = [caller EXCEPT ![c].at = "circuit", ![c].ep = caller[c].ep + 1]
            /\ UNCHANGED verdict
         \/ caller[c].ep = LastEndpoint /\ Ends(c, "all_failed")
<1>1. caller[c].ep \in Endpoints
  BY DEF ThreadsInv
<1> QED
  BY <1>1, FailoverAssumption DEF NextEndpoint, Endpoints

\* What one step of a call does to the caller and its verdict.
CallerMoves(c) ==
  \/ \E place \in CallerPlaces : Goto(c, place) /\ UNCHANGED verdict
  \/ \E how \in Verdicts : Ends(c, how)
  \/ NextEndpoint(c)

LEMMA CallerStepMoves ==
  ASSUME NEW c \in RpcCallers, CallerStep(c)
  PROVE  CallerMoves(c) /\ UNCHANGED <<checker, epUp>>
  BY DEF CallerStep, FindCircuit, CompareCircuit, DeleteCircuit, TestStatus, SendRpc, RecordCall,
         CallerMoves, CallerPlaces, Verdicts, worldVars

LEMMA ThreadsInvInit == FailoverInit => ThreadsInv /\ CalmInv
  BY EndpointsNotEmpty
     DEF FailoverInit, ThreadsInv, CalmInv, CallerPlaces, Verdicts

LEMMA ThreadsInvNext ==
  ASSUME ThreadsInv, [FailoverNext]_failoverVars
  PROVE  ThreadsInv'
<1>1. ASSUME NEW c \in RpcCallers, NEW good \in GoodRequests, RpcCall(c, good),
             UNCHANGED <<checker, worldVars>>
      PROVE  ThreadsInv'
  BY <1>1, EndpointsNotEmpty, FailoverAssumption
     DEF RpcCall, ThreadsInv, CallerPlaces, Verdicts, worldVars
<1>2. ASSUME NEW c \in RpcCallers, CallerStep(c)
      PROVE  ThreadsInv'
  <2>1. UNCHANGED <<checker, epUp>> /\ CallerMoves(c)
    BY <1>2, CallerStepMoves
  <2>2. CASE \E place \in CallerPlaces : Goto(c, place) /\ UNCHANGED verdict
    BY <2>1, <2>2 DEF ThreadsInv, Goto
  <2>3. ASSUME NEW how \in Verdicts, Ends(c, how)
        PROVE  ThreadsInv'
    BY ZenonT(30), <2>1, <2>3, EndpointsNotEmpty DEF ThreadsInv, Ends, CallerPlaces
  <2>4. CASE NextEndpoint(c)
    <3>1. CASE /\ caller[c].ep + 1 \in Endpoints
               /\ caller' = [caller EXCEPT ![c].at = "circuit", ![c].ep = caller[c].ep + 1]
               /\ UNCHANGED verdict
      BY ZenonT(30), <2>1, <3>1 DEF ThreadsInv, CallerPlaces
    <3> QED
      BY <2>3, <2>4, <3>1, NextEndpointMoves DEF Verdicts
  <2> QED
    BY <2>1, <2>2, <2>3, <2>4 DEF CallerMoves
<1>3. ASSUME NEW h \in HealthThreads, StartChecks(h)
      PROVE  ThreadsInv'
  BY <1>3 DEF StartChecks, ThreadsInv, worldVars
<1>4. ASSUME NEW h \in HealthThreads, HealthStep(h)
      PROVE  ThreadsInv'
  <2>1. UNCHANGED <<caller, verdict, epUp>>
    BY <1>4 DEF HealthStep, worldVars
  <2>2. \E place \in {"off", "test", "ping", "good", "bad"}, e \in Endpoints :
          checker' = [checker EXCEPT ![h].at = place, ![h].ep = e]
    <3>1. checker[h].ep \in Endpoints /\ checker[h] = [at |-> checker[h].at, ep |-> checker[h].ep]
      BY DEF ThreadsInv
    <3>2. ASSUME NEW place, checker' = [checker EXCEPT ![h].at = place]
          PROVE  checker' = [checker EXCEPT ![h].at = place, ![h].ep = checker[h].ep]
      BY <3>1, <3>2 DEF ThreadsInv
    <3>3. (IF checker[h].ep < LastEndpoint THEN checker[h].ep + 1 ELSE 1) \in Endpoints
      BY <3>1, FailoverAssumption DEF Endpoints
    <3> QED
      BY <1>4, <3>1, <3>2, <3>3 DEF HealthStep
  <2> QED
    BY ZenonT(30), <2>1, <2>2 DEF ThreadsInv
<1>5. CASE StopChecks \/ FailoverTick \/ UNCHANGED failoverVars
  BY <1>5 DEF StopChecks, FailoverTick, failoverVars, worldVars, ThreadsInv
<1>6. ASSUME NEW e \in Endpoints, FlipEndpoint(e)
      PROVE  ThreadsInv'
  BY <1>6 DEF FlipEndpoint, ThreadsInv
<1> QED
  BY <1>1, <1>2, <1>3, <1>4, <1>5, <1>6 DEF FailoverNext

\* What a step that tracks the calm endpoints does to those of one call: they only get
\* fewer during a call, by the endpoints that are not usable after the step.
LEMMA CalmShrinks ==
  ASSUME CalmInv, ThreadsInv, ThreadsInv', TrackCalm
  PROVE  /\ calm' \in [RpcCallers -> SUBSET Endpoints]
         /\ \A c \in RpcCallers : caller[c].at # "idle" =>
              calm'[c] = calm[c] \cap Usable(epUp', epStatus', openUntil')
         /\ \A c \in RpcCallers : caller[c].at = "idle" /\ caller'[c].at = "idle" =>
              calm'[c] = {}
<1>1. Usable(epUp', epStatus', openUntil') \subseteq Endpoints
  BY DEF Usable, ThreadsInv
<1> QED
  BY <1>1 DEF TrackCalm, CalmInv

\* What CalmInv says of one call.
CallInv(c) ==
  /\ caller[c].at # "idle" =>
       /\ verdict[c] = "none"
       /\ caller[c].good => /\ \A e \in calm[c] : e >= caller[c].ep
                            /\ caller[c].at \in {"compare", "delete", "lost"} =>
                                 caller[c].ep \notin calm[c]
  /\ caller[c].good /\ verdict[c] = "all_failed" => calm[c] = {}

LEMMA CalmInvByCall ==
  CalmInv <=> calm \in [RpcCallers -> SUBSET Endpoints] /\ \A c \in RpcCallers : CallInv(c)
  BY DEF CalmInv, CallInv

\* A step that leaves a caller where it is.
LEMMA OthersStay ==
  ASSUME CalmInv, ThreadsInv, ThreadsInv', TrackCalm, NEW c \in RpcCallers,
         caller'[c] = caller[c], verdict'[c] = verdict[c]
  PROVE  CallInv(c)'
<1>1. CASE caller[c].at = "idle"
  BY <1>1, CalmShrinks DEF CalmInv, CallInv
<1>2. CASE caller[c].at # "idle"
  <2>1. calm'[c] \subseteq calm[c]
    BY <1>2, CalmShrinks
  <2> QED
    BY <1>2, <2>1 DEF CalmInv, CallInv
<1> QED
  BY <1>1, <1>2

\* A call that goes on with the next endpoint, or raises after the last, where the
\* endpoint it leaves is not among the calm ones after the step.
LEMMA LeavesEndpoint ==
  ASSUME CalmInv, ThreadsInv, ThreadsInv', TrackCalm, NEW c \in RpcCallers,
         caller[c].at # "idle", NextEndpoint(c),
         caller[c].good => caller[c].ep \notin calm'[c]
  PROVE  CallInv(c)'
<1>1. calm'[c] \subseteq calm[c] /\ calm[c] \subseteq Endpoints
  BY CalmShrinks DEF CalmInv
<1>2. caller[c].ep \in Nat /\ Endpoints \subseteq Nat /\ LastEndpoint \in Nat
  BY EndpointsNotEmpty DEF ThreadsInv
<1>3. caller[c].good => \A e \in calm'[c] : e \in Nat /\ e > caller[c].ep /\ e <= LastEndpoint
  BY <1>1, <1>2, FailoverAssumption DEF CalmInv, Endpoints
<1>4. caller[c] \in [at : CallerPlaces, ep : Endpoints, good : BOOLEAN]
  BY DEF ThreadsInv
<1>5. CASE /\ caller' = [caller EXCEPT ![c].at = "circuit", ![c].ep = caller[c].ep + 1]
           /\ UNCHANGED verdict
  <2>1. /\ caller'[c].at = "circuit" /\ caller'[c].ep = caller[c].ep + 1
        /\ caller'[c].good = caller[c].good /\ verdict'[c] = "none"
    BY <1>4, <1>5 DEF ThreadsInv, CalmInv
  <2>2. caller[c].good => \A e \in calm'[c] : e >= caller[c].ep + 1
    BY <1>2, <1>3
  <2> QED
    BY <2>1, <2>2 DEF CallInv
<1>6. CASE caller[c].ep = LastEndpoint /\ Ends(c, "all_failed")
  <2>1. caller'[c].at = "idle" /\ caller'[c].good = caller[c].good
    BY <1>4, <1>6 DEF ThreadsInv, Ends
  <2>2. caller[c].good => calm'[c] = {}
    BY <1>2, <1>3, <1>6
  <2> QED
    BY <2>1, <2>2 DEF CallInv
<1> QED
  BY <1>5, <1>6, NextEndpointMoves

\* One step of a call, seen from its caller.
LEMMA CallerStepCalm ==
  ASSUME CalmInv, ThreadsInv, ThreadsInv', NEW c \in RpcCallers, CallerStep(c)
  PROVE  CallInv(c)'
<1> DEFINE good == caller[c].good
           ep == caller[c].ep
<1>1. TrackCalm /\ UNCHANGED epUp
  BY DEF CallerStep, worldVars
<1>2. caller[c] \in [at : CallerPlaces, ep : Endpoints, good : BOOLEAN]
  BY DEF ThreadsInv
<1>3. caller[c].at # "idle"
  BY DEF CallerStep, FindCircuit, CompareCircuit, DeleteCircuit, TestStatus, SendRpc,
         RecordCall, At
<1>4. calm'[c] = calm[c] \cap Usable(epUp', epStatus', openUntil')
  BY <1>1, <1>3, CalmShrinks
<1>5. /\ verdict[c] = "none"
      /\ good => /\ \A e \in calm[c] : e >= ep
                 /\ caller[c].at \in {"compare", "delete", "lost"} => ep \notin calm[c]
  BY <1>3 DEF CalmInv
<1>6. ASSUME NEW how, Ends(c, how), how # "all_failed"
      PROVE  CallInv(c)'
  <2>1. caller'[c].at = "idle" /\ verdict'[c] = how
    BY <1>2, <1>6 DEF Ends, ThreadsInv
  <2> QED
    BY <1>6, <2>1 DEF CallInv
<1>7. ASSUME NEW place \in CallerPlaces, Goto(c, place), UNCHANGED verdict,
             good /\ place \in {"compare", "delete", "lost"} => ep \notin calm'[c]
      PROVE  CallInv(c)'
  <2>1. caller'[c].at = place /\ caller'[c].ep = ep /\ caller'[c].good = good
    BY <1>2, <1>7 DEF Goto, ThreadsInv
  <2> QED
    BY <1>4, <1>5, <1>7, <2>1 DEF CallInv
<1>8. ASSUME NextEndpoint(c), good => ep \notin calm'[c]
      PROVE  CallInv(c)'
  BY <1>1, <1>3, <1>8, LeavesEndpoint
<1> HIDE DEF good, ep
<1>9. CASE FindCircuit(c)
  BY <1>4, <1>7, <1>9 DEF FindCircuit, CallerPlaces, Usable, endpointVars, ep
<1>10. CASE CompareCircuit(c)
  BY <1>4, <1>5, <1>6, <1>7, <1>8, <1>10 DEF CompareCircuit, At, CallerPlaces, ep
<1>11. CASE DeleteCircuit(c)
  BY <1>6, <1>7, <1>11 DEF DeleteCircuit, CallerPlaces, ep
<1>12. CASE TestStatus(c)
  BY <1>4, <1>7, <1>8, <1>12 DEF TestStatus, CallerPlaces, Usable, endpointVars, ep
<1>13. CASE SendRpc(c)
  BY <1>1, <1>4, <1>7, <1>13 DEF SendRpc, CallerPlaces, Usable, good, ep
<1>14. CASE RecordCall(c)
  BY <1>4, <1>5, <1>6, <1>8, <1>14 DEF RecordCall, At, ep
<1> QED
  BY <1>9, <1>10, <1>11, <1>12, <1>13, <1>14 DEF CallerStep

\* A step of one caller leaves the others where they are.
LEMMA CallerStepAlone ==
  ASSUME ThreadsInv, NEW c \in RpcCallers, CallerStep(c), NEW d \in RpcCallers \ {c}
  PROVE  caller'[d] = caller[d] /\ verdict'[d] = verdict[d]
<1>1. CallerMoves(c)
  BY CallerStepMoves
<1> QED
  BY <1>1 DEF CallerMoves, ThreadsInv, Goto, Ends, NextEndpoint

LEMMA CalmInvNext ==
  ASSUME CalmInv, ThreadsInv, ThreadsInv', [FailoverNext]_failoverVars
  PROVE  CalmInv'
<1>1. ASSUME NEW c \in RpcCallers, NEW good \in GoodRequests, RpcCall(c, good), TrackCalm
      PROVE  CalmInv'
  <2>1. /\ caller'[c] = [at |-> "circuit", ep |-> 1, good |-> good] /\ verdict'[c] = "none"
        /\ \A d \in RpcCallers \ {c} : caller'[d] = caller[d] /\ verdict'[d] = verdict[d]
    BY <1>1 DEF RpcCall, ThreadsInv
  <2>2. calm' \in [RpcCallers -> SUBSET Endpoints]
    BY <1>1, CalmShrinks
  <2>3. CallInv(c)'
    <3>1. \A e \in calm'[c] : e >= 1
      BY <2>2, FailoverAssumption DEF Endpoints
    <3> QED
      BY <2>1, <3>1 DEF CallInv
  <2>4. \A d \in RpcCallers \ {c} : CallInv(d)'
    BY <1>1, <2>1, OthersStay
  <2> QED
    BY <2>2, <2>3, <2>4, CalmInvByCall DEF CalmInv, CallInv
<1>2. ASSUME NEW c \in RpcCallers, CallerStep(c)
      PROVE  CalmInv'
  <2>1. TrackCalm
    BY <1>2 DEF CallerStep
  <2>2. calm' \in [RpcCallers -> SUBSET Endpoints]
    BY <2>1, CalmShrinks
  <2>3. CallInv(c)'
    BY <1>2, CallerStepCalm
  <2>4. \A d \in RpcCallers \ {c} : CallInv(d)'
    BY <1>2, <2>1, CallerStepAlone, OthersStay
  <2> QED
    BY <2>2, <2>3, <2>4 DEF CalmInv, CallInv
<1>3. ASSUME TrackCalm, UNCHANGED <<caller, verdict>>
      PROVE  CalmInv'
  <2>1. calm' \in [RpcCallers -> SUBSET Endpoints]
    BY <1>3, CalmShrinks
  <2>2. \A c \in RpcCallers : CallInv(c)'
    BY <1>3, OthersStay
  <2> QED
    BY <2>1, <2>2 DEF CalmInv, CallInv
<1>4. ASSUME UNCHANGED <<caller, verdict, calm>>
      PROVE  CalmInv'
  BY <1>4 DEF CalmInv
<1> QED
  BY <1>1, <1>2, <1>3, <1>4
     DEF FailoverNext, StartChecks, HealthStep, StopChecks, FailoverTick, FlipEndpoint, failoverVars

\* "All Bitcoin RPC endpoints failed" is raised for a good request only when no endpoint
\* was usable during the whole call: for any number of endpoints, callers and health
\* threads, and any breaker threshold and timeout.
THEOREM FailoverReachesAll == FailoverSpec => []FailoverReaches
<1>1. CalmInv => FailoverReaches
  BY DEF CalmInv, FailoverReaches
<1> DEFINE Inv == ThreadsInv /\ CalmInv
<1>2. Inv /\ [FailoverNext]_failoverVars => Inv'
  BY ThreadsInvNext, CalmInvNext
<1> QED
  BY <1>1, <1>2, ThreadsInvInit, PTL DEF FailoverSpec

\* The status of an endpoint says how often it failed in a row, and circuits are those
\* of endpoints.
EndpointsInv ==
  /\ epFailures \in [Endpoints -> Nat]
  /\ epStatus \in [Endpoints -> {"unknown", "healthy", "degraded", "unhealthy"}]
  /\ \A e \in Endpoints :
       epStatus[e] = IF epFailures[e] >= BreakerThreshold THEN "unhealthy"
                     ELSE IF epFailures[e] > 0 THEN "degraded"
                     ELSE IF epStatus[e] = "unknown" THEN "unknown" ELSE "healthy"
  /\ IsMap(openUntil, Endpoints, 0 .. MaxNow + BreakerTimeout)
  /\ now \in 0 .. MaxNow

EndpointMoves(e) ==
  \/ CallSucceeds(e) \/ CheckSucceeds(e) \/ MarkEndpointUnhealthy(e)
  \/ openUntil' = Erase(openUntil, e) /\ UNCHANGED <<epStatus, epFailures>>

LEMMA EndpointMovesKeep ==
  ASSUME EndpointsInv, NEW e \in Endpoints, EndpointMoves(e), UNCHANGED now
  PROVE  EndpointsInv'
<1>1. BreakerThreshold \in Nat \ {0} /\ BreakerTimeout \in Nat /\ MaxNow \in Nat
  BY FailoverAssumption
<1>2. IsMap(Erase(openUntil, e), Endpoints, 0 .. MaxNow + BreakerTimeout)
  BY DEF EndpointsInv, IsMap, Erase
<1>3. IsMap(Put(openUntil, e, now + BreakerTimeout), Endpoints, 0 .. MaxNow + BreakerTimeout)
  BY <1>1 DEF EndpointsInv, IsMap, Put
<1>4. CASE CallSucceeds(e)
  BY <1>1, <1>4 DEF EndpointsInv, CallSucceeds
<1>5. CASE CheckSucceeds(e)
  BY <1>1, <1>2, <1>5 DEF EndpointsInv, CheckSucceeds
<1>6. CASE MarkEndpointUnhealthy(e)
  BY <1>1, <1>3, <1>6 DEF EndpointsInv, MarkEndpointUnhealthy
<1>7. CASE openUntil' = Erase(openUntil, e) /\ UNCHANGED <<epStatus, epFailures>>
  BY <1>2, <1>7 DEF EndpointsInv
<1> QED
  BY <1>4, <1>5, <1>6, <1>7 DEF EndpointMoves

LEMMA EndpointsInvNext ==
  ASSUME EndpointsInv, ThreadsInv, [FailoverNext]_failoverVars
  PROVE  EndpointsInv'
<1>1. ASSUME NEW c \in RpcCallers, CallerStep(c)
      PROVE  EndpointsInv'
  <2>1. caller[c].ep \in Endpoints
    BY DEF ThreadsInv
  <2>2. UNCHANGED now /\ (UNCHANGED endpointVars \/ EndpointMoves(caller[c].ep))
    BY <1>1 DEF CallerStep, FindCircuit, CompareCircuit, DeleteCircuit, TestStatus, SendRpc,
                RecordCall, EndpointMoves, worldVars, endpointVars
  <2>3. CASE UNCHANGED endpointVars
    BY <2>2, <2>3 DEF endpointVars, EndpointsInv
  <2> QED
    BY <2>1, <2>2, <2>3, EndpointMovesKeep
<1>2. ASSUME NEW h \in HealthThreads, HealthStep(h)
      PROVE  EndpointsInv'
  <2>1. checker[h].ep \in Endpoints
    BY DEF ThreadsInv
  <2>2. UNCHANGED now /\ (UNCHANGED endpointVars \/ EndpointMoves(checker[h].ep))
    BY <1>2 DEF HealthStep, EndpointMoves, worldVars
  <2>3. CASE UNCHANGED endpointVars
    BY <2>2, <2>3 DEF endpointVars, EndpointsInv
  <2> QED
    BY <2>1, <2>2, <2>3, EndpointMovesKeep
<1>3. ASSUME UNCHANGED endpointVars, UNCHANGED now \/ FailoverTick
      PROVE  EndpointsInv'
  BY <1>3, FailoverAssumption DEF endpointVars, FailoverTick, EndpointsInv
<1> QED
  BY <1>1, <1>2, <1>3
     DEF FailoverNext, RpcCall, StartChecks, StopChecks, FailoverTick, FlipEndpoint, worldVars,
         failoverVars

\* Every variable has its type, and the status of an endpoint is what its consecutive
\* failures say.
THEOREM FailoverTypeCorrect == FailoverSpec => []FailoverTypeOK
<1> DEFINE Inv == ThreadsInv /\ EndpointsInv /\ checking \in BOOLEAN
<1>1. FailoverInit => Inv
  <2>1. FailoverInit => checking \in BOOLEAN
    BY DEF FailoverInit
  <2>2. FailoverInit => EndpointsInv
    BY FailoverAssumption DEF FailoverInit, EndpointsInv, IsMap, EmptyMap
  <2> QED
    BY <2>1, <2>2, ThreadsInvInit
<1>2. Inv /\ [FailoverNext]_failoverVars => Inv'
  <2>1. checking \in BOOLEAN /\ [FailoverNext]_failoverVars => checking' \in BOOLEAN
    BY DEF FailoverNext, CallerStep, StartChecks, HealthStep, StopChecks, FailoverTick,
           FlipEndpoint, failoverVars
  <2> QED
    BY <2>1, ThreadsInvNext, EndpointsInvNext
<1>3. Inv => FailoverTypeOK
  <2>1. ThreadsInv => \A c \in RpcCallers :
          /\ caller[c].at \in {"idle", "circuit", "compare", "delete", "status", "send", "won",
                              "lost"}
          /\ caller[c].ep \in Endpoints
          /\ verdict[c] \in {"none", "answered", "all_failed", "key_error"}
    BY DEF ThreadsInv, CallerPlaces, Verdicts
  <2> QED
    BY <2>1 DEF EndpointsInv, ThreadsInv, FailoverTypeOK
<1> QED
  BY <1>1, <1>2, <1>3, PTL DEF FailoverSpec

-----------------------------------------------------------------------------
(* The rate limiter.  A sender's messages fall into windows, which do not  *)
(* overlap; messages of the present window are counted and their hashes    *)
(* kept, so what is to be shown of the past is what any WindowSize ticks   *)
(* may see of the windows before the present one.                          *)

LEMMA LeastNatural ==
  ASSUME NEW S \in SUBSET Nat, S # {}
  PROVE  \E n \in S : \A m \in S : n <= m
<1>1. PICK n \in S : \A m \in S : <<m, n>> \notin OpToRel(<, Nat)
  BY NatLessThanWellFounded, WFMin
<1>2. \A m \in S : ~(m < n)
  BY <1>1 DEF OpToRel
<1> QED
  BY <1>2

\* By the smallest counterexample: without one of its elements it would not be one.
LEMMA GreatestNatural ==
  ASSUME NEW S \in SUBSET Nat, IsFiniteSet(S), S # {}
  PROVE  \E n \in S : \A m \in S : m <= n
<1> DEFINE NoGreatest(T) == T # {} /\ \A n \in T : \E m \in T : m > n
           Sizes == {n \in Nat : \E T \in SUBSET Nat :
                                  IsFiniteSet(T) /\ Cardinality(T) = n /\ NoGreatest(T)}
<1>1. SUFFICES ASSUME NoGreatest(S)
               PROVE  FALSE
  OBVIOUS
<1>2. Cardinality(S) \in Sizes
  BY <1>1, FS_CardinalityType
<1>3. PICK n \in Sizes : \A m \in Sizes : n <= m
  <2>1. Sizes \in SUBSET Nat /\ Sizes # {}
    BY <1>2
  <2> HIDE DEF Sizes
  <2> QED
    BY <2>1, LeastNatural
<1>4. PICK T \in SUBSET Nat : IsFiniteSet(T) /\ Cardinality(T) = n /\ NoGreatest(T)
  OBVIOUS
<1>5. PICK x \in T : TRUE
  BY <1>4
<1>6. /\ IsFiniteSet(T \ {x}) /\ Cardinality(T \ {x}) = n - 1
      /\ Cardinality(T \ {x}) \in Nat /\ n \in Nat
  BY <1>4, <1>5, FS_RemoveElement, FS_CardinalityType
<1>7. n - 1 \in Sizes
  <2>1. NoGreatest(T \ {x})
    <3>1. PICK y \in T : y > x
      BY <1>4
    <3>2. ASSUME NEW k \in T \ {x}
          PROVE  \E m \in T \ {x} : m > k
      <4>1. PICK m \in T : m > k
        BY <1>4
      <4>2. CASE m = x
        BY <3>1, <4>1, <4>2
      <4> QED
        BY <4>1, <4>2
    <3> QED
      BY <3>1, <3>2
  <2> QED
    BY <1>6, <2>1
<1> QED
  BY <1>3, <1>6, <1>7

LEMMA Limits ==
  ASSUME NEW rep \in Reputations, NEW topic \in Topics
  PROVE  /\ LimitFor(rep, topic) \in Nat /\ 1 <= LimitFor(rep, topic)
         /\ LimitFor(rep, topic) <= LimitFor("high", topic)
<1>1. BaseLimit[topic] \in Nat
  BY GateAssumption
<1> QED
  BY <1>1 DEF LimitFor, Reputations

\* The highest limit exists, and no message is admitted beyond it.
LEMMA MaxLimitBounds ==
  /\ MaxLimit \in Nat \ {0}
  /\ \A rep \in Reputations, topic \in Topics : LimitFor(rep, topic) <= MaxLimit
<1> DEFINE highest == {LimitFor("high", topic) : topic \in Topics}
<1>1. \A topic \in Topics : LimitFor("high", topic) \in Nat /\ 1 <= LimitFor("high", topic)
  BY Limits DEF Reputations
<1>2. highest \in SUBSET Nat /\ highest # {} /\ IsFiniteSet(highest)
  <2>1. highest \in SUBSET Nat /\ highest # {}
    BY <1>1, GateAssumption
  <2>2. IsFiniteSet(highest)
    <3> DEFINE high == [topic \in Topics |-> LimitFor("high", topic)]
    <3>1. IsFiniteSet(Topics) /\ high \in Surjection(Topics, highest)
      BY GateAssumption DEF Surjection
    <3> HIDE DEF high, highest
    <3> QED
      BY <3>1, FS_Surjection
  <2> QED
    BY <2>1, <2>2
<1>3. \E n \in highest : \A m \in highest : m <= n
  <2> HIDE DEF highest
  <2> QED
    BY <1>2, GreatestNatural
<1>4. \E n \in highest : \A topic \in Topics : LimitFor("high", topic) <= n
  BY <1>3
<1>5. MaxLimit \in highest /\ \A topic \in Topics : LimitFor("high", topic) <= MaxLimit
  BY <1>4 DEF MaxLimit
<1>6. MaxLimit \in Nat \ {0}
  BY <1>1, <1>5
<1>7. ASSUME NEW rep \in Reputations, NEW topic \in Topics
      PROVE  LimitFor(rep, topic) <= MaxLimit
  <2>1. /\ LimitFor(rep, topic) \in Nat /\ LimitFor("high", topic) \in Nat
        /\ LimitFor(rep, topic) <= LimitFor("high", topic)
    BY Limits DEF Reputations
  <2> QED
    BY <1>5, <1>6, <2>1
<1> QED
  BY <1>6, <1>7

PeerStates == [messageCount : Nat, windowStartTick : Nat, recent : Seq(Payloads)]

HandledMessages == [from : Senders, payload : Payloads, tick : Nat]

GateTypeInv ==
  /\ logicalClock \in Nat /\ arrived \in Nat
  /\ logicalClock <= arrived /\ arrived <= MaxMessages
  /\ subscriptions \subseteq tapped
  /\ peerStates \in [Senders -> PeerStates]
  /\ DOMAIN arriving = GateThreads
  /\ \A g \in GateThreads : arriving[g] # Nothing =>
       /\ arriving[g].from \in Senders /\ arriving[g].payload \in Payloads
       /\ arriving[g].rep \in Reputations /\ arriving[g].topic \in Topics
  /\ handled \in Seq(HandledMessages)

\* The present window of a sender.
PeerInv(p) ==
  /\ peerStates[p].messageCount <= MaxLimit
  /\ peerStates[p].windowStartTick <= logicalClock
  /\ Len(peerStates[p].recent) <= peerStates[p].messageCount
  /\ Len(peerStates[p].recent) <= KeepHashes

\* allowMessage lets a message through: in the sender's window, or as the first one of a
\* new window, which always admits it.
AdmitsInWindow(p, payload) ==
  LET state == peerStates[p] IN
  /\ state.windowStartTick > 0 /\ logicalClock < state.windowStartTick + WindowSize
  /\ state.messageCount < MaxLimit
  /\ payload \notin Range(state.recent)
  /\ peerStates' = [peerStates EXCEPT ![p] =
       [messageCount |-> state.messageCount + 1, windowStartTick |-> state.windowStartTick,
        recent |-> Remembered(state.recent, payload)]]

OpensWindow(p, payload) ==
  LET state == peerStates[p] IN
  /\ state.windowStartTick = 0 \/ logicalClock >= state.windowStartTick + WindowSize
  /\ peerStates' = [peerStates EXCEPT ![p] =
       [messageCount |-> 1, windowStartTick |-> logicalClock,
        recent |-> Remembered(<<>>, payload)]]

Delivers(p, payload) ==
  \/ UNCHANGED handled
  \/ handled' = Append(handled, [from |-> p, payload |-> payload, tick |-> logicalClock])

LEMMA GateTypeInvInit == GateInit => GateTypeInv
  BY GateAssumption DEF GateInit, GateTypeInv, NewPeer, PeerStates, Nothing

\* What one call of allowMessage does, by the window its tick falls into.
LEMMA AllowMessageCases ==
  ASSUME GateTypeInv, NEW g \in GateThreads, arriving[g] # Nothing, AllowMessage(g)
  PROVE  \/ UNCHANGED <<peerStates, handled>>
         \/ \E p \in Senders, payload \in Payloads :
              /\ AdmitsInWindow(p, payload) \/ OpensWindow(p, payload)
              /\ Delivers(p, payload)
<1> DEFINE p == arriving[g].from
           payload == arriving[g].payload
           old == peerStates[p]
           state == CurrentWindow(old)
           limit == LimitFor(arriving[g].rep, arriving[g].topic)
           allowed == state.messageCount < limit /\ payload \notin Range(state.recent)
<1>1. p \in Senders /\ payload \in Payloads /\ old \in PeerStates
  BY DEF GateTypeInv
<1>2. limit \in Nat /\ 1 <= limit /\ limit <= MaxLimit /\ MaxLimit \in Nat
  BY Limits, MaxLimitBounds DEF GateTypeInv
<1>3. /\ peerStates' = [peerStates EXCEPT ![p] =
                          IF allowed THEN Admitted(state, payload) ELSE state]
      /\ Delivers(p, payload)
      /\ ~allowed => UNCHANGED handled
  BY DEF AllowMessage, Delivers
<1>4. CASE old.windowStartTick = 0 \/ logicalClock >= old.windowStartTick + WindowSize
  <2>1. state = [messageCount |-> 0, windowStartTick |-> logicalClock, recent |-> <<>>]
    BY <1>4 DEF CurrentWindow, NewPeer
  <2>2. allowed
    BY <1>2, <2>1 DEF Range
  <2>3. Admitted(state, payload) =
          [messageCount |-> 1, windowStartTick |-> logicalClock,
           recent |-> Remembered(<<>>, payload)]
    BY <2>1 DEF Admitted
  <2>4. OpensWindow(p, payload)
    BY <1>3, <1>4, <2>2, <2>3 DEF OpensWindow
  <2> QED
    BY <1>1, <1>3, <2>4
<1>5. CASE ~(old.windowStartTick = 0 \/ logicalClock >= old.windowStartTick + WindowSize)
  <2>1. state = old
    BY <1>5 DEF CurrentWindow
  <2>2. CASE allowed
    <3>1. Admitted(state, payload) =
            [messageCount |-> old.messageCount + 1, windowStartTick |-> old.windowStartTick,
             recent |-> Remembered(old.recent, payload)]
      BY <2>1 DEF Admitted
    <3>2. /\ old.windowStartTick > 0 /\ logicalClock < old.windowStartTick + WindowSize
          /\ old.messageCount < MaxLimit
      BY <1>1, <1>2, <1>5, <2>1, <2>2, GateAssumption DEF PeerStates, GateTypeInv
    <3>3. payload \notin Range(old.recent)
      BY <2>1, <2>2
    <3>4. AdmitsInWindow(p, payload)
      BY <1>3, <2>2, <3>1, <3>2, <3>3 DEF AdmitsInWindow
    <3> QED
      BY <1>1, <1>3, <3>4
  <2>3. CASE ~allowed
    <3>1. peerStates' = [peerStates EXCEPT ![p] = peerStates[p]] /\ UNCHANGED handled
      BY <1>3, <2>1, <2>3
    <3>2. peerStates' = peerStates
      BY <1>1, <3>1 DEF GateTypeInv
    <3> QED
      BY <3>1, <3>2
  <2> QED
    BY <2>2, <2>3
<1> QED
  BY <1>4, <1>5

\* The hashes a window keeps.
LEMMA RememberedHashes ==
  ASSUME NEW recent \in Seq(Payloads), NEW payload \in Payloads, Len(recent) <= KeepHashes
  PROVE  /\ Remembered(recent, payload) \in Seq(Payloads)
         /\ Len(Remembered(recent, payload)) <= KeepHashes
         /\ Len(Remembered(recent, payload)) <= Len(recent) + 1
         /\ Len(recent) < KeepHashes =>
              /\ payload \in Range(Remembered(recent, payload))
              /\ Range(recent) \subseteq Range(Remembered(recent, payload))
<1> DEFINE hashes == Append(recent, payload)
<1>1. hashes \in Seq(Payloads) /\ Len(hashes) = Len(recent) + 1 /\ Len(recent) \in Nat
  OBVIOUS
<1>2. Tail(hashes) \in Seq(Payloads) /\ Len(Tail(hashes)) = Len(recent)
  BY <1>1
<1>3. KeepHashes \in Nat
  BY GateAssumption
<1>4. ASSUME Len(recent) < KeepHashes
      PROVE  /\ payload \in Range(Remembered(recent, payload))
             /\ Range(recent) \subseteq Range(Remembered(recent, payload))
  <2>1. Remembered(recent, payload) = hashes
    BY <1>1, <1>3, <1>4 DEF Remembered
  <2>2. hashes[Len(recent) + 1] = payload /\ Len(recent) + 1 \in DOMAIN hashes
    BY <1>1
  <2>3. \A i \in DOMAIN recent : i \in DOMAIN hashes /\ hashes[i] = recent[i]
    BY <1>1
  <2> QED
    BY <2>1, <2>2, <2>3 DEF Range
<1> QED
  BY <1>1, <1>2, <1>3, <1>4 DEF Remembered

\* Only allowMessage touches the states of the senders and calls a handler, and ticks
\* only go up.
LEMMA GateSteps ==
  ASSUME GateTypeInv, [GateNext]_gateVars
  PROVE  /\ logicalClock' \in {logicalClock, logicalClock + 1}
         /\ \/ UNCHANGED <<peerStates, handled>>
            \/ /\ UNCHANGED logicalClock
               /\ \E p \in Senders, payload \in Payloads :
                    /\ AdmitsInWindow(p, payload) \/ OpensWindow(p, payload)
                    /\ Delivers(p, payload)
<1>1. ASSUME NEW g \in GateThreads, arriving[g] # Nothing, AllowMessage(g)
      PROVE  UNCHANGED logicalClock
  BY <1>1 DEF AllowMessage
<1> QED
  BY <1>1, AllowMessageCases
     DEF GateNext, SubscribeTopic, UnsubscribeTopic, HandleIncomingMessage, Intercept, gateVars

LEMMA GateTypeInvNext ==
  ASSUME GateTypeInv, [GateNext]_gateVars
  PROVE  GateTypeInv'
<1>1. CASE \E topic \in Topics : SubscribeTopic(topic) \/ UnsubscribeTopic(topic)
  BY <1>1 DEF SubscribeTopic, UnsubscribeTopic, GateTypeInv
<1>2. ASSUME NEW g \in GateThreads, NEW p \in Senders, NEW topic \in Topics, NEW payload \in Payloads,
             NEW rep \in Reputations, HandleIncomingMessage(g, p, rep, topic, payload)
      PROVE  GateTypeInv'
  BY <1>2, GateAssumption DEF HandleIncomingMessage, GateTypeInv
<1>3. ASSUME NEW g \in GateThreads, NEW p \in Senders, NEW topic \in Topics, NEW payload \in Payloads,
             Intercept(g, p, topic, payload)
      PROVE  GateTypeInv'
  BY <1>3, GateAssumption DEF Intercept, GateTypeInv, Reputations
<1>4. ASSUME NEW g \in GateThreads, arriving[g] # Nothing, AllowMessage(g)
      PROVE  GateTypeInv'
  <2>1. /\ arriving' = [arriving EXCEPT ![g] = Nothing]
        /\ UNCHANGED <<logicalClock, subscriptions, tapped, arrived>>
    BY <1>4 DEF AllowMessage
  <2>2. ASSUME NEW p \in Senders, NEW payload \in Payloads,
               AdmitsInWindow(p, payload) \/ OpensWindow(p, payload)
        PROVE  peerStates' \in [Senders -> PeerStates]
    <3>1. \A recent \in Seq(Payloads) : Remembered(recent, payload) \in Seq(Payloads)
      BY GateAssumption DEF Remembered
    <3>2. <<>> \in Seq(Payloads) /\ peerStates[p] \in PeerStates
      BY DEF GateTypeInv
    <3>3. [messageCount |-> peerStates[p].messageCount + 1,
           windowStartTick |-> peerStates[p].windowStartTick,
           recent |-> Remembered(peerStates[p].recent, payload)] \in PeerStates
      BY <3>1, <3>2 DEF PeerStates
    <3>4. [messageCount |-> 1, windowStartTick |-> logicalClock,
           recent |-> Remembered(<<>>, payload)] \in PeerStates
      BY <3>1, <3>2 DEF PeerStates, GateTypeInv
    <3> QED
      BY <2>2, <3>3, <3>4 DEF AdmitsInWindow, OpensWindow, GateTypeInv
  <2>3. ASSUME NEW p \in Senders, NEW payload \in Payloads, Delivers(p, payload)
        PROVE  handled' \in Seq(HandledMessages)
    <3>1. [from |-> p, payload |-> payload, tick |-> logicalClock] \in HandledMessages
      BY DEF HandledMessages, GateTypeInv
    <3>2. handled \in Seq(HandledMessages)
      BY DEF GateTypeInv
    <3> QED
      BY <2>3, <3>1, <3>2 DEF Delivers
  <2>4. peerStates' \in [Senders -> PeerStates] /\ handled' \in Seq(HandledMessages)
    BY <1>4, <2>2, <2>3, AllowMessageCases DEF GateTypeInv
  <2> QED
    BY <2>1, <2>4 DEF GateTypeInv
<1>5. CASE UNCHANGED gateVars
  BY <1>5 DEF gateVars, GateTypeInv
<1> QED
  BY <1>1, <1>2, <1>3, <1>4, <1>5 DEF GateNext

PeersInv == \A p \in Senders : PeerInv(p)

LEMMA PeersInvNext ==
  ASSUME GateTypeInv, PeersInv, [GateNext]_gateVars
  PROVE  PeersInv'
<1> USE DEF PeersInv, PeerInv
<1>1. ASSUME UNCHANGED peerStates, logicalClock' \in {logicalClock, logicalClock + 1}
      PROVE  PeersInv'
  BY <1>1 DEF GateTypeInv, PeerStates
<1>2. ASSUME NEW p \in Senders, NEW payload \in Payloads, UNCHANGED logicalClock,
             AdmitsInWindow(p, payload) \/ OpensWindow(p, payload)
      PROVE  PeersInv'
  <2>1. \A q \in Senders \ {p} : peerStates'[q] = peerStates[q]
    BY <1>2 DEF AdmitsInWindow, OpensWindow, GateTypeInv
  <2>2. /\ peerStates[p].messageCount \in Nat /\ peerStates[p].windowStartTick \in Nat
        /\ peerStates[p].recent \in Seq(Payloads) /\ Len(peerStates[p].recent) \in Nat
        /\ logicalClock \in Nat /\ MaxLimit \in Nat \ {0} /\ KeepHashes \in Nat
    BY GateAssumption, MaxLimitBounds DEF GateTypeInv, PeerStates
  <2>3. PeerInv(p)'
    <3>1. CASE AdmitsInWindow(p, payload)
      <4>1. peerStates'[p] =
              [messageCount |-> peerStates[p].messageCount + 1,
               windowStartTick |-> peerStates[p].windowStartTick,
               recent |-> Remembered(peerStates[p].recent, payload)]
        BY <3>1 DEF AdmitsInWindow, GateTypeInv
      <4>2. /\ Len(Remembered(peerStates[p].recent, payload)) <= KeepHashes
            /\ Len(Remembered(peerStates[p].recent, payload)) <= Len(peerStates[p].recent) + 1
            /\ Len(Remembered(peerStates[p].recent, payload)) \in Nat
        BY <2>2, RememberedHashes
      <4> QED
        BY <1>2, <2>2, <3>1, <4>1, <4>2 DEF AdmitsInWindow
    <3>2. CASE OpensWindow(p, payload)
      <4>1. peerStates'[p] = [messageCount |-> 1, windowStartTick |-> logicalClock,
                              recent |-> Remembered(<<>>, payload)]
        BY <3>2 DEF OpensWindow, GateTypeInv
      <4>2. <<>> \in Seq(Payloads) /\ Len(<<>>) = 0
        OBVIOUS
      <4>3. /\ Len(Remembered(<<>>, payload)) <= KeepHashes
            /\ Len(Remembered(<<>>, payload)) <= 1
        <5> DEFINE none == <<>>
        <5>1. none \in Seq(Payloads) /\ Len(none) <= KeepHashes /\ Len(none) + 1 = 1
          BY <2>2, <4>2
        <5> HIDE DEF none
        <5>2. /\ Len(Remembered(none, payload)) <= KeepHashes
              /\ Len(Remembered(none, payload)) <= 1
          BY <5>1, RememberedHashes
        <5> QED
          BY <5>2 DEF none
      <4> QED
        BY <1>2, <2>2, <4>1, <4>3
    <3> QED
      BY <1>2, <3>1, <3>2
  <2> QED
    BY <1>2, <2>1, <2>3
<1> QED
  BY <1>1, <1>2, GateSteps

\* Counts stay below the highest limit and hashes below KeepHashes, and every variable
\* has its type.
THEOREM GateTypeCorrect == GateSpec => []GateTypeOK
<1> DEFINE Inv == GateTypeInv /\ PeersInv
<1>1. GateInit => Inv
  BY GateTypeInvInit, GateAssumption, MaxLimitBounds DEF GateInit, PeersInv, PeerInv, NewPeer
<1>2. Inv /\ [GateNext]_gateVars => Inv'
  BY GateTypeInvNext, PeersInvNext
<1>3. Inv => GateTypeOK
  <2>1. ASSUME Inv, NEW p \in Senders
        PROVE  /\ peerStates[p].messageCount \in 0 .. MaxLimit
               /\ peerStates[p].windowStartTick \in 0 .. logicalClock
               /\ Len(peerStates[p].recent) <= KeepHashes
               /\ Range(peerStates[p].recent) \subseteq Payloads
    BY <2>1, MaxLimitBounds DEF GateTypeInv, PeersInv, PeerInv, PeerStates, Range
  <2>2. Inv => logicalClock \in 0 .. MaxMessages
    BY GateAssumption DEF GateTypeInv
  <2> QED
    BY <2>1, <2>2 DEF GateTypeInv, GateTypeOK
<1> QED
  BY <1>1, <1>2, <1>3, PTL DEF GateSpec

\* Of a history of handled messages: those of a sender, those of a sender since a tick,
\* those handled in the WindowSize ticks from the i-th on, and those of them before a tick.
Past(h, p) == {j \in DOMAIN h : h[j].from = p}

Since(h, p, tick) == {j \in Past(h, p) : h[j].tick >= tick}

Ahead(h, i) ==
  {j \in DOMAIN h :
     /\ h[j].from = h[i].from
     /\ h[i].tick > 0 /\ h[j].tick \in h[i].tick .. h[i].tick + WindowSize - 1}

Earlier(h, i, tick) == {j \in Ahead(h, i) : h[j].tick < tick}

\* A sender whose present window began at tick start and has admitted count messages, of
\* which the first one came at that tick.
Windowed(h, p, start, count) ==
  /\ start = 0 => \A j \in Past(h, p) : h[j].tick = 0
  /\ start > 0 =>
       /\ count >= 1
       /\ \A j \in Past(h, p) : h[j].tick < start + WindowSize
       /\ Cardinality(Since(h, p, start)) <= count
       /\ Cardinality(Since(h, p, start + 1)) <= count - 1
       /\ \A i \in Past(h, p) : h[i].tick > 0 /\ h[i].tick < start =>
            /\ Cardinality(Earlier(h, i, start)) <= 2 * MaxLimit - 1
            /\ h[i].tick + WindowSize > start => Cardinality(Earlier(h, i, start)) <= MaxLimit - 1

LEMMA HistoryTicks ==
  ASSUME NEW h \in Seq(HandledMessages), NEW j \in DOMAIN h
  PROVE  h[j].tick \in Nat /\ h[j].from \in Senders
<1>1. h[j] \in HandledMessages
  OBVIOUS
<1> QED
  BY <1>1 DEF HandledMessages

LEMMA HistoryFinite ==
  ASSUME NEW h \in Seq(HandledMessages), NEW S \in SUBSET DOMAIN h
  PROVE  IsFiniteSet(S) /\ Cardinality(S) \in Nat
<1>1. DOMAIN h = 1 .. Len(h) /\ Len(h) \in Nat
  OBVIOUS
<1>2. IsFiniteSet(DOMAIN h)
  BY <1>1, FS_Interval
<1> QED
  BY <1>2, FS_Subset, FS_CardinalityType

LEMMA HistorySubset ==
  ASSUME NEW h \in Seq(HandledMessages), NEW S \in SUBSET DOMAIN h, NEW T \in SUBSET S
  PROVE  Cardinality(T) <= Cardinality(S)
  BY HistoryFinite, FS_Subset

\* WindowSize ticks see at most the present window and one before it, without its first
\* message.
LEMMA WindowedBurst ==
  ASSUME NEW h \in Seq(HandledMessages), NEW p \in Senders, NEW start \in Nat, NEW count \in Nat,
         count <= MaxLimit, Windowed(h, p, start, count), NEW i \in Past(h, p)
  PROVE  Cardinality(Ahead(h, i)) <= 2 * MaxLimit - 1
<1> USE GateAssumption, MaxLimitBounds
<1>1. /\ i \in DOMAIN h /\ h[i].from = p
      /\ \A j \in DOMAIN h : h[j].tick \in Nat
      /\ Ahead(h, i) \in SUBSET DOMAIN h /\ Ahead(h, i) \in SUBSET Past(h, p)
      /\ Since(h, p, start) \in SUBSET DOMAIN h
  BY HistoryTicks DEF Past, Ahead, Since
<1>2. CASE h[i].tick = 0
  <2>1. Ahead(h, i) = {}
    BY <1>2 DEF Ahead
  <2> QED
    BY <2>1, FS_EmptySet
<1>3. CASE h[i].tick > 0 /\ h[i].tick >= start
  <2>1. start > 0
    BY <1>1, <1>3 DEF Windowed
  <2>2. Ahead(h, i) \in SUBSET Since(h, p, start)
    BY <1>1, <1>3 DEF Ahead, Since
  <2>3. Cardinality(Ahead(h, i)) <= Cardinality(Since(h, p, start))
    BY <1>1, <2>2, HistorySubset
  <2> QED
    BY SMTT(30), <1>1, <2>1, <2>3, HistoryFinite DEF Windowed
<1>4. CASE h[i].tick > 0 /\ h[i].tick < start
  <2> DEFINE old == Earlier(h, i, start)
             new == {j \in Ahead(h, i) : h[j].tick >= start}
  <2>1. /\ old \in SUBSET DOMAIN h /\ new \in SUBSET DOMAIN h
        /\ Ahead(h, i) = old \cup new /\ new \in SUBSET Since(h, p, start)
    BY <1>1 DEF Earlier, Since
  <2>2. Cardinality(new) <= count
    <3>1. Cardinality(new) <= Cardinality(Since(h, p, start))
      BY <1>1, <2>1, HistorySubset
    <3>2. Cardinality(new) \in Nat /\ Cardinality(Since(h, p, start)) \in Nat
      BY <1>1, <2>1, HistoryFinite
    <3>3. Cardinality(Since(h, p, start)) <= count
      BY <1>4 DEF Windowed
    <3> HIDE DEF new
    <3> QED
      BY <3>1, <3>2, <3>3
  <2>3. CASE h[i].tick + WindowSize > start
    <3>1. Cardinality(old) <= MaxLimit - 1
      BY <1>4, <2>3 DEF Windowed
    <3>2. Cardinality(old \cup new) =
            Cardinality(old) + Cardinality(new) - Cardinality(old \cap new)
      BY <2>1, HistoryFinite, FS_Union
    <3>3. Cardinality(old) \in Nat /\ Cardinality(new) \in Nat /\ Cardinality(old \cap new) \in Nat
      BY <2>1, HistoryFinite
    <3> HIDE DEF old, new
    <3> QED
      BY <2>1, <2>2, <3>1, <3>2, <3>3
  <2>4. CASE ~(h[i].tick + WindowSize > start)
    <3>1. new = {}
      BY <1>1, <2>4 DEF Ahead
    <3>2. Ahead(h, i) = old
      BY <2>1, <3>1
    <3> QED
      BY <1>4, <3>2 DEF Windowed
  <2> QED
    BY <2>3, <2>4
<1> QED
  BY <1>1, <1>2, <1>3, <1>4

\* A message added to the history.
LEMMA HistoryGrows ==
  ASSUME NEW h \in Seq(HandledMessages), NEW m \in HandledMessages
  PROVE  LET k == Len(h) + 1
             H == Append(h, m)
         IN  /\ H \in Seq(HandledMessages)
             /\ DOMAIN H = DOMAIN h \cup {k} /\ k \notin DOMAIN h
             /\ H[k] = m /\ \A j \in DOMAIN h : H[j] = h[j]
             /\ \A p : Past(H, p) = IF p = m.from THEN Past(h, p) \cup {k} ELSE Past(h, p)
<1> DEFINE k == Len(h) + 1
           H == Append(h, m)
<1>1. /\ H \in Seq(HandledMessages)
      /\ DOMAIN H = DOMAIN h \cup {k} /\ k \notin DOMAIN h
      /\ H[k] = m /\ \A j \in DOMAIN h : H[j] = h[j]
  OBVIOUS
<1> HIDE DEF k, H
<1>2. \A p : Past(H, p) = IF p = m.from THEN Past(h, p) \cup {k} ELSE Past(h, p)
  BY <1>1 DEF Past
<1> QED
  BY <1>1, <1>2 DEF k, H

\* Messages of other senders, and of ticks that are not asked for, change nothing.
LEMMA HistoryKeeps ==
  ASSUME NEW h \in Seq(HandledMessages), NEW m \in HandledMessages, NEW p \in Senders,
         NEW tick \in Nat, m.from # p \/ m.tick >= tick
  PROVE  \A i \in Past(h, p) : Earlier(Append(h, m), i, tick) = Earlier(h, i, tick)
<1> DEFINE k == Len(h) + 1
           H == Append(h, m)
<1>1. /\ DOMAIN H = DOMAIN h \cup {k} /\ k \notin DOMAIN h
      /\ H[k] = m /\ \A j \in DOMAIN h : H[j] = h[j]
  BY HistoryGrows
<1>2. m.tick \in Nat /\ \A j \in DOMAIN h : h[j].tick \in Nat
  BY HistoryTicks DEF HandledMessages
<1> HIDE DEF k, H
<1> SUFFICES ASSUME NEW i \in Past(h, p)
             PROVE  Earlier(H, i, tick) = Earlier(h, i, tick)
  BY DEF H
<1>3. i \in DOMAIN h /\ h[i].from = p
  BY DEF Past
<1>4. k \notin Earlier(H, i, tick)
  BY <1>1, <1>2, <1>3 DEF Earlier, Ahead
<1>5. \A j \in DOMAIN h : j \in Earlier(H, i, tick) <=> j \in Earlier(h, i, tick)
  BY <1>1, <1>3 DEF Earlier, Ahead
<1>6. Earlier(H, i, tick) \subseteq DOMAIN H /\ Earlier(h, i, tick) \subseteq DOMAIN h
  BY DEF Earlier, Ahead
<1> QED
  BY <1>1, <1>4, <1>5, <1>6

LEMMA HistorySince ==
  ASSUME NEW h \in Seq(HandledMessages), NEW m \in HandledMessages, NEW p \in Senders, NEW tick \in Nat
  PROVE  Since(Append(h, m), p, tick) =
           IF m.from = p /\ m.tick >= tick THEN Since(h, p, tick) \cup {Len(h) + 1}
           ELSE Since(h, p, tick)
<1> DEFINE k == Len(h) + 1
           H == Append(h, m)
<1>1. /\ DOMAIN H = DOMAIN h \cup {k} /\ k \notin DOMAIN h
      /\ H[k] = m /\ \A j \in DOMAIN h : H[j] = h[j]
  BY HistoryGrows
<1> HIDE DEF k, H
<1>2. Since(H, p, tick) =
        IF m.from = p /\ m.tick >= tick THEN Since(h, p, tick) \cup {k} ELSE Since(h, p, tick)
  BY <1>1 DEF Since, Past
<1> QED
  BY <1>2 DEF k, H

LEMMA SinceGrows ==
  ASSUME NEW h \in Seq(HandledMessages), NEW m \in HandledMessages, NEW p \in Senders, NEW tick \in Nat
  PROVE  /\ Cardinality(Since(h, p, tick)) \in Nat
         /\ Cardinality(Since(Append(h, m), p, tick)) <= Cardinality(Since(h, p, tick)) + 1
<1> DEFINE S == Since(h, p, tick)
           k == Len(h) + 1
<1>1. S \in SUBSET DOMAIN h
  BY DEF Since, Past
<1>2. IsFiniteSet(S) /\ Cardinality(S) \in Nat
  BY <1>1, HistoryFinite
<1>3. Since(Append(h, m), p, tick) = S \cup {k} \/ Since(Append(h, m), p, tick) = S
  BY HistorySince
<1> HIDE DEF S, k
<1>4. Cardinality(S \cup {k}) = IF k \in S THEN Cardinality(S) ELSE Cardinality(S) + 1
  BY <1>2, FS_AddElement
<1>5. \/ Cardinality(Since(Append(h, m), p, tick)) = Cardinality(S \cup {k})
      \/ Cardinality(Since(Append(h, m), p, tick)) = Cardinality(S)
  BY <1>3
<1>6. Cardinality(Since(Append(h, m), p, tick)) <= Cardinality(S) + 1
  BY <1>2, <1>4, <1>5
<1> QED
  BY <1>2, <1>6 DEF S

LEMMA WindowedOther ==
  ASSUME NEW h \in Seq(HandledMessages), NEW m \in HandledMessages, NEW p \in Senders,
         NEW start \in Nat, NEW count \in Nat, m.from # p, Windowed(h, p, start, count)
  PROVE  Windowed(Append(h, m), p, start, count)
<1> DEFINE H == Append(h, m)
<1>1. Past(H, p) = Past(h, p) /\ \A j \in Past(h, p) : H[j] = h[j]
  BY HistoryGrows DEF Past
<1>2. Since(H, p, start) = Since(h, p, start) /\ Since(H, p, start + 1) = Since(h, p, start + 1)
  BY HistorySince
<1>3. \A i \in Past(h, p) : Earlier(H, i, start) = Earlier(h, i, start)
  BY HistoryKeeps
<1> HIDE DEF H
<1>4. Windowed(H, p, start, count)
  BY <1>1, <1>2, <1>3 DEF Windowed
<1> QED
  BY <1>4 DEF H

\* One more message of the sender in its window, whether it has a handler or not.
LEMMA WindowedMore ==
  ASSUME NEW h \in Seq(HandledMessages), NEW m \in HandledMessages,
         NEW start \in Nat \ {0}, NEW count \in Nat,
         start <= m.tick, m.tick < start + WindowSize, Windowed(h, m.from, start, count)
  PROVE  /\ Windowed(h, m.from, start, count + 1)
         /\ Windowed(Append(h, m), m.from, start, count + 1)
<1> DEFINE H == Append(h, m)
           p == m.from
           k == Len(h) + 1
<1>1. p \in Senders /\ m.tick \in Nat /\ start + 1 \in Nat /\ start \in Nat
  BY DEF HandledMessages
<1>2. /\ Past(H, p) = Past(h, p) \cup {k} /\ H[k] = m
      /\ \A j \in Past(h, p) : H[j] = h[j]
  BY HistoryGrows DEF Past
<1>3. /\ Cardinality(Since(h, p, start)) \in Nat /\ Cardinality(Since(h, p, start + 1)) \in Nat
      /\ Cardinality(Since(H, p, start)) <= Cardinality(Since(h, p, start)) + 1
      /\ Cardinality(Since(H, p, start + 1)) <= Cardinality(Since(h, p, start + 1)) + 1
  <2> HIDE DEF p
  <2> QED
    BY <1>1, SinceGrows
<1>4. /\ Cardinality(Since(H, p, start)) \in Nat /\ Cardinality(Since(H, p, start + 1)) \in Nat
  <2>1. H \in Seq(HandledMessages)
    BY HistoryGrows
  <2> HIDE DEF H, p
  <2> QED
    BY <1>1, <2>1, SinceGrows
<1>5. \A i \in Past(h, p) : Earlier(H, i, start) = Earlier(h, i, start)
  BY <1>1, HistoryKeeps
<1> HIDE DEF H, k, p
<1>6. Windowed(h, p, start, count)
  BY DEF p
<1>7. Windowed(h, p, start, count + 1)
  BY <1>3, <1>6 DEF Windowed
<1>8. ~(m.tick < start)
  BY <1>1
<1>9. Windowed(H, p, start, count + 1)
  BY SMTT(30), <1>2, <1>3, <1>4, <1>5, <1>6, <1>8 DEF Windowed
<1> QED
  BY <1>7, <1>9 DEF H, p

\* The first message of the next window: the one before it is now of the past.
LEMMA WindowedOpen ==
  ASSUME NEW h \in Seq(HandledMessages), NEW m \in HandledMessages,
         NEW start \in Nat, NEW count \in Nat, count <= MaxLimit,
         start = 0 \/ m.tick >= start + WindowSize,
         Windowed(h, m.from, start, count)
  PROVE  /\ Windowed(h, m.from, m.tick, 1)
         /\ Windowed(Append(h, m), m.from, m.tick, 1)
<1> USE GateAssumption, MaxLimitBounds
<1> DEFINE H == Append(h, m)
           p == m.from
           k == Len(h) + 1
           tick == m.tick
<1>1. p \in Senders /\ tick \in Nat /\ tick + 1 \in Nat
  BY DEF HandledMessages
<1>2. /\ Past(H, p) = Past(h, p) \cup {k} /\ H[k] = m
      /\ \A j \in Past(h, p) : H[j] = h[j]
  BY HistoryGrows DEF Past
<1>3. \A j \in Past(h, p) : h[j].tick \in Nat
  BY HistoryTicks DEF Past
<1>4. \A i \in Past(h, p) : Earlier(H, i, tick) = Earlier(h, i, tick)
  <2> HIDE DEF p
  <2>1. m.from # p \/ m.tick >= tick
    BY <1>1
  <2> QED
    BY <1>1, <2>1, HistoryKeeps
<1>5. /\ Since(H, p, tick) = Since(h, p, tick) \cup {k}
      /\ Since(H, p, tick + 1) = Since(h, p, tick + 1)
  <2>1. m.tick >= tick /\ ~(m.tick >= tick + 1)
    BY <1>1
  <2>2. tick + 1 \in Nat
    BY <1>1
  <2> DEFINE next == tick + 1
  <2>3. Since(H, p, tick) = Since(h, p, tick) \cup {k}
    BY <1>1, <2>1, HistorySince
  <2>4. next \in Nat /\ ~(m.tick >= next)
    BY <2>1, <2>2
  <2> HIDE DEF next
  <2>5. Since(H, p, next) = Since(h, p, next)
    BY <1>1, <2>4, HistorySince
  <2> QED
    BY <2>3, <2>5 DEF next
<1>6. Windowed(h, p, start, count)
  OBVIOUS
<1>7. start = 0 \/ tick >= start + WindowSize
  OBVIOUS
<1>8. \A i \in Past(h, p) : i \in DOMAIN h /\ Ahead(h, i) \in SUBSET DOMAIN h
  BY DEF Past, Ahead
<1>9. H[k].tick = tick
  BY <1>2
<1> HIDE DEF H, p, k, tick
<1>10. CASE tick = 0
  <2>1. start = 0
    BY <1>1, <1>7, <1>10
  <2>2. \A j \in Past(h, p) : h[j].tick = 0
    BY <1>6, <2>1 DEF Windowed
  <2>3. \A j \in Past(H, p) : H[j].tick = 0
    BY <1>2, <1>9, <1>10, <2>2
  <2>4. Windowed(h, p, tick, 1) /\ Windowed(H, p, tick, 1)
    BY <1>10, <2>2, <2>3 DEF Windowed
  <2> QED
    BY <2>4 DEF H, p, tick
<1>11. CASE tick > 0
  <2>1. \A j \in Past(h, p) : h[j].tick < tick
    BY SMTT(30), <1>1, <1>3, <1>6, <1>7, <1>11 DEF Windowed
  <2>2. /\ Since(h, p, tick) = {} /\ Since(h, p, tick + 1) = {}
        /\ Since(H, p, tick) = {k} /\ Since(H, p, tick + 1) = {}
    <3>1. Since(h, p, tick) = {} /\ Since(h, p, tick + 1) = {}
      BY <1>1, <1>3, <2>1 DEF Since
    <3> QED
      BY <1>5, <3>1
  <2>3. /\ Cardinality(Since(h, p, tick)) = 0 /\ Cardinality(Since(h, p, tick + 1)) = 0
        /\ Cardinality(Since(H, p, tick)) = 1 /\ Cardinality(Since(H, p, tick + 1)) = 0
    BY <2>2, FS_EmptySet, FS_Singleton
  <2>4. ASSUME NEW i \in Past(h, p), h[i].tick > 0
        PROVE  /\ Cardinality(Earlier(h, i, tick)) <= 2 * MaxLimit - 1
               /\ h[i].tick + WindowSize > tick => Cardinality(Earlier(h, i, tick)) <= MaxLimit - 1
    <3>1. start > 0
      BY <1>6, <2>4 DEF Windowed
    <3>2. Earlier(h, i, tick) \in SUBSET Ahead(h, i)
      BY DEF Earlier
    <3>3. Cardinality(Ahead(h, i)) <= 2 * MaxLimit - 1
      BY <1>1, <1>6, WindowedBurst
    <3>4. Cardinality(Earlier(h, i, tick)) <= Cardinality(Ahead(h, i))
      BY <1>8, <3>2, HistorySubset
    <3>5. Cardinality(Earlier(h, i, tick)) \in Nat /\ Cardinality(Ahead(h, i)) \in Nat
      BY <1>8, <3>2, HistoryFinite
    <3>6. ASSUME h[i].tick + WindowSize > tick
          PROVE  Cardinality(Earlier(h, i, tick)) <= MaxLimit - 1
      <4>1. h[i].tick >= start + 1
        BY SMTT(30), <1>1, <1>3, <1>7, <3>1, <3>6
      <4>2. Earlier(h, i, tick) \in SUBSET Since(h, p, start + 1)
        BY <1>3, <4>1, <1>8 DEF Earlier, Ahead, Since, Past
      <4>3. Since(h, p, start + 1) \in SUBSET DOMAIN h
        BY DEF Since, Past
      <4>4. Cardinality(Earlier(h, i, tick)) <= Cardinality(Since(h, p, start + 1))
        BY <4>2, <4>3, HistorySubset
      <4>5. Cardinality(Since(h, p, start + 1)) \in Nat
        BY <4>3, HistoryFinite
      <4>6. Cardinality(Since(h, p, start + 1)) <= count - 1
        BY <1>6, <3>1 DEF Windowed
      <4> QED
        BY <3>5, <4>4, <4>5, <4>6
    <3> QED
      BY <3>3, <3>4, <3>5, <3>6
  <2>5. Windowed(h, p, tick, 1)
    <3>1. \A j \in Past(h, p) : h[j].tick < tick + WindowSize
      BY <1>1, <1>3, <2>1
    <3> QED
      BY <1>11, <2>3, <2>4, <3>1 DEF Windowed
  <2>6. Windowed(H, p, tick, 1)
    <3>1. ASSUME NEW j \in Past(H, p)
          PROVE  H[j].tick < tick + WindowSize
      <4>1. CASE j = k
        BY <1>1, <1>9, <4>1
      <4>2. CASE j \in Past(h, p)
        <5>1. H[j].tick = h[j].tick /\ h[j].tick \in Nat /\ h[j].tick < tick
          BY <1>2, <1>3, <2>1, <4>2
        <5> QED
          BY <1>1, <5>1
      <4> QED
        BY <1>2, <4>1, <4>2
    <3>2. ASSUME NEW i \in Past(H, p), H[i].tick > 0, H[i].tick < tick
          PROVE  i \in Past(h, p) /\ H[i] = h[i]
      <4>1. i # k
        BY <1>1, <1>9, <3>2
      <4> QED
        BY <1>2, <4>1
    <3>3. ASSUME NEW i \in Past(H, p), H[i].tick > 0, H[i].tick < tick
          PROVE  /\ Cardinality(Earlier(H, i, tick)) <= 2 * MaxLimit - 1
                 /\ H[i].tick + WindowSize > tick =>
                      Cardinality(Earlier(H, i, tick)) <= MaxLimit - 1
      <4>1. i \in Past(h, p) /\ H[i] = h[i]
        BY <3>2, <3>3
      <4>2. Earlier(H, i, tick) = Earlier(h, i, tick) /\ h[i].tick > 0
        BY <1>4, <3>3, <4>1
      <4> QED
        BY <2>4, <4>1, <4>2
    <3> QED
      BY <1>11, <2>3, <3>1, <3>3 DEF Windowed
  <2> QED
    BY <2>5, <2>6 DEF H, p, tick
<1> QED
  BY <1>1, <1>10, <1>11

\* Two handled messages of a sender are the same one again, and not from tick 0.
Again(h, i, j) ==
  i # j /\ h[i].payload = h[j].payload /\ h[i].tick > 0 /\ h[j].tick > 0

Near(h, i, j) == h[j].tick \in h[i].tick .. h[i].tick + WindowSize - 1

\* A sender whose present window began at tick start and keeps the hashes recent: no
\* payload comes twice in this window, and of two before it one is WindowSize older.
Unrepeated(h, p, start, recent) ==
  /\ \A i \in Past(h, p) : start > 0 /\ h[i].tick >= start => h[i].payload \in Range(recent)
  /\ \A i, j \in Past(h, p) : Again(h, i, j) =>
       /\ h[i].tick # h[j].tick
       /\ h[i].tick < start \/ h[j].tick < start
       /\ h[i].tick < start /\ h[j].tick < start =>
            h[i].tick + WindowSize <= start \/ h[j].tick + WindowSize <= start
  /\ \A i, j, k \in Past(h, p) :
       Again(h, i, j) /\ Again(h, i, k) /\ Again(h, j, k) => ~(Near(h, i, j) /\ Near(h, i, k))

LEMMA UnrepeatedOther ==
  ASSUME NEW h \in Seq(HandledMessages), NEW m \in HandledMessages, NEW p \in Senders,
         NEW start, NEW recent, m.from # p, Unrepeated(h, p, start, recent)
  PROVE  Unrepeated(Append(h, m), p, start, recent)
<1> DEFINE H == Append(h, m)
<1>1. Past(H, p) = Past(h, p) /\ \A j \in Past(h, p) : H[j] = h[j]
  BY HistoryGrows DEF Past
<1> HIDE DEF H
<1>2. Unrepeated(H, p, start, recent)
  BY <1>1 DEF Unrepeated, Again, Near
<1> QED
  BY <1>2 DEF H

\* A window that keeps more hashes, or a later one, with no message of its own yet.
LEMMA UnrepeatedQuiet ==
  ASSUME NEW h \in Seq(HandledMessages), NEW p \in Senders, NEW start \in Nat, NEW count,
         NEW recent, NEW later \in Nat, NEW hashes,
         Windowed(h, p, start, count), Unrepeated(h, p, start, recent),
         \/ later = start /\ Range(recent) \subseteq Range(hashes)
         \/ start = 0 \/ later >= start + WindowSize
  PROVE  Unrepeated(h, p, later, hashes)
<1>1. \A j \in Past(h, p) : h[j].tick \in Nat
  BY HistoryTicks DEF Past
<1>2. WindowSize \in Nat \ {0}
  BY GateAssumption
<1>3. CASE later = start /\ Range(recent) \subseteq Range(hashes)
  BY <1>3 DEF Unrepeated
<1>4. CASE start = 0
  <2>1. \A j \in Past(h, p) : h[j].tick = 0
    BY <1>4 DEF Windowed
  <2> QED
    BY <2>1 DEF Unrepeated, Again
<1>5. CASE start > 0 /\ later >= start + WindowSize
  <2>1. \A j \in Past(h, p) : h[j].tick < start + WindowSize
    BY <1>5 DEF Windowed
  <2>2. \A j \in Past(h, p) : h[j].tick < later
    BY <1>1, <1>2, <1>5, <2>1
  <2>3. ASSUME NEW i \in Past(h, p), NEW j \in Past(h, p), Again(h, i, j)
        PROVE  h[i].tick + WindowSize <= later \/ h[j].tick + WindowSize <= later
    <3>1. h[i].tick < start \/ h[j].tick < start
      BY <2>3 DEF Unrepeated
    <3> QED
      BY <1>1, <1>2, <1>5, <3>1
  <2> QED
    BY <1>1, <2>2, <2>3 DEF Unrepeated
<1> QED
  BY <1>3, <1>4, <1>5

\* One more message, whose payload was not handled in this window, and whose tick is the
\* latest so far.
LEMMA UnrepeatedMore ==
  ASSUME NEW h \in Seq(HandledMessages), NEW m \in HandledMessages, NEW start \in Nat, NEW recent,
         Unrepeated(h, m.from, start, recent),
         \A j \in Past(h, m.from) : h[j].tick <= m.tick,
         \A j \in Past(h, m.from) : h[j].tick >= start => h[j].payload # m.payload,
         m.tick >= start, m.payload \in Range(recent)
  PROVE  Unrepeated(Append(h, m), m.from, start, recent)
<1> DEFINE H == Append(h, m)
           p == m.from
           n == Len(h) + 1
           old == Past(h, p)
<1>1. Past(H, p) = old \cup {n} /\ H[n] = m /\ n \notin old /\ \A j \in old : H[j] = h[j]
  BY HistoryGrows DEF Past
<1>2. /\ m.tick \in Nat /\ WindowSize \in Nat \ {0}
      /\ \A j \in old : h[j].tick \in Nat
  BY HistoryTicks, GateAssumption DEF Past, HandledMessages
<1>3. /\ Unrepeated(h, p, start, recent)
      /\ \A j \in old : h[j].tick <= m.tick
      /\ \A j \in old : h[j].payload = m.payload => h[j].tick < start
  BY <1>2
<1> HIDE DEF H, p, n, old
<1>4. \A i, j \in old : /\ Again(H, i, j) <=> Again(h, i, j)
                        /\ Near(H, i, j) <=> Near(h, i, j)
  BY <1>1 DEF Again, Near
<1>5. \A i \in old : Again(H, i, n) \/ Again(H, n, i) => h[i].tick < start /\ h[i].payload = m.payload
  BY <1>1, <1>3 DEF Again
<1>6. \A i \in Past(H, p) : start > 0 /\ H[i].tick >= start => H[i].payload \in Range(recent)
  BY <1>1, <1>3 DEF Unrepeated, old
<1>7. ASSUME NEW i \in Past(H, p), NEW j \in Past(H, p), Again(H, i, j)
      PROVE  /\ H[i].tick # H[j].tick
             /\ H[i].tick < start \/ H[j].tick < start
             /\ H[i].tick < start /\ H[j].tick < start =>
                  H[i].tick + WindowSize <= start \/ H[j].tick + WindowSize <= start
  <2>1. CASE i \in old /\ j \in old
    <3>1. Again(h, i, j) /\ H[i] = h[i] /\ H[j] = h[j]
      BY <1>1, <1>4, <1>7, <2>1
    <3> QED
      BY <1>3, <2>1, <3>1 DEF Unrepeated, old
  <2>2. CASE i \in old /\ j = n
    <3>1. H[i].tick = h[i].tick /\ h[i].tick < start /\ H[j].tick = m.tick
      BY <1>1, <1>5, <1>7, <2>2
    <3> QED
      BY <1>2, <2>2, <3>1
  <2>3. CASE i = n /\ j \in old
    <3>1. H[j].tick = h[j].tick /\ h[j].tick < start /\ H[i].tick = m.tick
      BY <1>1, <1>5, <1>7, <2>3
    <3> QED
      BY <1>2, <2>3, <3>1
  <2> QED
    BY <1>1, <1>7, <2>1, <2>2, <2>3 DEF Again
<1>8. ASSUME NEW i \in Past(H, p), NEW j \in Past(H, p), NEW k \in Past(H, p),
             Again(H, i, j), Again(H, i, k), Again(H, j, k), Near(H, i, j), Near(H, i, k)
      PROVE  FALSE
  <2>1. CASE i \in old /\ j \in old /\ k \in old
    BY <1>3, <1>4, <1>8, <2>1 DEF Unrepeated, old
  <2>2. CASE i = n
    <3>1. j \in old /\ h[j].tick < start /\ H[j].tick = h[j].tick /\ H[i].tick = m.tick
      BY <1>1, <1>5, <1>8, <2>2 DEF Again
    <3> QED
      BY <1>2, <1>8, <3>1 DEF Near
  <2>3. ASSUME NEW x \in old, i \in old, Again(h, i, x), Near(h, i, x), Near(H, i, n), Again(H, i, n), Again(H, x, n)
        PROVE  FALSE
    <3>1. h[i].tick < start /\ h[x].tick < start
      BY <1>5, <2>3
    <3>2. h[i].tick + WindowSize <= start \/ h[x].tick + WindowSize <= start
      BY <1>3, <2>3, <3>1 DEF Unrepeated, old
    <3>3. H[i].tick = h[i].tick /\ H[n].tick = m.tick
      BY <1>1, <2>3
    <3> QED
      BY SMTT(30), <1>2, <2>3, <3>2, <3>3 DEF Near
  <2>4. CASE i \in old /\ j = n
    <3>1. k \in old /\ Again(h, i, k) /\ Near(h, i, k) /\ Again(H, k, n)
      BY <1>1, <1>4, <1>8, <2>4 DEF Again
    <3> QED
      BY <1>8, <2>3, <2>4, <3>1
  <2>5. CASE i \in old /\ k = n
    <3>1. j \in old /\ Again(h, i, j) /\ Near(h, i, j) /\ Again(H, j, n)
      BY <1>1, <1>4, <1>8, <2>5 DEF Again
    <3> QED
      BY <1>8, <2>3, <2>5, <3>1
  <2> QED
    BY <1>1, <2>1, <2>2, <2>4, <2>5
<1>9. Unrepeated(H, p, start, recent)
  BY <1>6, <1>7, <1>8 DEF Unrepeated
<1> QED
  BY <1>9 DEF H, p

HistoryInv ==
  /\ \A j \in DOMAIN handled : handled[j].tick <= logicalClock
  /\ \A p \in Senders :
       Windowed(handled, p, peerStates[p].windowStartTick, peerStates[p].messageCount)
  /\ MaxLimit <= KeepHashes =>
       \A p \in Senders :
         Unrepeated(handled, p, peerStates[p].windowStartTick, peerStates[p].recent)

\* What one admitted message does to the history of its own sender.
LEMMA AdmittedHistory ==
  ASSUME GateTypeInv, PeersInv, HistoryInv, NEW p \in Senders, NEW payload \in Payloads,
         AdmitsInWindow(p, payload) \/ OpensWindow(p, payload), Delivers(p, payload)
  PROVE  /\ Windowed(handled', p, peerStates'[p].windowStartTick, peerStates'[p].messageCount)
         /\ MaxLimit <= KeepHashes =>
              Unrepeated(handled', p, peerStates'[p].windowStartTick, peerStates'[p].recent)
<1> DEFINE m == [from |-> p, payload |-> payload, tick |-> logicalClock]
           old == peerStates[p]
           start == old.windowStartTick
           count == old.messageCount
           new == peerStates'[p]
<1>1. /\ m \in HandledMessages /\ m.from = p /\ m.payload = payload /\ m.tick = logicalClock
      /\ handled \in Seq(HandledMessages) /\ logicalClock \in Nat
  BY DEF GateTypeInv, HandledMessages
<1>2. /\ start \in Nat /\ count \in Nat /\ old.recent \in Seq(Payloads)
      /\ Len(old.recent) \in Nat
  BY DEF GateTypeInv, PeerStates
<1>3. /\ count <= MaxLimit /\ start <= logicalClock
      /\ Len(old.recent) <= count /\ Len(old.recent) <= KeepHashes
  BY DEF PeersInv, PeerInv
<1>4. /\ MaxLimit \in Nat \ {0} /\ WindowSize \in Nat \ {0} /\ KeepHashes \in Nat
  BY GateAssumption, MaxLimitBounds
<1>5. /\ Windowed(handled, p, start, count)
      /\ MaxLimit <= KeepHashes => Unrepeated(handled, p, start, old.recent)
  BY DEF HistoryInv
<1>6. handled' = handled \/ handled' = Append(handled, m)
  BY DEF Delivers
<1>7. \A j \in Past(handled, p) : handled[j].tick \in Nat /\ handled[j].tick <= logicalClock
  BY <1>1, HistoryTicks DEF HistoryInv, Past
<1> HIDE DEF m
<1>8. CASE AdmitsInWindow(p, payload)
  <2> DEFINE hashes == Remembered(old.recent, payload)
  <2>1. /\ start > 0 /\ logicalClock < start + WindowSize /\ count < MaxLimit
        /\ payload \notin Range(old.recent)
    BY <1>8 DEF AdmitsInWindow
  <2>2. new = [messageCount |-> count + 1, windowStartTick |-> start, recent |-> hashes]
    BY <1>8 DEF AdmitsInWindow, GateTypeInv
  <2>3. Windowed(handled', p, start, count + 1)
    <3>1. start \in Nat \ {0} /\ start <= m.tick /\ m.tick < start + WindowSize
      BY <1>1, <1>2, <1>3, <2>1
    <3>2. Windowed(handled, m.from, start, count)
      BY <1>1, <1>5
    <3> HIDE DEF old, start, count
    <3>3. /\ Windowed(handled, m.from, start, count + 1)
          /\ Windowed(Append(handled, m), m.from, start, count + 1)
      BY <1>1, <1>2, <3>1, <3>2, WindowedMore
    <3> QED
      BY <1>1, <1>6, <3>3
  <2>4. ASSUME MaxLimit <= KeepHashes
        PROVE  Unrepeated(handled', p, start, hashes)
    <3>1. payload \in Range(hashes) /\ Range(old.recent) \subseteq Range(hashes)
      <4>1. Len(old.recent) < KeepHashes
        BY <1>2, <1>3, <1>4, <2>1, <2>4
      <4> QED
        BY <1>2, <1>3, <4>1, RememberedHashes
    <3>2. Unrepeated(handled, p, start, old.recent)
      BY <1>5, <2>4
    <3>3. \A j \in Past(handled, p) : handled[j].tick >= start => handled[j].payload # payload
      BY <2>1, <3>2 DEF Unrepeated
    <3> HIDE DEF old, start, count, hashes
    <3>4. Unrepeated(handled, p, start, hashes)
      BY <1>1, <1>2, <1>5, <3>1, <3>2, UnrepeatedQuiet
    <3>5. Unrepeated(Append(handled, m), p, start, hashes)
      BY <1>1, <1>2, <1>3, <1>7, <3>1, <3>3, <3>4, UnrepeatedMore
    <3> QED
      BY <1>6, <3>4, <3>5
  <2> QED
    BY <2>2, <2>3, <2>4
<1>9. CASE OpensWindow(p, payload)
  <2> DEFINE none == <<>>
             hashes == Remembered(none, payload)
  <2>1. start = 0 \/ logicalClock >= start + WindowSize
    BY <1>9 DEF OpensWindow
  <2>2. new = [messageCount |-> 1, windowStartTick |-> logicalClock, recent |-> hashes]
    BY <1>9 DEF OpensWindow, GateTypeInv
  <2>3. Windowed(handled', p, logicalClock, 1)
    <3>1. start = 0 \/ m.tick >= start + WindowSize
      BY <1>1, <2>1
    <3>2. Windowed(handled, m.from, start, count)
      BY <1>1, <1>5
    <3> HIDE DEF old, start, count
    <3>3. /\ Windowed(handled, m.from, m.tick, 1)
          /\ Windowed(Append(handled, m), m.from, m.tick, 1)
      BY <1>1, <1>2, <1>3, <3>1, <3>2, WindowedOpen
    <3> QED
      BY <1>1, <1>6, <3>3
  <2>4. ASSUME MaxLimit <= KeepHashes
        PROVE  Unrepeated(handled', p, logicalClock, hashes)
    <3>1. CASE logicalClock = 0
      <4>1. \A j \in Past(handled', p) : handled'[j].tick = 0
        BY <2>3, <3>1 DEF Windowed
      <4> QED
        BY <3>1, <4>1 DEF Unrepeated, Again
    <3>2. CASE logicalClock > 0
      <4>1. payload \in Range(hashes)
        <5>1. none \in Seq(Payloads) /\ Len(none) < KeepHashes /\ Len(none) <= KeepHashes
          BY <1>4, <2>4
        <5> HIDE DEF none
        <5> QED
          BY <5>1, RememberedHashes
      <4>2. \A j \in Past(handled, p) : handled[j].tick < logicalClock
        BY SMTT(30), <1>1, <1>2, <1>4, <1>5, <1>7, <2>1, <3>2 DEF Windowed
      <4>3. \A j \in Past(handled, p) :
              handled[j].tick >= logicalClock => handled[j].payload # payload
        BY <1>1, <1>7, <4>2
      <4> HIDE DEF old, start, count, hashes
      <4>4. Unrepeated(handled, p, logicalClock, hashes)
        BY <1>1, <1>2, <1>5, <2>1, <2>4, UnrepeatedQuiet
      <4>5. Unrepeated(Append(handled, m), p, logicalClock, hashes)
        BY <1>1, <1>7, <4>1, <4>3, <4>4, UnrepeatedMore
      <4> QED
        BY <1>6, <4>4, <4>5
    <3> QED
      BY <1>1, <3>1, <3>2
  <2> QED
    BY <2>2, <2>3, <2>4
<1> QED
  BY <1>8, <1>9

LEMMA HistoryInvNext ==
  ASSUME GateTypeInv, PeersInv, HistoryInv, [GateNext]_gateVars
  PROVE  HistoryInv'
<1>1. ASSUME UNCHANGED <<peerStates, handled>>, logicalClock' \in {logicalClock, logicalClock + 1}
      PROVE  HistoryInv'
  <2>1. logicalClock \in Nat /\ \A j \in DOMAIN handled : handled[j].tick \in Nat
    BY HistoryTicks DEF GateTypeInv
  <2>2. \A j \in DOMAIN handled : handled[j].tick <= logicalClock'
    BY <1>1, <2>1 DEF HistoryInv
  <2> QED
    BY <1>1, <2>2 DEF HistoryInv
<1>2. ASSUME NEW p \in Senders, NEW payload \in Payloads, UNCHANGED logicalClock,
             AdmitsInWindow(p, payload) \/ OpensWindow(p, payload), Delivers(p, payload)
      PROVE  HistoryInv'
  <2> DEFINE m == [from |-> p, payload |-> payload, tick |-> logicalClock]
  <2>1. /\ m \in HandledMessages /\ m.from = p /\ m.tick = logicalClock
        /\ handled \in Seq(HandledMessages) /\ logicalClock \in Nat
    BY DEF GateTypeInv, HandledMessages
  <2>2. handled' = handled \/ handled' = Append(handled, m)
    BY <1>2 DEF Delivers
  <2> HIDE DEF m
  <2>3. \A j \in DOMAIN handled' : handled'[j].tick <= logicalClock'
    <3>1. \A j \in DOMAIN handled : handled[j].tick <= logicalClock
      BY DEF HistoryInv
    <3>2. CASE handled' = Append(handled, m)
      <4>1. \A j \in DOMAIN Append(handled, m) :
              \/ j \in DOMAIN handled /\ Append(handled, m)[j] = handled[j]
              \/ Append(handled, m)[j] = m
        BY <2>1, HistoryGrows
      <4>2. m.tick <= logicalClock
        BY <2>1
      <4> QED
        BY <1>2, <3>1, <3>2, <4>1, <4>2
    <3> QED
      BY <1>2, <2>2, <3>1, <3>2
  <2>4. ASSUME NEW q \in Senders, q # p
        PROVE  /\ Windowed(handled', q, peerStates'[q].windowStartTick, peerStates'[q].messageCount)
               /\ MaxLimit <= KeepHashes =>
                    Unrepeated(handled', q, peerStates'[q].windowStartTick, peerStates'[q].recent)
    <3>1. peerStates'[q] = peerStates[q]
      BY <1>2, <2>4 DEF AdmitsInWindow, OpensWindow, GateTypeInv
    <3>2. peerStates[q].windowStartTick \in Nat /\ peerStates[q].messageCount \in Nat
      BY DEF GateTypeInv, PeerStates
    <3>3. /\ Windowed(handled, q, peerStates[q].windowStartTick, peerStates[q].messageCount)
          /\ MaxLimit <= KeepHashes =>
               Unrepeated(handled, q, peerStates[q].windowStartTick, peerStates[q].recent)
      BY DEF HistoryInv
    <3>4. m.from # q
      BY <2>1, <2>4
    <3> QED
      BY <2>1, <2>2, <3>1, <3>2, <3>3, <3>4, WindowedOther, UnrepeatedOther
  <2> QED
    BY <1>2, <2>3, <2>4, AdmittedHistory DEF HistoryInv
<1> QED
  BY <1>1, <1>2, GateSteps

LEMMA AtMostTwo ==
  ASSUME NEW S, NEW x \in S, \A y, z \in S \ {x} : y = z
  PROVE  Cardinality(S) <= 2
<1>1. CASE S = {x}
  BY <1>1, FS_Singleton
<1>2. ASSUME NEW y \in S, y # x
      PROVE  Cardinality(S) <= 2
  <2>1. S = {x} \cup {y}
    BY <1>2
  <2>2. IsFiniteSet({x}) /\ Cardinality({x}) = 1
    BY FS_Singleton
  <2>3. Cardinality({x} \cup {y}) <= 2
    BY <2>2, FS_AddElement
  <2> QED
    BY <2>1, <2>3
<1> QED
  BY <1>1, <1>2

\* The limiter keeps from a handler what GateBounds says, for any number of senders,
\* topics, payloads and threads, any limits and any length of the window: WindowSize ticks
\* see fewer than twice the highest limit of a sender's messages, and while a window
\* admits no more messages than hashes are kept, at most two of the same payload.
THEOREM GateIsBounded == GateSpec => []GateBounds
<1> DEFINE Inv == GateTypeInv /\ PeersInv /\ HistoryInv
<1>1. GateInit => Inv
  <2>1. GateInit => PeersInv
    BY GateAssumption, MaxLimitBounds DEF GateInit, PeersInv, PeerInv, NewPeer
  <2>2. GateInit => HistoryInv
    BY DEF GateInit, NewPeer, HistoryInv, Windowed, Unrepeated, Past
  <2> QED
    BY <2>1, <2>2, GateTypeInvInit
<1>2. Inv /\ [GateNext]_gateVars => Inv'
  BY GateTypeInvNext, PeersInvNext, HistoryInvNext
<1>3. Inv => GateBounds
  <2> SUFFICES ASSUME Inv
               PROVE  GateBounds
    OBVIOUS
  <2>1. handled \in Seq(HandledMessages)
    BY DEF GateTypeInv
  <2>2. ASSUME NEW i \in DOMAIN handled
        PROVE  /\ handled[i].from \in Senders /\ i \in Past(handled, handled[i].from)
               /\ handled[i].tick \in Nat /\ HandledFrom(i) = Ahead(handled, i)
               /\ HandledFrom(i) \subseteq Past(handled, handled[i].from)
    BY <2>1, <2>2, HistoryTicks DEF Past, HandledFrom, Ahead
  <2>3. BurstBounded
    <3> SUFFICES ASSUME NEW i \in DOMAIN handled
                 PROVE  Cardinality(HandledFrom(i)) <= 2 * MaxLimit - 1
      BY DEF BurstBounded
    <3> DEFINE p == handled[i].from
               start == peerStates[p].windowStartTick
               count == peerStates[p].messageCount
    <3>1. p \in Senders /\ i \in Past(handled, p)
      BY <2>2
    <3>2. start \in Nat /\ count \in Nat /\ count <= MaxLimit
      BY <3>1 DEF GateTypeInv, PeerStates, PeersInv, PeerInv
    <3>3. Windowed(handled, p, start, count)
      BY <3>1 DEF HistoryInv
    <3> HIDE DEF start, count, p
    <3>4. Cardinality(Ahead(handled, i)) <= 2 * MaxLimit - 1
      BY <2>1, <3>1, <3>2, <3>3, WindowedBurst
    <3> QED
      BY <2>2, <3>4
  <2>4. RepeatsBounded
    <3> SUFFICES ASSUME MaxLimit <= KeepHashes, NEW i \in DOMAIN handled
                 PROVE  LET repeats == {j \in HandledFrom(i) :
                                          handled[j].payload = handled[i].payload}
                        IN  /\ Cardinality(repeats) <= 2
                            /\ \A j \in repeats \ {i} : handled[j].tick # handled[i].tick
      BY DEF RepeatsBounded
    <3> DEFINE repeats == {j \in HandledFrom(i) : handled[j].payload = handled[i].payload}
               p == handled[i].from
    <3>1. Unrepeated(handled, p, peerStates[p].windowStartTick, peerStates[p].recent)
      BY <2>2 DEF HistoryInv
    <3>2. CASE handled[i].tick = 0
      <4>1. repeats = {}
        BY <3>2 DEF HandledFrom
      <4> QED
        BY <4>1, FS_EmptySet
    <3>3. CASE handled[i].tick > 0
      <4>1. i \in Past(handled, p) /\ repeats \subseteq Past(handled, p)
        BY <2>2
      <4>2. i \in repeats
        BY <2>2, <3>3, GateAssumption DEF HandledFrom
      <4>3. \A j \in repeats : Near(handled, i, j) /\ handled[j].tick > 0
        BY <2>1, <2>2, <3>3, HistoryTicks DEF HandledFrom, Near
      <4>4. \A j \in repeats \ {i} : Again(handled, i, j)
        BY <3>3, <4>3 DEF Again
      <4>5. ASSUME NEW j \in repeats \ {i}, NEW k \in repeats \ {i}, j # k
            PROVE  FALSE
        <5>1. Again(handled, i, j) /\ Again(handled, i, k) /\ Again(handled, j, k)
          BY <4>3, <4>4, <4>5 DEF Again
        <5>2. Near(handled, i, j) /\ Near(handled, i, k)
          BY <4>3
        <5> HIDE DEF repeats, p
        <5>3. j \in Past(handled, p) /\ k \in Past(handled, p)
          BY <4>1, <4>5
        <5> QED
          BY <3>1, <4>1, <5>1, <5>2, <5>3 DEF Unrepeated
      <4>6. \A j \in repeats \ {i} : handled[j].tick # handled[i].tick
        <5> HIDE DEF repeats, p
        <5> QED
          BY <3>1, <4>1, <4>4 DEF Unrepeated
      <4>7. Cardinality(repeats) <= 2
        <5> HIDE DEF repeats
        <5> QED
          BY <4>2, <4>5, AtMostTwo
      <4> QED
        BY <4>6, <4>7
    <3> QED
      BY <2>2, <3>2, <3>3
  <2> QED
    BY <2>3, <2>4 DEF GateBounds
<1> QED
  BY <1>1, <1>2, <1>3, PTL DEF GateSpec

-----------------------------------------------------------------------------
(* All parts together.  They share no variable, so a behaviour of the node *)
(* is a behaviour of each.                                                 *)

gatewayVars == <<entryVars, nodeVars, gateway>>

LEMMA EveryEntryMoves ==
  [GatewayNext]_gatewayVars =>
    [FailoverNext]_failoverVars /\ [ApiNext]_apiVars /\ [GateNext]_gateVars /\ [NodeNext]_nodeVars
<1> SUFFICES ASSUME [GatewayNext]_gatewayVars
             PROVE  /\ [FailoverNext]_failoverVars /\ [ApiNext]_apiVars
                    /\ [GateNext]_gateVars /\ [NodeNext]_nodeVars
  OBVIOUS
<1>1. CASE UNCHANGED gatewayVars
  BY <1>1 DEF gatewayVars, entryVars
<1>2. CASE GatewayNext
  BY <1>2 DEF GatewayNext, entryVars
<1> QED
  BY <1>1, <1>2

\* The node towards the outside behaves, part by part, as the failover, the submission,
\* the gate for peers' messages and the life of the process do alone.
THEOREM EntriesSideBySide ==
  GatewaySpec => FailoverSpec /\ ApiSpec /\ GateSpec /\ NodeSpec
<1>1. GatewayInit => FailoverInit /\ ApiInit /\ GateInit /\ NodeInit
  BY DEF GatewayInit
<1> QED
  BY <1>1, EveryEntryMoves, PTL
     DEF GatewaySpec, gatewayVars, FailoverSpec, ApiSpec, GateSpec, NodeSpec

\* Every variable of the four parts keeps its type in the node that runs them all.
THEOREM GatewayTypeCorrect == GatewaySpec => []GatewayTypeOK
BY EntriesSideBySide, FailoverTypeCorrect, ApiTypeCorrect, GateTypeCorrect, NodeTypeCorrect, PTL
   DEF GatewayTypeOK

=============================================================================
