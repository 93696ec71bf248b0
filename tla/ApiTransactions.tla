--------------------------- MODULE ApiTransactions ---------------------------
(***************************************************************************)
(* POST /transactions/submit of the Python API: the transaction is sent to *)
(* the C++ node through AILEECoreClient, which caches whether the node is  *)
(* available, and stored in SQLite over the one connection all requests    *)
(* share.  Requests are coroutines; each await is the end of a step.       *)
(*                                                                         *)
(* The hash of a transaction covers the time of its request to the         *)
(* microsecond, so two requests may have the same one.  Time only ends the *)
(* validity of the cached availability.                                    *)
(***************************************************************************)
EXTENDS Integers, FiniteSets

CONSTANTS
  Requests,
  HashOf,          \* the transaction hash of each request
  Refused,         \* the hashes the node answers with an error
  MaxTroubles      \* bound on crashes and lost answers, for model checking

ASSUME ApiAssumption == DOMAIN HashOf = Requests /\ MaxTroubles \in Nat

VARIABLES
  request,         \* where each request is
  nodeAvailable,   \* _node_available
  availableFresh,  \* the cached value is younger than _check_interval
  table,           \* the committed rows
  openRows,        \* the rows of the connection's open transaction
  nodeRunning,
  nodePool,        \* history: what the node's mempool has taken
  troubles,        \* crashes and lost answers so far
  refusals         \* history: the node answered with an error

apiVars == <<request, nodeAvailable, availableFresh, table, openRows, nodeRunning,
             nodePool, troubles, refusals>>

ApiInit ==
  /\ request = [r \in Requests |-> "none"]
  /\ nodeAvailable = "unknown" /\ availableFresh = FALSE
  /\ table = {} /\ openRows = {}
  /\ nodeRunning = TRUE /\ nodePool = {}
  /\ troubles = 0 /\ refusals = 0

-----------------------------------------------------------------------------
Goes(r, place) == request' = [request EXCEPT ![r] = place]

Trouble == troubles < MaxTroubles /\ troubles' = troubles + 1

Caches(value) == nodeAvailable' = value /\ availableFresh' = TRUE

storeVars == <<table, openRows>>
nodeVarsOfApi == <<nodeRunning, nodePool>>

ReceiveRequest(r) ==
  /\ request[r] = "none"
  /\ Goes(r, "available")
  /\ UNCHANGED <<nodeAvailable, availableFresh, storeVars, nodeVarsOfApi, troubles, refusals>>

\* Fault: a node nobody has asked yet counts as unavailable.
UseCachedUnknown(r) ==
  /\ request[r] = "available"
  /\ availableFresh \/ nodeAvailable = "unknown"
  /\ Goes(r, IF nodeAvailable = "yes" THEN "post" ELSE "insert")
  /\ UNCHANGED <<nodeAvailable, availableFresh, storeVars, nodeVarsOfApi, troubles, refusals>>

\* _check_and_update_availability trusts a value that is known and fresh ...
UseCached(r) ==
  /\ request[r] = "available"
  /\ availableFresh /\ nodeAvailable # "unknown"
  /\ Goes(r, IF nodeAvailable = "yes" THEN "post" ELSE "insert")
  /\ UNCHANGED <<nodeAvailable, availableFresh, storeVars, nodeVarsOfApi, troubles, refusals>>

\* ... and asks /api/health otherwise ...
AskHealth(r) ==
  /\ request[r] = "available"
  /\ ~availableFresh \/ nodeAvailable = "unknown"
  /\ \/ nodeRunning /\ Goes(r, "healthy") /\ UNCHANGED troubles
     \/ ~nodeRunning /\ Goes(r, "unhealthy") /\ UNCHANGED troubles
     \/ nodeRunning /\ Trouble /\ Goes(r, "unhealthy")
  /\ UNCHANGED <<nodeAvailable, availableFresh, storeVars, nodeVarsOfApi, refusals>>

\* ... and caches the answer, which may be older than what is cached by now.
CacheHealth(r) ==
  /\ \/ request[r] = "healthy" /\ Caches("yes") /\ Goes(r, "post")
     \/ request[r] = "unhealthy" /\ Caches("no") /\ Goes(r, "insert")
  /\ UNCHANGED <<storeVars, nodeVarsOfApi, troubles, refusals>>

\* The node answers 202.
PostAccepted(r) ==
  /\ request[r] = "post" /\ nodeRunning
  /\ HashOf[r] \notin nodePool \cup Refused
  /\ nodePool' = nodePool \cup {HashOf[r]}
  /\ Goes(r, "insert")
  /\ UNCHANGED <<nodeAvailable, availableFresh, storeVars, nodeRunning, troubles, refusals>>

\* It answers 409 for a hash it has, or 400: raise_for_status raises, and the node
\* counts as unavailable.
PostRefused(r) ==
  /\ request[r] = "post" /\ nodeRunning
  /\ HashOf[r] \in nodePool \cup Refused
  /\ refusals' = refusals + 1
  /\ Caches("no") /\ Goes(r, "insert")
  /\ UNCHANGED <<storeVars, nodeVarsOfApi, troubles>>

\* It does not answer, or its answer is lost.
PostFails(r) ==
  /\ request[r] = "post"
  /\ \/ ~nodeRunning /\ UNCHANGED <<nodePool, troubles>>
     \/ nodeRunning /\ Trouble /\ HashOf[r] \notin Refused
        /\ nodePool' \in {nodePool, nodePool \cup {HashOf[r]}}
  /\ Caches("no") /\ Goes(r, "insert")
  /\ UNCHANGED <<storeVars, nodeRunning, refusals>>

\* Fault: the response is sent once the row is written.
InsertAndAnswer(r) ==
  /\ request[r] = "insert"
  /\ \/ HashOf[r] \notin table \cup openRows /\ openRows' = openRows \cup {HashOf[r]}
        /\ Goes(r, "answered")
     \/ HashOf[r] \in table \cup openRows /\ UNCHANGED openRows /\ Goes(r, "failed")
  /\ UNCHANGED <<nodeAvailable, availableFresh, table, nodeVarsOfApi, troubles, refusals>>

\* Fault: INSERT OR REPLACE, as for anchor events.
InsertOrReplace(r) ==
  /\ request[r] = "insert"
  /\ openRows' = openRows \cup {HashOf[r]}
  /\ Goes(r, "commit")
  /\ UNCHANGED <<nodeAvailable, availableFresh, table, nodeVarsOfApi, troubles, refusals>>

\* INSERT fails for a hash that is there already; the request is answered with 500.
InsertTransaction(r) ==
  /\ request[r] = "insert"
  /\ \/ HashOf[r] \notin table \cup openRows /\ openRows' = openRows \cup {HashOf[r]}
        /\ Goes(r, "commit")
     \/ HashOf[r] \in table \cup openRows /\ UNCHANGED openRows /\ Goes(r, "failed")
  /\ UNCHANGED <<nodeAvailable, availableFresh, table, nodeVarsOfApi, troubles, refusals>>

\* Fault: a commit that failed rolls back.
CommitOrRollback(r) ==
  /\ request[r] = "commit"
  /\ \/ table' = table \cup openRows /\ openRows' = {} /\ Goes(r, "state") /\ UNCHANGED troubles
     \/ Trouble /\ openRows' = {} /\ UNCHANGED table /\ Goes(r, "failed")
  /\ UNCHANGED <<nodeAvailable, availableFresh, nodeVarsOfApi, refusals>>

\* commit() is one of the connection: it ends the transaction of all requests.  When it
\* fails the request is answered with 500, and the row stays in the open transaction.
CommitTransaction(r) ==
  /\ request[r] = "commit"
  /\ \/ table' = table \cup openRows /\ openRows' = {} /\ Goes(r, "state") /\ UNCHANGED troubles
     \/ Trouble /\ UNCHANGED storeVars /\ Goes(r, "failed")
  /\ UNCHANGED <<nodeAvailable, availableFresh, nodeVarsOfApi, refusals>>

\* What a query to the node does to the cache: nothing when it holds and the node
\* answers, or when it says that the node is away; each failure counts as unavailable.
AskNode ==
  \/ UNCHANGED <<nodeAvailable, availableFresh, troubles>>
  \/ nodeRunning /\ ~availableFresh /\ Caches("yes") /\ UNCHANGED troubles
  \/ ~nodeRunning /\ Caches("no") /\ UNCHANGED troubles
  \/ nodeRunning /\ Trouble /\ Caches("no")

\* get_l2_state for the height in the answer, which is given with or without it.
AnswerRequest(r) ==
  /\ request[r] = "state"
  /\ AskNode
  /\ Goes(r, "answered")
  /\ UNCHANGED <<storeVars, nodeVarsOfApi, refusals>>

\* A request for the status or the metrics asks the node over the same client.
QueryNode ==
  /\ AskNode
  /\ UNCHANGED <<request, storeVars, nodeVarsOfApi, refusals>>

CacheExpires ==
  /\ availableFresh /\ availableFresh' = FALSE
  /\ UNCHANGED <<request, nodeAvailable, storeVars, nodeVarsOfApi, troubles, refusals>>

\* The API process ends: what is committed stays.
ApiCrash ==
  /\ Trouble
  /\ nodeAvailable' = "unknown" /\ availableFresh' = FALSE /\ openRows' = {}
  /\ request' = [r \in Requests |->
                   IF request[r] \in {"none", "answered", "failed"} THEN request[r] ELSE "failed"]
  /\ UNCHANGED <<table, nodeVarsOfApi, refusals>>

NodeStops ==
  /\ nodeRunning /\ Trouble /\ nodeRunning' = FALSE
  /\ UNCHANGED <<request, nodeAvailable, availableFresh, storeVars, nodePool, refusals>>

NodeStarts ==
  /\ ~nodeRunning /\ nodeRunning' = TRUE
  /\ UNCHANGED <<request, nodeAvailable, availableFresh, storeVars, nodePool, troubles, refusals>>

RequestStep(r) ==
  \/ UseCached(r) \/ AskHealth(r) \/ CacheHealth(r)
  \/ PostAccepted(r) \/ PostRefused(r) \/ PostFails(r)
  \/ InsertTransaction(r) \/ CommitTransaction(r) \/ AnswerRequest(r)

ApiNext ==
  \/ \E r \in Requests : ReceiveRequest(r) \/ RequestStep(r)
  \/ QueryNode \/ CacheExpires \/ ApiCrash \/ NodeStops \/ NodeStarts

ApiSpec == ApiInit /\ [][ApiNext]_apiVars

-----------------------------------------------------------------------------
(* Properties.                                                             *)

\* Every variable has its type, and a request that waits for its commit has its row in
\* the open transaction or in the table, whoever committed it.
ApiTypeOK ==
  /\ request \in [Requests -> {"none", "available", "healthy", "unhealthy", "post", "insert", "commit", "state",
                               "answered", "failed"}]
  /\ nodeAvailable \in {"unknown", "yes", "no"} /\ availableFresh \in BOOLEAN
  /\ \A r \in Requests : request[r] = "commit" => HashOf[r] \in table \cup openRows

\* A transaction whose request was answered is in the database, also after the process
\* ended, and although every request's commit is a commit of all of them.
AnsweredIsStored ==
  \A r \in Requests : request[r] \in {"state", "answered"} => HashOf[r] \in table

\* Each row was acknowledged to one request: of two with the same hash one is refused,
\* at whatever await they overtake each other.
AnsweredOnce ==
  \A r, s \in Requests :
    r # s /\ request[r] = "answered" /\ request[s] = "answered" => HashOf[r] # HashOf[s]

\* An answer stands for one row that is committed.
AnswerHonest == AnsweredIsStored /\ AnsweredOnce

\* An answered transaction that the node has not got had a reason: the node or an answer
\* failed, or the node had refused a request.
ForwardedUnlessTrouble ==
  troubles = 0 /\ refusals = 0 =>
    \A r \in Requests : request[r] = "answered" => HashOf[r] \in nodePool

\* What a client may take from the answer to its submission.
SubmissionSound == AnswerHonest /\ ForwardedUnlessTrouble

=============================================================================
