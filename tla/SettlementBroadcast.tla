------------------------- MODULE SettlementBroadcast -------------------------
(***************************************************************************)
(* SettlementOrchestrator::execute over BitcoinAdapter::                   *)
(* broadcastTransaction: coins are selected from listunspent, a            *)
(* transaction is built and signed, and sendrawtransaction is called with  *)
(* retries under broadcastMutex_.                                          *)
(*                                                                         *)
(* Each settlement has a thread that calls execute, again if it returned   *)
(* false.  The circuit breaker lets Bitcoin settlements pass, so it is no  *)
(* guard here; refused intents and read-only adapters are no step.         *)
(* Change is not spendable before it is mined, which is left out.          *)
(***************************************************************************)
EXTENDS Integers, Sequences, FiniteSets, Functions

CONSTANTS
  Settlements,   \* the settlements to be executed
  Wallet,        \* the values of the wallet's outputs, as listunspent orders them
  Owed,          \* what a settlement pays, fee included
  MaxAttempts,   \* maxRetries of BitcoinRPCClient::call
  MaxExecutes,   \* bound on the calls of execute, for model checking
  NoSettlement

ASSUME BroadcastAssumption ==
  /\ Wallet \in Seq(Nat) /\ Owed \in Nat \ {0}
  /\ MaxAttempts \in Nat \ {0} /\ MaxExecutes \in Nat
  /\ NoSettlement \notin Settlements

VARIABLES
  callAt,         \* where the call of each settlement stands
  rawTx,             \* the transaction it has built
  attempts,          \* the failed attempts of its sendrawtransaction
  executed,          \* how often execute was called for it
  settled,           \* execute returned true
  broadcastMutex,    \* the settlement that holds broadcastMutex_
  recentBroadcasts,
  nodeMempool,       \* the transactions the node has accepted
  anomalyDetected    \* of currentRisk_

callVars == <<callAt, rawTx, attempts, executed, settled>>
broadcastVars == <<callVars, broadcastMutex, recentBroadcasts, nodeMempool, anomalyDetected>>

\* A transaction: what it settles and the outputs it spends.
RawTxs == [pays : Settlements, spends : SUBSET DOMAIN Wallet]
NoTx == [pays |-> NoSettlement, spends |-> {}]

BroadcastInit ==
  /\ callAt = [p \in Settlements |-> "idle"]
  /\ rawTx = [p \in Settlements |-> NoTx]
  /\ attempts = [p \in Settlements |-> 0]
  /\ executed = [p \in Settlements |-> 0]
  /\ settled = [p \in Settlements |-> FALSE]
  /\ broadcastMutex = NoSettlement
  /\ recentBroadcasts = {} /\ nodeMempool = {}
  /\ anomalyDetected = FALSE

-----------------------------------------------------------------------------
Spent(txs) == UNION {tx.spends : tx \in txs}

\* listunspent, in the order of the wallet.
ListUnspent == DOMAIN Wallet \ Spent(nodeMempool)

Value(coins) == SumFunctionOnSet(Wallet, coins)

\* Outputs are added in that order until they pay what is owed.
GreedyCoins ==
  {coins \in {{i \in ListUnspent : i <= k} : k \in DOMAIN Wallet} :
     /\ Value(coins) >= Owed
     /\ \A i \in coins : Value({j \in coins : j < i}) < Owed}

\* broadcastTransaction returns false, and execute notes an anomaly.
ReturnFalse(p) ==
  /\ callAt' = [callAt EXCEPT ![p] = "idle"]
  /\ anomalyDetected' = TRUE
  /\ UNCHANGED <<settled, recentBroadcasts>>

Execute(p) ==
  /\ callAt[p] = "idle" /\ ~settled[p] /\ executed[p] < MaxExecutes
  /\ callAt' = [callAt EXCEPT ![p] = "build"]
  /\ executed' = [executed EXCEPT ![p] = @ + 1]
  /\ UNCHANGED <<rawTx, attempts, settled, broadcastMutex, recentBroadcasts, nodeMempool,
                 anomalyDetected>>

\* buildRawTx: "Insufficient funds", or an RPC call of it fails, or it is signed.
BuildRawTx(p) ==
  /\ callAt[p] = "build"
  /\ \/ ReturnFalse(p) /\ UNCHANGED rawTx
     \/ /\ \E coins \in GreedyCoins :
             rawTx' = [rawTx EXCEPT ![p] = [pays |-> p, spends |-> coins]]
        /\ callAt' = [callAt EXCEPT ![p] = "lock"]
        /\ UNCHANGED <<settled, recentBroadcasts, anomalyDetected>>
  /\ UNCHANGED <<attempts, executed, broadcastMutex, nodeMempool>>

\* Fault: the mutex is one of the call, not of the adapter.
LockShared(p) ==
  /\ callAt[p] = "lock"
  /\ broadcastMutex' = p
  /\ attempts' = [attempts EXCEPT ![p] = 0]
  /\ callAt' = [callAt EXCEPT ![p] = "send"]
  /\ UNCHANGED <<rawTx, executed, settled, recentBroadcasts, nodeMempool, anomalyDetected>>

LockBroadcast(p) ==
  /\ callAt[p] = "lock" /\ broadcastMutex = NoSettlement
  /\ broadcastMutex' = p
  /\ attempts' = [attempts EXCEPT ![p] = 0]
  /\ callAt' = [callAt EXCEPT ![p] = "send"]
  /\ UNCHANGED <<rawTx, executed, settled, recentBroadcasts, nodeMempool, anomalyDetected>>

\* The node takes the transaction in unless it spends what another one has spent.
NodeAccepts(tx) ==
  /\ tx.spends \cap Spent(nodeMempool \ {tx}) = {}
  /\ nodeMempool' = nodeMempool \cup {tx}

\* Fault: an error that comes back counts as an answer.
SendAnswered(p) ==
  /\ callAt[p] = "send"
  /\ NodeAccepts(rawTx[p]) \/ UNCHANGED nodeMempool
  /\ settled' = [settled EXCEPT ![p] = TRUE]
  /\ recentBroadcasts' = recentBroadcasts \cup {rawTx[p]}
  /\ broadcastMutex' = NoSettlement
  /\ callAt' = [callAt EXCEPT ![p] = "idle"]
  /\ UNCHANGED <<rawTx, attempts, executed, anomalyDetected>>

\* sendrawtransaction is accepted and its answer arrives.
SendRawTx(p) ==
  /\ callAt[p] = "send"
  /\ NodeAccepts(rawTx[p])
  /\ settled' = [settled EXCEPT ![p] = TRUE]
  /\ recentBroadcasts' = recentBroadcasts \cup {rawTx[p]}
  /\ broadcastMutex' = NoSettlement
  /\ callAt' = [callAt EXCEPT ![p] = "idle"]
  /\ UNCHANGED <<rawTx, attempts, executed, anomalyDetected>>

\* Fault: the mutex is not released by the exception.
AttemptFailsLocked(p) ==
  /\ callAt[p] = "send"
  /\ NodeAccepts(rawTx[p]) \/ UNCHANGED nodeMempool
  /\ attempts' = [attempts EXCEPT ![p] = @ + 1]
  /\ \/ /\ attempts[p] + 1 < MaxAttempts
        /\ UNCHANGED <<callAt, settled, recentBroadcasts, anomalyDetected>>
     \/ attempts[p] + 1 = MaxAttempts /\ ReturnFalse(p)
  /\ UNCHANGED <<rawTx, executed, broadcastMutex>>

\* An attempt fails: the request is lost, refused, or its answer is lost.  call()
\* tries again and gives up with the last attempt.
AttemptFails(p) ==
  /\ callAt[p] = "send"
  /\ NodeAccepts(rawTx[p]) \/ UNCHANGED nodeMempool
  /\ attempts' = [attempts EXCEPT ![p] = @ + 1]
  /\ \/ /\ attempts[p] + 1 < MaxAttempts
        /\ UNCHANGED <<callAt, settled, recentBroadcasts, anomalyDetected, broadcastMutex>>
     \/ /\ attempts[p] + 1 = MaxAttempts
        /\ ReturnFalse(p)
        /\ broadcastMutex' = NoSettlement
  /\ UNCHANGED <<rawTx, executed>>

CallStep(p) == BuildRawTx(p) \/ LockBroadcast(p) \/ SendRawTx(p) \/ AttemptFails(p)

BroadcastNext == \E p \in Settlements : Execute(p) \/ CallStep(p)

\* The threads in execute go on.
BroadcastFairness == \A p \in Settlements : WF_broadcastVars(CallStep(p))

BroadcastSpec == BroadcastInit /\ [][BroadcastNext]_broadcastVars /\ BroadcastFairness

-----------------------------------------------------------------------------
(* Properties.                                                             *)

\* Every variable has its type, and the thread that sends is the one that holds
\* broadcastMutex_.
BroadcastTypeOK ==
  /\ callAt \in [Settlements -> {"idle", "build", "lock", "send"}]
  /\ rawTx \in [Settlements -> RawTxs \cup {NoTx}]
  /\ attempts \in [Settlements -> 0 .. MaxAttempts]
  /\ settled \in [Settlements -> BOOLEAN]
  /\ nodeMempool \subseteq RawTxs /\ recentBroadcasts \subseteq RawTxs
  /\ anomalyDetected \in BOOLEAN
  /\ \A p \in Settlements : callAt[p] = "send" => broadcastMutex = p

\* What execute reported as done the node has: two threads that selected the same
\* coins before either of them sent do not both succeed.
SettledIsBroadcast ==
  \A p \in Settlements : settled[p] => \E tx \in nodeMempool : tx.pays = p

\* A call of execute returns, also while another thread retries under the mutex.
ExecuteReturns == \A p \in Settlements : callAt[p] # "idle" ~> callAt[p] = "idle"

=============================================================================
