------------------------------- MODULE L2Chain -------------------------------
(***************************************************************************)
(* The L2 chain: src/l2/Mempool.cpp, filled by the web server's threads,   *)
(* and the thread of src/l2/BlockProducer.cpp, which makes a block every   *)
(* interval.  produceBlock takes the mempool's lock twice, once to copy    *)
(* the oldest transactions and once to confirm the valid ones;             *)
(* submissions fall in between.                                            *)
(***************************************************************************)
EXTENDS Integers, Sequences

CONSTANTS
  TxHashes,
  Validity,              \* whether submitted transactions pass validation
  MaxTransactionsPerBlock,
  CommitmentInterval,
  KeepConfirmed,         \* confirmed transactions kept, 1000 in the code
  MaxSubmissions         \* bound for model checking

ASSUME L2Assumption ==
  /\ Validity \subseteq BOOLEAN
  /\ MaxTransactionsPerBlock \in Nat \ {0}
  /\ CommitmentInterval \in Nat \ {0}
  /\ KeepConfirmed \in Nat
  /\ MaxSubmissions \in Nat

VARIABLES
  pending,      \* pendingTransactions_
  index,        \* txHashIndex_
  confirmed,    \* confirmedTransactions_
  rejected,     \* rejectedTxs_
  sinceAnchor,  \* state_.blockHeight - state_.lastAnchorHeight
  running,      \* running_
  pc,           \* where the producer thread is; "off" when there is none
  batch,        \* what getPendingTransactions returned
  submissions,  \* history: the number of accepted transactions
  included      \* history: the transactions included in blocks, in order

vars == <<pending, index, confirmed, rejected, sinceAnchor, running, pc, batch,
          submissions, included>>

\* n tells the submissions of one hash apart.
Transactions == [hash : TxHashes, valid : BOOLEAN, n : 1 .. MaxSubmissions]

Hashes(txs) == {txs[i].hash : i \in DOMAIN txs}

Valid == {tx \in Transactions : tx.valid}
Without(hashes) == {tx \in Transactions : tx.hash \notin hashes}

\* The transactions of txs that are in kept, in their order.
Only(txs, kept) ==
  LET upTo[n \in 0 .. Len(txs)] ==
        IF n = 0 THEN <<>>
        ELSE IF txs[n] \in kept THEN Append(upTo[n - 1], txs[n]) ELSE upTo[n - 1]
  IN  upTo[Len(txs)]

-----------------------------------------------------------------------------
(* Mempool.                                                                *)

\* POST /api/transactions/submit; a hash that is in the index is refused.
AddTransaction(hash, valid) ==
  /\ submissions < MaxSubmissions
  /\ hash \notin index
  /\ submissions' = submissions + 1
  /\ index' = index \cup {hash}
  /\ pending' = Append(pending, [hash |-> hash, valid |-> valid, n |-> submissions + 1])
  /\ UNCHANGED <<confirmed, rejected, sinceAnchor, running, pc, batch, included>>

\* Fault: the newest transactions are returned.
NewestTransactions(maxCount) ==
  SubSeq(pending, Len(pending) + 1 - (IF maxCount <= Len(pending) THEN maxCount
                                      ELSE Len(pending)), Len(pending))

\* Fault: waits until a block can be filled.
OnlyFullBlocks(maxCount) ==
  IF maxCount <= Len(pending) THEN SubSeq(pending, 1, maxCount) ELSE <<>>

\* A copy of the oldest, at most maxCount of them.
GetPendingTransactions(maxCount) ==
  SubSeq(pending, 1, IF maxCount <= Len(pending) THEN maxCount ELSE Len(pending))

\* Fault: the hash of a confirmed transaction stays in the index.
ConfirmKeepingIndex(txs) ==
  /\ pending' = Only(pending, Without(Hashes(txs)))
  /\ index' = index
  /\ LET all == confirmed \o txs
     IN confirmed' = IF Len(all) <= KeepConfirmed THEN all
                     ELSE SubSeq(all, Len(all) + 1 - KeepConfirmed, Len(all))

\* Fault: the confirmed transactions are never trimmed.
ConfirmKeepingAll(txs) ==
  /\ pending' = Only(pending, Without(Hashes(txs)))
  /\ index' = index \ Hashes(txs)
  /\ confirmed' = confirmed \o txs

\* Moves them from pending to confirmed, of which only the last are kept.
ConfirmTransactions(txs) ==
  /\ pending' = Only(pending, Without(Hashes(txs)))
  /\ index' = index \ Hashes(txs)
  /\ LET all == confirmed \o txs
     IN confirmed' = IF Len(all) <= KeepConfirmed THEN all
                     ELSE SubSeq(all, Len(all) + 1 - KeepConfirmed, Len(all))

-----------------------------------------------------------------------------
(* BlockProducer.                                                          *)

Start ==
  /\ ~running /\ pc = "off"
  /\ running' = TRUE
  /\ pc' = "loop"
  /\ UNCHANGED <<pending, index, confirmed, rejected, sinceAnchor, batch,
                 submissions, included>>

\* stop() clears the flag and joins the thread.
Stop ==
  /\ running
  /\ running' = FALSE
  /\ UNCHANGED <<pending, index, confirmed, rejected, sinceAnchor, pc, batch,
                 submissions, included>>

ExitLoop ==
  /\ pc = "loop" /\ ~running
  /\ pc' = "off"
  /\ UNCHANGED <<pending, index, confirmed, rejected, sinceAnchor, running, batch,
                 submissions, included>>

\* Fault: the loop does not look at the flag.
BeginWhenStopped ==
  /\ pc = "loop"
  /\ sinceAnchor' = sinceAnchor + 1
  /\ batch' = GetPendingTransactions(MaxTransactionsPerBlock)
  /\ pc' = "confirm"
  /\ UNCHANGED <<pending, index, confirmed, rejected, running, submissions,
                 included>>

\* produceBlock up to getPendingTransactions.  A deep reorg in the detector's
\* history is logged and does not stop it.
BeginBlock ==
  /\ pc = "loop" /\ running
  /\ sinceAnchor' = sinceAnchor + 1
  /\ batch' = GetPendingTransactions(MaxTransactionsPerBlock)
  /\ pc' = "confirm"
  /\ UNCHANGED <<pending, index, confirmed, rejected, running, submissions,
                 included>>

\* The rest of produceBlock: what fails validation is remembered as rejected and
\* stays in the mempool, the others are confirmed.
ConfirmBlock ==
  LET valid == Only(batch, Valid \cap Without(rejected))
      invalid == {batch[i].hash : i \in {j \in DOMAIN batch : ~batch[j].valid}}
  IN /\ pc = "confirm"
     /\ rejected' = rejected \cup invalid
     /\ ConfirmTransactions(valid)
     /\ included' = included \o valid
     /\ batch' = <<>>
     /\ pc' = "anchor"
     /\ UNCHANGED <<sinceAnchor, running, submissions>>

\* Fault: off by one at the commitment interval.
CheckAnchorTooLate ==
  /\ pc = "anchor"
  /\ sinceAnchor' = IF sinceAnchor > CommitmentInterval THEN 0 ELSE sinceAnchor
  /\ pc' = "loop"
  /\ UNCHANGED <<pending, index, confirmed, rejected, running, batch, submissions,
                 included>>

CheckAnchorCommitment ==
  /\ pc = "anchor"
  /\ sinceAnchor' = IF sinceAnchor >= CommitmentInterval THEN 0 ELSE sinceAnchor
  /\ pc' = "loop"
  /\ UNCHANGED <<pending, index, confirmed, rejected, running, batch, submissions,
                 included>>

-----------------------------------------------------------------------------
Init ==
  /\ pending = <<>> /\ index = {} /\ confirmed = <<>> /\ rejected = {}
  /\ sinceAnchor = 0 /\ running = FALSE /\ pc = "off" /\ batch = <<>>
  /\ submissions = 0 /\ included = <<>>

ProducerStep == ExitLoop \/ BeginBlock \/ ConfirmBlock \/ CheckAnchorCommitment

Next ==
  \/ \E hash \in TxHashes, valid \in Validity : AddTransaction(hash, valid)
  \/ Start
  \/ Stop
  \/ ProducerStep

\* A thread that was started and is not blocked runs; the producer never waits
\* for a lock that is held for more than a few instructions.
Spec == Init /\ [][Next]_vars /\ WF_vars(ProducerStep)

-----------------------------------------------------------------------------
(* Properties.                                                             *)

\* Every variable of the mempool and of the producer has its type.
TypeOK ==
  /\ pending \in Seq(Transactions) /\ batch \in Seq(Transactions)
  /\ confirmed \in Seq(Transactions) /\ Len(confirmed) <= KeepConfirmed
  /\ included \in Seq(Transactions)
  /\ index \subseteq TxHashes /\ rejected \subseteq TxHashes
  /\ sinceAnchor \in Nat
  /\ running \in BOOLEAN
  /\ pc \in {"off", "loop", "confirm", "anchor"}
  /\ submissions \in 0 .. MaxSubmissions

\* The deduplication index is exactly the pending hashes, and no hash is pending
\* twice, whatever is submitted while a block is being made.
IndexMatchesPending ==
  /\ index = Hashes(pending)
  /\ \A i, j \in DOMAIN pending : pending[i].hash = pending[j].hash => i = j

\* No more than commitmentInterval blocks go without an anchor, also when the
\* producer is stopped and started again.
AnchoredInTime == sinceAnchor <= CommitmentInterval

\* The books of mempool and producer: the index names what is pending, and no
\* commitment comes late, whatever is submitted between the two locks of produceBlock.
ProducerSound == IndexMatchesPending /\ AnchoredInTime

\* The mempool and the producer implement the queue of TxFifo.
Fifo == INSTANCE TxFifo WITH
  Entries <- Transactions,
  waiting <- Only(pending, Valid)
ImplementsFifo == Fifo!FifoSpec

\* stop() returns: the thread it joins ends.
StopJoins == ~running ~> pc = "off"

\* Every accepted transaction lands in a block unless the producer is stopped.
Landed(n) == \E i \in DOMAIN included : included[i].n = n
AllLand ==
  \A n \in 1 .. MaxSubmissions :
    (\E i \in DOMAIN pending : pending[i].n = n /\ pending[i].valid)
      ~> Landed(n) \/ ~running

\* As long as only valid transactions are submitted, produceBlock gets to each.
AcceptedLand == [](\A i \in DOMAIN pending : pending[i].valid) => AllLand

=============================================================================
