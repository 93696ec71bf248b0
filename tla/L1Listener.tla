----------------------------- MODULE L1Listener -----------------------------
(***************************************************************************)
(* BitcoinZMQListener::handleBlock driving the ReorgDetector, as main.cpp  *)
(* wires them: every hashblock notification is reported at the height of   *)
(* an in-memory counter, which starts from zero in every process, while    *)
(* the hashes the detector compares with are in RocksDB.                   *)
(***************************************************************************)
EXTENDS ReorgDetector, SequencesExt

CONSTANTS
  MaxRestarts    \* bound on process restarts, for model checking

VARIABLES
  chain,        \* Bitcoin's active chain: its hash at each height
  mined,        \* every hash Bitcoin has ever had
  queue,        \* hashblock notifications not received yet
  zmqBlockSeq,  \* zmqBlockSeq_
  restarts,
  minedIn,      \* history: the block each anchor was mined in
  dropped       \* history: whether a notification was lost by a reconnection

environmentVars == <<chain, mined, minedIn>>
listenerVars == <<queue, zmqBlockSeq, restarts, dropped>>
vars == <<detectorVars, environmentVars, listenerVars>>

-----------------------------------------------------------------------------
(* Bitcoin, as the listener sees it (external).                            *)

MineBlock(hash) ==
  /\ hash \notin mined
  /\ Len(chain) + 1 \in Heights
  /\ chain' = Append(chain, hash)
  /\ mined' = mined \cup {hash}
  /\ queue' = Append(queue, hash)
  /\ UNCHANGED <<detectorVars, minedIn, zmqBlockSeq, restarts, dropped>>

\* The tip is replaced by a branch of two blocks; only the new tip is notified.
ReorganiseTip(h1, h2) ==
  /\ chain # <<>> /\ {h1, h2} \cap mined = {} /\ h1 # h2
  /\ Len(chain) + 1 \in Heights
  /\ chain' = Front(chain) \o <<h1, h2>>
  /\ mined' = mined \cup {h1, h2}
  /\ queue' = Append(queue, h2)
  /\ UNCHANGED <<detectorVars, minedIn, zmqBlockSeq, restarts, dropped>>

-----------------------------------------------------------------------------
(* The listener.                                                           *)

\* What handleBlock does with the detector: a known height with another hash is
\* a reorg, an unknown one is tracked (by detectReorg; the trackBlock after it
\* writes the same again).  Every notified hash is new, so the case of a known
\* hash at its own height, in which nothing changes, does not arise.
Report(height, hash) ==
  \/ TrackFirstBlock(height, hash)
  \/ DetectReorg(height, hash)

\* A hashblock notification; ++zmqBlockSeq_ is taken as its height.
HandleBlock ==
  /\ pc = "idle"
  /\ queue # <<>>
  /\ zmqBlockSeq + 1 \in Heights
  /\ zmqBlockSeq' = zmqBlockSeq + 1
  /\ queue' = Tail(queue)
  /\ Report(zmqBlockSeq + 1, Head(queue))
  /\ UNCHANGED <<environmentVars, restarts, dropped>>

\* A ZMQ exception: performExponentialBackoff opens a new socket.  What was
\* queued on the old one is lost; the counter stays.
Reconnect ==
  /\ pc = "idle"
  /\ queue # <<>>
  /\ queue' = <<>>
  /\ dropped' = TRUE
  /\ UNCHANGED <<detectorVars, environmentVars, zmqBlockSeq, restarts>>

\* An anchor is registered with the height it was mined at.
AnchorMined(a) ==
  /\ chain # <<>>
  /\ a \notin DOMAIN minedIn
  /\ RegisterAnchor(a, Len(chain))
  /\ minedIn' = Put(minedIn, a, Last(chain))
  /\ UNCHANGED <<chain, mined, listenerVars>>

DetectorStep ==
  /\ ReorgStep
  /\ UNCHANGED <<environmentVars, listenerVars>>

\* A new process: RocksDB and Bitcoin stay, what was notified meanwhile is lost.
RestartListener ==
  /\ restarts < MaxRestarts
  /\ restarts' = restarts + 1
  /\ Crash
  /\ zmqBlockSeq' = 0
  /\ queue' = <<>>
  /\ UNCHANGED <<environmentVars, dropped>>

-----------------------------------------------------------------------------
Init ==
  /\ DetectorInit
  /\ chain = <<>> /\ mined = {} /\ queue = <<>>
  /\ zmqBlockSeq = 0 /\ restarts = 0
  /\ minedIn = EmptyMap /\ dropped = FALSE

Next ==
  \/ \E hash \in Hashes : MineBlock(hash)
  \/ \E h1, h2 \in Hashes : ReorganiseTip(h1, h2)
  \/ HandleBlock
  \/ Reconnect
  \/ \E a \in AnchorHashes : AnchorMined(a)
  \/ DetectorStep
  \/ RestartListener

Spec == Init /\ [][Next]_vars

-----------------------------------------------------------------------------
(* What the documentation says and the code does not keep.                 *)

\* "automatic reorg detection": once every notification has been handled, and none
\* was lost, an anchor whose block Bitcoin has replaced is no longer pending or
\* confirmed.
ReorgDetected ==
  queue = <<>> /\ pc = "idle" /\ ~dropped =>
    \A a \in DOMAIN minedIn :
      anchors[a].status \in {"PENDING", "CONFIRMED"} =>
        chain[anchors[a].height] = minedIn[a]

=============================================================================
