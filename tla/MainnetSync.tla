---------------------------- MODULE MainnetSync ----------------------------
(***************************************************************************)
(* The window of Bitcoin headers a scheduler keeps, and what it replays of *)
(* it (src/l1_sync/mainnet_sync.cpp, src/l1_sync/reorg_detector.cpp, the   *)
(* beginning of run_tick in src/l4/DeterministicScheduler.cpp, and         *)
(* ReplayEngine::step).                                                    *)
(*                                                                         *)
(* Headers come from one chain of blocks with branches, in any order and   *)
(* any number of times; a batch of headers is the same as its headers one  *)
(* after the other.  The mempool is a bag of transactions, since its       *)
(* sorting decides nothing here.  The metrics are left out.                *)
(***************************************************************************)
EXTENDS Integers, Sequences, SequencesExt, FiniteSets, Maps

CONSTANTS
  Headers,         \* records [hash, prev, height, version, timestamp]
  SyncTxs,         \* transaction ids of mempool deltas
  MaxBuffer,       \* max_buffer_size
  MaxSynced        \* bound on the headers and deltas that are ingested

ASSUME SyncAssumption ==
  /\ \A header \in Headers : {header.height, header.version, header.timestamp} \subseteq Nat
  /\ MaxBuffer \in Nat \ {0} /\ MaxSynced \in Nat

VARIABLES
  headerBuffer,    \* header_buffer
  syncMempool,     \* mempool: the number of entries of each transaction
  syncClock,       \* clock
  pendingEvents,   \* pending_events
  replay,          \* the scheduler's previous_replay_state
  synced,          \* history: what was ingested so far
  skipped          \* history: a header was skipped after the window was cut for it

syncVars == <<headerBuffer, syncMempool, syncClock, pendingEvents, replay, synced, skipped>>

SyncInit ==
  /\ headerBuffer = <<>> /\ pendingEvents = <<>>
  /\ syncMempool = [tx \in SyncTxs |-> 0]
  /\ syncClock = [height |-> 0, time |-> 0]
  /\ replay = [height |-> 0, reorg |-> 0, applied |-> 0]
  /\ synced = 0 /\ skipped = FALSE

HeaderApplied(height) == [type |-> "HeaderApplied", height |-> height]
ReorgDetected(height, target) == [type |-> "ReorgDetected", height |-> height, target |-> target]
MempoolDeltaApplied(height) == [type |-> "MempoolDeltaApplied", height |-> height]

-----------------------------------------------------------------------------
(* Headers.                                                                *)

\* detect_and_resolve of the window against a chain of one header: the number of
\* headers the two begin with, or -1 when that is the whole window.
RollbackIndex(header) ==
  LET common == IF headerBuffer[1].hash = header.hash THEN 1 ELSE 0
  IN  IF common < Len(headerBuffer) THEN common ELSE -1

\* Fault: a header is compared with the tip by its height alone.
ForksByHeight(header) ==
  headerBuffer # <<>> /\ header.height <= Last(headerBuffer).height

Forks(header) ==
  /\ headerBuffer # <<>>
  /\ Last(headerBuffer).hash # header.prev \/ header.height <= Last(headerBuffer).height

\* The window and the events of a header that does not extend the tip.  The loop of
\* the fallback only runs on a window of one header, the one that comes again.
Rewound(header) ==
  IF ~Forks(header) THEN headerBuffer
  ELSE IF RollbackIndex(header) = -1 THEN <<>>
  ELSE SubSeq(headerBuffer, 1, RollbackIndex(header))

ReorgEvents(header) ==
  IF Forks(header) /\ RollbackIndex(header) # -1
    THEN <<ReorgDetected(Last(headerBuffer).height, RollbackIndex(header))>>
    ELSE <<>>

\* Fault: the window is not bounded.
PushedWithoutLimit(buffer, header) == Append(buffer, header)

Pushed(buffer, header) ==
  LET longer == Append(buffer, header)
  IN  IF Len(longer) > MaxBuffer THEN Tail(longer) ELSE longer

\* update_clock: the median of the last eleven timestamps, the upper one of two.
MedianTime(buffer) ==
  LET recent == (IF Len(buffer) > 11 THEN Len(buffer) - 10 ELSE 1) .. Len(buffer)
      times == {buffer[i].timestamp : i \in recent}
      NotAfter(t) == {i \in recent : buffer[i].timestamp <= t}
      late == {t \in times : Cardinality(NotAfter(t)) > Cardinality(recent) \div 2}
  IN  CHOOSE t \in late : \A u \in late : t <= u

ClockOf(buffer) ==
  IF buffer = <<>> THEN syncClock
  ELSE [height |-> Last(buffer).height, time |-> MedianTime(buffer)]

\* A header of a version below 1 is skipped, after the window was cut for it.
IngestHeader(header) ==
  /\ synced < MaxSynced
  /\ synced' = synced + 1
  /\ LET valid == header.version >= 1
     IN  /\ headerBuffer' = IF valid THEN Pushed(Rewound(header), header) ELSE Rewound(header)
         /\ pendingEvents' = pendingEvents \o ReorgEvents(header)
              \o (IF valid THEN <<HeaderApplied(header.height)>> ELSE <<>>)
         /\ skipped' = (IF valid THEN FALSE ELSE skipped \/ Forks(header))
  /\ syncClock' = ClockOf(headerBuffer')
  /\ UNCHANGED <<syncMempool, replay>>

-----------------------------------------------------------------------------
(* The mempool.                                                            *)

\* A transaction may be added again, and is then there twice.
AddToMempool(tx) ==
  /\ synced < MaxSynced
  /\ synced' = synced + 1
  /\ syncMempool' = [syncMempool EXCEPT ![tx] = @ + 1]
  /\ pendingEvents' = Append(pendingEvents, MempoolDeltaApplied(syncClock.height))
  /\ UNCHANGED <<headerBuffer, syncClock, replay, skipped>>

\* remove_if takes every entry of it away.
RemoveFromMempool(tx) ==
  /\ synced < MaxSynced /\ syncMempool[tx] > 0
  /\ synced' = synced + 1
  /\ syncMempool' = [syncMempool EXCEPT ![tx] = 0]
  /\ pendingEvents' = Append(pendingEvents, MempoolDeltaApplied(syncClock.height))
  /\ UNCHANGED <<headerBuffer, syncClock, replay, skipped>>

-----------------------------------------------------------------------------
(* The replay, at the beginning of every tick.                             *)

\* Fault: a rollback leaves the height of the tick alone.
HeightAfterForward(height, event) ==
  IF event.type = "HeaderApplied" /\ event.height > height THEN event.height ELSE height

\* tick.height after an event.
HeightAfter(height, event) ==
  IF event.type = "HeaderApplied" THEN event.height
  ELSE IF event.type = "ReorgDetected" THEN event.target
  ELSE height

\* The replay state after an event, and after a sequence of them.
AfterEvent(state, event) ==
  [height |-> HeightAfter(state.height, event),
   reorg |-> IF event.type = "ReorgDetected" THEN event.target ELSE state.reorg,
   applied |-> state.applied + 1]

Replayed(state, events) ==
  LET after[n \in 0 .. Len(events)] ==
        IF n = 0 THEN state ELSE AfterEvent(after[n - 1], events[n])
  IN  after[Len(events)]

\* tick.height after the first n events: the height a mempool event n + 1 gets.
HeightBefore(n) == Replayed(replay, SubSeq(pendingEvents, 1, n)).height

\* drain_sync_events, ReplayEngine::step and the new previous_replay_state.
ReplayPending ==
  /\ replay' = Replayed(replay, pendingEvents)
  /\ pendingEvents' = <<>>
  /\ UNCHANGED <<headerBuffer, syncMempool, syncClock, synced, skipped>>

SyncStep ==
  \/ \E header \in Headers : IngestHeader(header)
  \/ \E tx \in SyncTxs : AddToMempool(tx) \/ RemoveFromMempool(tx)

\* The window alone, with ticks that only replay.
SyncNext == SyncStep \/ ReplayPending

SyncSpec == SyncInit /\ [][SyncNext]_syncVars

-----------------------------------------------------------------------------
(* Properties.                                                             *)

\* Every variable has its type and the window has its bound (max_buffer_size).
SyncTypeOK ==
  /\ Len(headerBuffer) <= MaxBuffer
  /\ \A i \in 1 .. Len(headerBuffer) : headerBuffer[i] \in Headers
  /\ syncMempool \in [SyncTxs -> Nat]
  /\ syncClock.height \in Nat /\ syncClock.time \in Nat
  /\ \A i \in DOMAIN pendingEvents :
       pendingEvents[i].type \in {"HeaderApplied", "ReorgDetected", "MempoolDeltaApplied"}
  /\ replay.height \in Nat /\ replay.reorg \in Nat /\ replay.applied \in Nat

\* The headers of the window are a chain, in whatever order branches, old headers
\* and duplicates come: each is the parent of the next one.  The exception is the
\* oldest header of a window, which is kept twice when it comes again.
WindowLinked ==
  \A i \in 1 .. Len(headerBuffer) - 1 :
    \/ /\ headerBuffer[i + 1].prev = headerBuffer[i].hash
       /\ headerBuffer[i + 1].height > headerBuffer[i].height
    \/ headerBuffer[i + 1].hash = headerBuffer[i].hash

\* The replay puts a mempool event at the height the node had when it came, although
\* it does not look at the event's own height, and ends at the height of the clock:
\* rollbacks and headers are replayed as they happened.  Not after a header that was
\* skipped, whose rollback is replayed alone.
ReplayFollowsClock ==
  skipped \/
    /\ HeightBefore(Len(pendingEvents)) = syncClock.height
    /\ pendingEvents # <<>> /\ Last(pendingEvents).type = "MempoolDeltaApplied" =>
         HeightBefore(Len(pendingEvents) - 1) = Last(pendingEvents).height

\* The window of headers, and the events a replay of it rests on.
HeadersSound == WindowLinked /\ ReplayFollowsClock

\* include/l1_sync/bitcoin_clock.hpp: "Monotonic, jitter-neutral clock derived from
\* L1 data."
ClockMonotonic == [][syncClock'.time >= syncClock.time]_syncVars

=============================================================================
