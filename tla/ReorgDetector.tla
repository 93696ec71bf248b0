---------------------------- MODULE ReorgDetector ----------------------------
(***************************************************************************)
(* src/l1/ReorgDetector.cpp: the block hash tracked at each Bitcoin        *)
(* height, the records of the anchor commitments and the log of reorgs,    *)
(* all in RocksDB.  detectReorg writes them one Put at a time, so a crash  *)
(* may fall between any two; the class has no lock, so a second thread's   *)
(* read-modify-write of an anchor may fall there as well.                  *)
(***************************************************************************)
EXTENDS Integers, Sequences, FiniteSets, Maps

CONSTANTS
  Hashes,           \* hashes of Bitcoin blocks
  Heights,          \* heights detectReorg is called with
  AnchorHashes,     \* the anchor commitments
  ConfirmationThreshold,   \* confirmationThreshold_, 6 by default
  ConfirmationCounts,      \* the confirmations callers report
  KeepCounts,       \* keepLastN of pruneOldBlocks
  OneThread,        \* whether all calls are made from one thread
  NoUpdate,         \* the second thread is not updating an anchor
  MaxEvents         \* bound on the reorg log, for model checking

ASSUME ReorgAssumption ==
  /\ Heights \subseteq Nat
  /\ ConfirmationThreshold \in Nat
  /\ ConfirmationCounts \subseteq Nat
  /\ KeepCounts \subseteq Nat \ {0}
  /\ OneThread \in BOOLEAN
  /\ MaxEvents \in Nat

VARIABLES
  blocks,    \* block:<height> keys
  anchors,   \* anchor:<hash> keys
  events,    \* reorg:<id> keys in the order of their ids; reorg_counter is its length
  pc,        \* where detectReorg stands
  event,     \* the ReorgEvent it is building
  iter,      \* what the iterator of handleReorg has still to visit: a snapshot
  update,    \* the record a second thread has read and is about to write back
  seen       \* history: the blocks each anchor was registered on top of

detectorVars == <<blocks, anchors, events, pc, event, iter, update, seen>>

-----------------------------------------------------------------------------
Statuses == {"PENDING", "CONFIRMED", "INVALIDATED_REORG", "FAILED_ORPHANED"}

AnchorRecord == [height : Heights, confirmations : Nat, status : Statuses]

Event == [height : Heights, old : Hashes, new : Hashes, anchors : Seq(AnchorHashes)]

NoEvent == [height |-> 0, anchors |-> <<>>]

\* The part of a map below or at a height.
UpTo(map, height) == [h \in {i \in DOMAIN map : i <= height} |-> map[h]]

\* A call may start: another thread may be anywhere, the same thread may not.
MayCall == OneThread => pc = "idle" /\ update = NoUpdate

-----------------------------------------------------------------------------
(* detectReorg.                                                            *)

\* No block is known at this height: it is tracked and nothing else happens.
TrackFirstBlock(height, hash) ==
  /\ pc = "idle" /\ MayCall
  /\ height \notin DOMAIN blocks
  /\ blocks' = Put(blocks, height, hash)
  /\ UNCHANGED <<anchors, events, pc, event, iter, update, seen>>

\* Another hash is known: handleReorg opens its iterator over the anchors.
\* (With the same hash the call changes nothing.)
DetectReorg(height, hash) ==
  /\ pc = "idle" /\ MayCall
  /\ Len(events) < MaxEvents
  /\ height \in DOMAIN blocks
  /\ blocks[height] # hash
  /\ event' = [height |-> height, old |-> blocks[height], new |-> hash,
               anchors |-> <<>>]
  /\ iter' = anchors
  /\ pc' = "invalidate"
  /\ UNCHANGED <<blocks, anchors, events, update, seen>>

\* Fault: leaves anchors alone that are mined exactly at the reorg height.
InvalidateAbove(a) ==
  /\ pc = "invalidate"
  /\ a \in DOMAIN iter
  /\ iter' = Erase(iter, a)
  /\ IF iter[a].height > event.height /\ iter[a].status # "INVALIDATED_REORG"
     THEN /\ anchors' = Put(anchors, a, [iter[a] EXCEPT !.status = "INVALIDATED_REORG",
                                                        !.confirmations = 0])
          /\ event' = [event EXCEPT !.anchors = Append(@, a)]
     ELSE UNCHANGED <<anchors, event>>
  /\ UNCHANGED <<blocks, events, pc, update, seen>>

\* One anchor of handleReorg's loop: the record written is the one in the
\* snapshot, with its status and its confirmations replaced.
InvalidateAnchor(a) ==
  /\ pc = "invalidate"
  /\ a \in DOMAIN iter
  /\ iter' = Erase(iter, a)
  /\ IF iter[a].height >= event.height /\ iter[a].status # "INVALIDATED_REORG"
     THEN /\ anchors' = Put(anchors, a, [iter[a] EXCEPT !.status = "INVALIDATED_REORG",
                                                        !.confirmations = 0])
          /\ event' = [event EXCEPT !.anchors = Append(@, a)]
     ELSE UNCHANGED <<anchors, event>>
  /\ UNCHANGED <<blocks, events, pc, update, seen>>

\* Fault: a reorg that invalidated no anchor is not stored.
StoreIfInvalidating ==
  /\ pc = "invalidate"
  /\ iter = EmptyMap
  /\ events' = IF event.anchors = <<>> THEN events ELSE Append(events, event)
  /\ pc' = "track"
  /\ UNCHANGED <<blocks, anchors, event, iter, update, seen>>

\* The event and the counter are one batch.
StoreReorgEvent ==
  /\ pc = "invalidate"
  /\ iter = EmptyMap
  /\ events' = Append(events, event)
  /\ pc' = "track"
  /\ UNCHANGED <<blocks, anchors, event, iter, update, seen>>

\* Fault: the finished event is not dropped.
TrackKeepingEvent ==
  /\ pc = "track"
  /\ blocks' = Put(blocks, event.height, event.new)
  /\ pc' = "idle"
  /\ UNCHANGED <<anchors, events, event, iter, update, seen>>

\* The last write of detectReorg.  The callback, which nothing in src/ sets,
\* and the return value follow.
TrackNewBlock ==
  /\ pc = "track"
  /\ blocks' = Put(blocks, event.height, event.new)
  /\ pc' = "idle"
  /\ event' = NoEvent
  /\ UNCHANGED <<anchors, events, iter, update, seen>>

-----------------------------------------------------------------------------
(* Anchors.                                                                *)

\* Writes the record whether or not the anchor is known.
RegisterAnchor(a, height) ==
  /\ MayCall
  /\ anchors' = Put(anchors, a, [height |-> height, confirmations |-> 0,
                                 status |-> "PENDING"])
  /\ seen' = Put(seen, a, UpTo(blocks, height))
  /\ UNCHANGED <<blocks, events, pc, event, iter, update>>

WithConfirmations(record, n) ==
  [record EXCEPT !.confirmations = n,
                 !.status = IF n >= ConfirmationThreshold /\ @ = "PENDING"
                            THEN "CONFIRMED" ELSE @]

\* updateAnchorConfirmations reads the record ...
ReadForConfirmations(a, n) ==
  /\ MayCall /\ update = NoUpdate
  /\ a \in DOMAIN anchors
  /\ update' = [anchor |-> a, record |-> WithConfirmations(anchors[a], n)]
  /\ UNCHANGED <<blocks, anchors, events, pc, event, iter, seen>>

\* getOrphanedAnchors: whether a pending anchor has been pending for too long is
\* a matter of time, and time is not modelled.
Orphaned(record) == record.status = "PENDING" /\ record.confirmations = 0

\* ... and so does updateAnchorStatus, called with FAILED_ORPHANED for an anchor
\* that getOrphanedAnchors returned ...
ReadForStatus(a) ==
  /\ MayCall /\ update = NoUpdate
  /\ a \in DOMAIN anchors
  /\ Orphaned(anchors[a])
  /\ update' = [anchor |-> a,
                record |-> [anchors[a] EXCEPT !.status = "FAILED_ORPHANED"]]
  /\ UNCHANGED <<blocks, anchors, events, pc, event, iter, seen>>

\* ... and both write the whole record back.
WriteBack ==
  /\ update # NoUpdate
  /\ anchors' = Put(anchors, update.anchor, update.record)
  /\ update' = NoUpdate
  /\ UNCHANGED <<blocks, events, pc, event, iter, seen>>

-----------------------------------------------------------------------------
(* Pruning and crashes.                                                    *)

\* heights[heights.size() - keepLastN] of the sorted heights.
Cutoff(heights, keep) ==
  CHOOSE h \in heights : Cardinality({i \in heights : i >= h}) = keep

PruneOldBlocks(keep) ==
  /\ MayCall
  /\ Cardinality(DOMAIN blocks) > keep
  /\ LET cutoff == Cutoff(DOMAIN blocks, keep)
         kept(map) == [h \in {i \in DOMAIN map : i >= cutoff} |-> map[h]]
     IN /\ blocks' = kept(blocks)
        /\ seen' = [a \in DOMAIN seen |-> kept(seen[a])]
  /\ UNCHANGED <<anchors, events, pc, event, iter, update>>

\* The process ends; only RocksDB is left.
Crash ==
  /\ pc' = "idle"
  /\ event' = NoEvent
  /\ iter' = EmptyMap
  /\ update' = NoUpdate
  /\ UNCHANGED <<blocks, anchors, events, seen>>

-----------------------------------------------------------------------------
DetectorInit ==
  /\ blocks = EmptyMap
  /\ anchors = EmptyMap
  /\ events = <<>>
  /\ pc = "idle"
  /\ event = NoEvent
  /\ iter = EmptyMap
  /\ update = NoUpdate
  /\ seen = EmptyMap

\* The steps of a detectReorg that has begun.
ReorgStep ==
  \/ \E a \in AnchorHashes : InvalidateAnchor(a)
  \/ StoreReorgEvent
  \/ TrackNewBlock

AnchorStep ==
  \/ \E a \in AnchorHashes :
       \/ \E height \in Heights : RegisterAnchor(a, height)
       \/ \E n \in ConfirmationCounts : ReadForConfirmations(a, n)
       \/ ReadForStatus(a)
  \/ WriteBack

DetectorNext ==
  \/ \E height \in Heights, hash \in Hashes :
       TrackFirstBlock(height, hash) \/ DetectReorg(height, hash)
  \/ ReorgStep
  \/ AnchorStep
  \/ \E keep \in KeepCounts : PruneOldBlocks(keep)
  \/ Crash

DetectorSpec == DetectorInit /\ [][DetectorNext]_detectorVars

-----------------------------------------------------------------------------
(* Properties.                                                             *)

\* Every variable of the detector, in memory and in RocksDB, has its type.
DetectorTypeOK ==
  /\ IsMap(blocks, Heights, Hashes)
  /\ IsMap(anchors, AnchorHashes, AnchorRecord)
  /\ events \in Seq(Event)
  /\ pc \in {"idle", "invalidate", "track"}
  /\ event \in IF pc = "idle" THEN {NoEvent} ELSE Event
  /\ IsMap(iter, AnchorHashes, AnchorRecord)
  /\ update \in {NoUpdate} \cup [anchor : AnchorHashes, record : AnchorRecord]
  /\ DOMAIN seen \subseteq AnchorHashes
  /\ \A a \in DOMAIN seen : IsMap(seen[a], Heights, Hashes)

\* handleReorg writes every invalidation before trackBlock replaces the hash: as
\* long as an anchor is pending or confirmed, no block at or below its height
\* has been replaced since it was registered, wherever the process crashed.
NoStaleAnchor ==
  \A a \in DOMAIN anchors :
    anchors[a].status \in {"PENDING", "CONFIRMED"} =>
      \A h \in DOMAIN seen[a] \cap DOMAIN blocks :
        h <= anchors[a].height => blocks[h] = seen[a][h]

\* A tracked hash is replaced only once the log holds the reorg that replaces it.
ReorgLogged ==
  [][\A h \in DOMAIN blocks \cap DOMAIN blocks' :
       blocks'[h] # blocks[h] =>
         \E i \in DOMAIN events :
           /\ events[i].height = h
           /\ events[i].old = blocks[h]
           /\ events[i].new = blocks'[h]]_detectorVars

=============================================================================
