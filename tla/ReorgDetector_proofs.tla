------------------------ MODULE ReorgDetector_proofs ------------------------
(***************************************************************************)
(* Proofs about ReorgDetector for any number of blocks, anchors and        *)
(* crashes.  The types and the log need nothing of the callers; that no    *)
(* anchor is stale needs that all calls are made from one thread.          *)
(***************************************************************************)
EXTENDS ReorgDetector, TLAPS

Live(record) == record.status \in {"PENDING", "CONFIRMED"}

\* A detectReorg under way knows the hash it replaces, and has logged the reorg
\* before it replaces it.
LogInv ==
  pc # "idle" =>
    /\ event.height \in DOMAIN blocks => blocks[event.height] = event.old
    /\ pc = "track" => \E i \in DOMAIN events : events[i] = event

\* Every anchor that any code holds is registered, and what it was registered on
\* is still tracked.
SeenInv ==
  /\ DOMAIN seen = DOMAIN anchors
  /\ \A a \in DOMAIN seen : DOMAIN seen[a] \subseteq DOMAIN blocks
  /\ DOMAIN iter \subseteq DOMAIN anchors
  /\ update # NoUpdate => update.anchor \in DOMAIN anchors

\* In one thread the iterator and the record that was read are up to date, and
\* the anchors the iterator has passed are invalidated.
ThreadInv ==
  /\ pc # "idle" =>
       /\ update = NoUpdate
       /\ \A a \in DOMAIN iter : iter[a] = anchors[a]
       /\ pc = "track" => DOMAIN iter = {}
       /\ \A a \in DOMAIN anchors \ DOMAIN iter :
            anchors[a].height >= event.height =>
              anchors[a].status = "INVALIDATED_REORG"
  /\ update # NoUpdate =>
       /\ update.record.height = anchors[update.anchor].height
       /\ Live(update.record) => Live(anchors[update.anchor])

\* What the three theorems rest on.
DetectorInv ==
  /\ DetectorTypeOK
  /\ LogInv
  /\ SeenInv
  /\ OneThread => ThreadInv /\ NoStaleAnchor

-----------------------------------------------------------------------------
(* Maps.                                                                   *)

LEMMA PutType ==
  ASSUME NEW K, NEW V, NEW m, IsMap(m, K, V), NEW k \in K, NEW v \in V
  PROVE  IsMap(Put(m, k, v), K, V)
BY DEF IsMap, Put

LEMMA EraseType ==
  ASSUME NEW K, NEW V, NEW m, IsMap(m, K, V), NEW k
  PROVE  /\ IsMap(Erase(m, k), K, V)
         /\ DOMAIN Erase(m, k) = DOMAIN m \ {k}
         /\ \A j \in DOMAIN m \ {k} : Erase(m, k)[j] = m[j]
BY DEF IsMap, Erase

LEMMA EmptyMapType ==
  /\ DOMAIN EmptyMap = {}
  /\ \A K, V : IsMap(EmptyMap, K, V)
BY DEF EmptyMap, IsMap

-----------------------------------------------------------------------------
(* What the actions do to one anchor record.                               *)

LEMMA ConfirmedRecord ==
  ASSUME NEW record \in AnchorRecord, NEW n \in Nat
  PROVE  /\ WithConfirmations(record, n) \in AnchorRecord
         /\ WithConfirmations(record, n).height = record.height
         /\ Live(WithConfirmations(record, n)) => Live(record)
BY DEF AnchorRecord, WithConfirmations, Statuses, Live

LEMMA InvalidatedRecord ==
  ASSUME NEW record \in AnchorRecord
  PROVE  LET new == [record EXCEPT !.status = "INVALIDATED_REORG", !.confirmations = 0]
         IN  /\ new \in AnchorRecord
             /\ new.height = record.height
             /\ new.status = "INVALIDATED_REORG"
BY DEF AnchorRecord, Statuses

LEMMA OrphanedRecord ==
  ASSUME NEW record \in AnchorRecord
  PROVE  LET new == [record EXCEPT !.status = "FAILED_ORPHANED"]
         IN  /\ new \in AnchorRecord
             /\ new.height = record.height
             /\ ~Live(new)
BY DEF AnchorRecord, Statuses, Live

LEMMA LongerEvent ==
  ASSUME NEW e \in Event, NEW a \in AnchorHashes
  PROVE  LET new == [e EXCEPT !.anchors = Append(@, a)]
         IN  new \in Event /\ new.height = e.height /\ new.old = e.old /\ new.new = e.new
<1>1. Append(e.anchors, a) \in Seq(AnchorHashes)
  BY DEF Event
<1> QED
  BY <1>1 DEF Event

-----------------------------------------------------------------------------
(* Types.                                                                  *)

LEMMA TypeInit == DetectorInit => DetectorTypeOK
BY EmptyMapType DEF DetectorInit, DetectorTypeOK, IsMap, EmptyMap, NoEvent

LEMMA TypeNext == DetectorTypeOK /\ [DetectorNext]_detectorVars => DetectorTypeOK'
<1> SUFFICES ASSUME DetectorTypeOK, [DetectorNext]_detectorVars
             PROVE  DetectorTypeOK'
  OBVIOUS
<1> USE DEF DetectorTypeOK
<1>1. ASSUME NEW height \in Heights, NEW hash \in Hashes, TrackFirstBlock(height, hash)
      PROVE  DetectorTypeOK'
  BY <1>1, PutType DEF TrackFirstBlock
<1>2. ASSUME NEW height \in Heights, NEW hash \in Hashes, DetectReorg(height, hash)
      PROVE  DetectorTypeOK'
  <2>1. event' \in Event
    BY <1>2 DEF DetectReorg, Event, IsMap
  <2> QED
    BY <1>2, <2>1 DEF DetectReorg
<1>3. ASSUME NEW a \in AnchorHashes, InvalidateAnchor(a)
      PROVE  DetectorTypeOK'
  <2>1. iter[a] \in AnchorRecord /\ event \in Event
    BY <1>3 DEF InvalidateAnchor, IsMap
  <2>2. IsMap(iter', AnchorHashes, AnchorRecord)
    BY <1>3, EraseType DEF InvalidateAnchor
  <2> DEFINE new == [iter[a] EXCEPT !.status = "INVALIDATED_REORG",
                                    !.confirmations = 0]
  <2>3. new \in AnchorRecord
    BY <2>1, InvalidatedRecord
  <2>4. \/ anchors' = Put(anchors, a, new) /\ event' = [event EXCEPT !.anchors = Append(@, a)]
        \/ anchors' = anchors /\ event' = event
    BY <1>3 DEF InvalidateAnchor
  <2> HIDE DEF new
  <2>5. IsMap(anchors', AnchorHashes, AnchorRecord)
    BY <2>3, <2>4, PutType
  <2>6. [event EXCEPT !.anchors = Append(@, a)] \in Event
    BY <2>1, LongerEvent
  <2>7. event' \in Event
    BY <2>1, <2>4, <2>6
  <2> QED
    BY <1>3, <2>2, <2>5, <2>7 DEF InvalidateAnchor
<1>4. CASE StoreReorgEvent
  BY <1>4 DEF StoreReorgEvent
<1>5. CASE TrackNewBlock
  <2>1. event.height \in Heights /\ event.new \in Hashes
    BY <1>5 DEF TrackNewBlock, Event
  <2> QED
    BY <1>5, <2>1, PutType DEF TrackNewBlock
<1>6. ASSUME NEW a \in AnchorHashes, NEW height \in Heights, RegisterAnchor(a, height)
      PROVE  DetectorTypeOK'
  <2>1. [height |-> height, confirmations |-> 0, status |-> "PENDING"] \in AnchorRecord
    BY DEF AnchorRecord, Statuses
  <2>2. IsMap(anchors', AnchorHashes, AnchorRecord)
    BY <1>6, <2>1, PutType DEF RegisterAnchor
  <2>3. IsMap(UpTo(blocks, height), Heights, Hashes)
    BY DEF UpTo, IsMap
  <2>4. /\ DOMAIN seen' = DOMAIN seen \cup {a}
        /\ seen'[a] = UpTo(blocks, height)
        /\ \A b \in DOMAIN seen : b # a => seen'[b] = seen[b]
    <3>1. seen' = Put(seen, a, UpTo(blocks, height))
      BY <1>6 DEF RegisterAnchor
    <3> QED
      BY <3>1 DEF Put
  <2> QED
    BY <1>6, <2>2, <2>3, <2>4 DEF RegisterAnchor
<1>7. ASSUME NEW a \in AnchorHashes, NEW n \in ConfirmationCounts, ReadForConfirmations(a, n)
      PROVE  DetectorTypeOK'
  <2>1. WithConfirmations(anchors[a], n) \in AnchorRecord
    BY <1>7, ConfirmedRecord, ReorgAssumption DEF ReadForConfirmations, IsMap
  <2> QED
    BY <1>7, <2>1 DEF ReadForConfirmations
<1>8. ASSUME NEW a \in AnchorHashes, ReadForStatus(a)
      PROVE  DetectorTypeOK'
  <2>1. [anchors[a] EXCEPT !.status = "FAILED_ORPHANED"] \in AnchorRecord
    BY <1>8, OrphanedRecord DEF ReadForStatus, IsMap
  <2> QED
    BY <1>8, <2>1 DEF ReadForStatus
<1>9. CASE WriteBack
  BY <1>9, PutType DEF WriteBack
<1>10. ASSUME NEW keep \in KeepCounts, PruneOldBlocks(keep)
       PROVE  DetectorTypeOK'
  <2> DEFINE cutoff == Cutoff(DOMAIN blocks, keep)
             kept(map) == [h \in {i \in DOMAIN map : i >= cutoff} |-> map[h]]
  <2>1. blocks' = kept(blocks) /\ seen' = [a \in DOMAIN seen |-> kept(seen[a])]
    BY <1>10 DEF PruneOldBlocks
  <2>2. \A map : IsMap(map, Heights, Hashes) => IsMap(kept(map), Heights, Hashes)
    BY DEF IsMap
  <2> HIDE DEF cutoff, kept
  <2>3. IsMap(blocks', Heights, Hashes)
    BY <2>1, <2>2
  <2>4. DOMAIN seen' = DOMAIN seen /\ \A a \in DOMAIN seen' : IsMap(seen'[a], Heights, Hashes)
    BY <2>1, <2>2
  <2> QED
    BY <1>10, <2>3, <2>4 DEF PruneOldBlocks
<1>11. CASE Crash
  BY <1>11, EmptyMapType DEF Crash
<1>12. CASE UNCHANGED detectorVars
  BY <1>12 DEF detectorVars
<1> QED
  BY <1>1, <1>2, <1>3, <1>4, <1>5, <1>6, <1>7, <1>8, <1>9, <1>10, <1>11, <1>12
     DEF DetectorNext, ReorgStep, AnchorStep

-----------------------------------------------------------------------------
(* The log.                                                                *)

LEMMA LogNext ==
  DetectorTypeOK /\ LogInv /\ [DetectorNext]_detectorVars => LogInv'
<1> SUFFICES ASSUME DetectorTypeOK, LogInv, [DetectorNext]_detectorVars
             PROVE  LogInv'
  OBVIOUS
<1> USE DEF LogInv
<1>1. ASSUME NEW height \in Heights, NEW hash \in Hashes, TrackFirstBlock(height, hash)
      PROVE  LogInv'
  BY <1>1 DEF TrackFirstBlock
<1>2. ASSUME NEW height \in Heights, NEW hash \in Hashes, DetectReorg(height, hash)
      PROVE  LogInv'
  BY <1>2 DEF DetectReorg
<1>3. ASSUME NEW a \in AnchorHashes, InvalidateAnchor(a)
      PROVE  LogInv'
  <2>1. event \in Event /\ pc = "invalidate" /\ pc' = pc /\ blocks' = blocks
    BY <1>3 DEF InvalidateAnchor, DetectorTypeOK
  <2>2. event' = event \/ event' = [event EXCEPT !.anchors = Append(@, a)]
    BY <1>3 DEF InvalidateAnchor
  <2>3. event'.height = event.height /\ event'.old = event.old
    BY <2>1, <2>2, LongerEvent
  <2> QED
    BY <2>1, <2>3
<1>4. CASE StoreReorgEvent
  <2>1. events \in Seq(Event) /\ events' = Append(events, event) /\ event \in Event
    BY <1>4 DEF StoreReorgEvent, DetectorTypeOK
  <2>2. Len(events) + 1 \in DOMAIN events' /\ events'[Len(events) + 1] = event
    BY <2>1
  <2> QED
    BY <1>4, <2>2 DEF StoreReorgEvent
<1>5. CASE TrackNewBlock
  BY <1>5 DEF TrackNewBlock
<1>6. CASE AnchorStep
  BY <1>6 DEF AnchorStep, RegisterAnchor, ReadForConfirmations, ReadForStatus, WriteBack
<1>7. ASSUME NEW keep \in KeepCounts, PruneOldBlocks(keep)
      PROVE  LogInv'
  <2>1. \A h \in DOMAIN blocks' : h \in DOMAIN blocks /\ blocks'[h] = blocks[h]
    BY <1>7 DEF PruneOldBlocks
  <2> QED
    BY <1>7, <2>1 DEF PruneOldBlocks
<1>8. CASE Crash
  BY <1>8 DEF Crash
<1>9. CASE UNCHANGED detectorVars
  BY <1>9 DEF detectorVars
<1> QED
  BY <1>1, <1>2, <1>3, <1>4, <1>5, <1>6, <1>7, <1>8, <1>9 DEF DetectorNext, ReorgStep

\* Only TrackNewBlock replaces a hash, and it finds its event in the log.
LEMMA LogStep ==
  DetectorTypeOK /\ LogInv /\ [DetectorNext]_detectorVars =>
    \A h \in DOMAIN blocks \cap DOMAIN blocks' :
      blocks'[h] # blocks[h] =>
        \E i \in DOMAIN events :
          /\ events[i].height = h
          /\ events[i].old = blocks[h]
          /\ events[i].new = blocks'[h]
<1> SUFFICES ASSUME DetectorTypeOK, LogInv, [DetectorNext]_detectorVars,
                    NEW h \in DOMAIN blocks \cap DOMAIN blocks', blocks'[h] # blocks[h]
             PROVE  \E i \in DOMAIN events :
                      /\ events[i].height = h
                      /\ events[i].old = blocks[h]
                      /\ events[i].new = blocks'[h]
  OBVIOUS
<1>1. ASSUME NEW height \in Heights, NEW hash \in Hashes, TrackFirstBlock(height, hash)
      PROVE  FALSE
  BY <1>1 DEF TrackFirstBlock, Put
<1>2. ASSUME NEW height \in Heights, NEW hash \in Hashes, DetectReorg(height, hash)
      PROVE  FALSE
  BY <1>2 DEF DetectReorg
<1>3. ASSUME NEW a \in AnchorHashes, InvalidateAnchor(a)
      PROVE  FALSE
  BY <1>3 DEF InvalidateAnchor
<1>4. CASE TrackNewBlock
  <2>1. blocks' = Put(blocks, event.height, event.new) /\ pc = "track"
    BY <1>4 DEF TrackNewBlock
  <2>2. h = event.height /\ blocks'[h] = event.new
    BY <2>1 DEF Put
  <2> QED
    BY <2>1, <2>2 DEF LogInv
<1>5. ASSUME NEW keep \in KeepCounts, PruneOldBlocks(keep)
      PROVE  FALSE
  BY <1>5 DEF PruneOldBlocks
<1>6. blocks' # blocks
  OBVIOUS
<1> QED
  BY <1>1, <1>2, <1>3, <1>4, <1>5, <1>6
     DEF DetectorNext, ReorgStep, StoreReorgEvent, AnchorStep, RegisterAnchor,
         ReadForConfirmations, ReadForStatus, WriteBack, Crash, detectorVars

-----------------------------------------------------------------------------
(* The anchors that are known.                                             *)

LEMMA SeenNext ==
  DetectorTypeOK /\ SeenInv /\ [DetectorNext]_detectorVars => SeenInv'
<1> SUFFICES ASSUME DetectorTypeOK, SeenInv, [DetectorNext]_detectorVars
             PROVE  SeenInv'
  OBVIOUS
<1> USE DEF SeenInv
<1>1. ASSUME NEW height \in Heights, NEW hash \in Hashes, TrackFirstBlock(height, hash)
      PROVE  SeenInv'
  <2>1. DOMAIN blocks \subseteq DOMAIN blocks'
    BY <1>1 DEF TrackFirstBlock, Put
  <2> QED
    BY <1>1, <2>1 DEF TrackFirstBlock
<1>2. ASSUME NEW height \in Heights, NEW hash \in Hashes, DetectReorg(height, hash)
      PROVE  SeenInv'
  BY <1>2 DEF DetectReorg
<1>3. ASSUME NEW a \in AnchorHashes, InvalidateAnchor(a)
      PROVE  SeenInv'
  <2>1. a \in DOMAIN anchors /\ iter' = Erase(iter, a)
    BY <1>3 DEF InvalidateAnchor
  <2>2. DOMAIN anchors' = DOMAIN anchors
    BY <1>3, <2>1 DEF InvalidateAnchor, Put
  <2>3. DOMAIN iter' \subseteq DOMAIN iter
    BY <2>1 DEF Erase
  <2> QED
    BY <1>3, <2>2, <2>3 DEF InvalidateAnchor
<1>4. CASE StoreReorgEvent
  BY <1>4 DEF StoreReorgEvent
<1>5. CASE TrackNewBlock
  <2>1. DOMAIN blocks \subseteq DOMAIN blocks'
    BY <1>5 DEF TrackNewBlock, Put
  <2> QED
    BY <1>5, <2>1 DEF TrackNewBlock
<1>6. ASSUME NEW a \in AnchorHashes, NEW height \in Heights, RegisterAnchor(a, height)
      PROVE  SeenInv'
  <2>1. /\ DOMAIN anchors' = DOMAIN anchors \cup {a}
        /\ DOMAIN seen' = DOMAIN seen \cup {a}
        /\ seen'[a] = UpTo(blocks, height)
        /\ \A b \in DOMAIN seen : b # a => seen'[b] = seen[b]
    BY <1>6 DEF RegisterAnchor, Put
  <2>2. DOMAIN UpTo(blocks, height) \subseteq DOMAIN blocks
    BY DEF UpTo
  <2> QED
    BY <1>6, <2>1, <2>2 DEF RegisterAnchor
<1>7. ASSUME NEW a \in AnchorHashes, NEW n \in ConfirmationCounts, ReadForConfirmations(a, n)
      PROVE  SeenInv'
  BY <1>7 DEF ReadForConfirmations
<1>8. ASSUME NEW a \in AnchorHashes, ReadForStatus(a)
      PROVE  SeenInv'
  BY <1>8 DEF ReadForStatus
<1>9. CASE WriteBack
  <2>1. DOMAIN anchors' = DOMAIN anchors
    BY <1>9 DEF WriteBack, Put
  <2> QED
    BY <1>9, <2>1 DEF WriteBack
<1>10. ASSUME NEW keep \in KeepCounts, PruneOldBlocks(keep)
       PROVE  SeenInv'
  <2> DEFINE cutoff == Cutoff(DOMAIN blocks, keep)
  <2>1. /\ DOMAIN blocks' = {h \in DOMAIN blocks : h >= cutoff}
        /\ DOMAIN seen' = DOMAIN seen
        /\ \A a \in DOMAIN seen : DOMAIN seen'[a] = {h \in DOMAIN seen[a] : h >= cutoff}
    BY <1>10 DEF PruneOldBlocks
  <2> HIDE DEF cutoff
  <2> QED
    BY <1>10, <2>1 DEF PruneOldBlocks
<1>11. CASE Crash
  BY <1>11, EmptyMapType DEF Crash
<1>12. CASE UNCHANGED detectorVars
  BY <1>12 DEF detectorVars
<1> QED
  BY <1>1, <1>2, <1>3, <1>4, <1>5, <1>6, <1>7, <1>8, <1>9, <1>10, <1>11, <1>12
     DEF DetectorNext, ReorgStep, AnchorStep

-----------------------------------------------------------------------------
(* One thread.                                                             *)

LEMMA ThreadNext ==
  ASSUME OneThread
  PROVE  DetectorTypeOK /\ SeenInv /\ ThreadInv /\ [DetectorNext]_detectorVars
           => ThreadInv'
<1> SUFFICES ASSUME DetectorTypeOK, SeenInv, ThreadInv, [DetectorNext]_detectorVars
             PROVE  ThreadInv'
  OBVIOUS
<1> USE DEF ThreadInv, MayCall
<1>1. ASSUME NEW height \in Heights, NEW hash \in Hashes, TrackFirstBlock(height, hash)
      PROVE  ThreadInv'
  BY <1>1 DEF TrackFirstBlock
<1>2. ASSUME NEW height \in Heights, NEW hash \in Hashes, DetectReorg(height, hash)
      PROVE  ThreadInv'
  BY <1>2 DEF DetectReorg
<1>3. ASSUME NEW a \in AnchorHashes, InvalidateAnchor(a)
      PROVE  ThreadInv'
  <2> DEFINE new == [iter[a] EXCEPT !.status = "INVALIDATED_REORG",
                                    !.confirmations = 0]
  <2>1. /\ pc = "invalidate" /\ pc' = pc /\ update' = update
        /\ a \in DOMAIN iter /\ iter[a] = anchors[a] /\ iter[a] \in AnchorRecord
        /\ event \in Event /\ a \in DOMAIN anchors
    BY <1>3 DEF InvalidateAnchor, DetectorTypeOK, IsMap, SeenInv
  <2>2. DOMAIN iter' = DOMAIN iter \ {a} /\ \A b \in DOMAIN iter' : iter'[b] = iter[b]
    BY <1>3 DEF InvalidateAnchor, Erase
  <2>3. event' = event \/ event' = [event EXCEPT !.anchors = Append(@, a)]
    BY <1>3 DEF InvalidateAnchor
  <2>4. event'.height = event.height
    BY <2>1, <2>3, LongerEvent
  <2>5. new.status = "INVALIDATED_REORG"
    BY <2>1, InvalidatedRecord
  <2>6. \/ /\ anchors' = Put(anchors, a, new)
        \/ /\ anchors' = anchors
           /\ iter[a].height >= event.height => iter[a].status = "INVALIDATED_REORG"
    BY <1>3 DEF InvalidateAnchor
  <2> HIDE DEF new
  <2>7. /\ DOMAIN anchors' = DOMAIN anchors
        /\ \A b \in DOMAIN anchors : b # a => anchors'[b] = anchors[b]
        /\ anchors'[a].height >= event.height => anchors'[a].status = "INVALIDATED_REORG"
    BY <2>1, <2>5, <2>6 DEF Put
  <2> QED
    BY <2>1, <2>2, <2>4, <2>7 DEF SeenInv
<1>4. CASE StoreReorgEvent
  BY <1>4, EmptyMapType DEF StoreReorgEvent
<1>5. CASE TrackNewBlock
  BY <1>5 DEF TrackNewBlock
<1>6. ASSUME NEW a \in AnchorHashes, NEW height \in Heights, RegisterAnchor(a, height)
      PROVE  ThreadInv'
  BY <1>6 DEF RegisterAnchor
<1>7. ASSUME NEW a \in AnchorHashes, NEW n \in ConfirmationCounts, ReadForConfirmations(a, n)
      PROVE  ThreadInv'
  <2>1. anchors[a] \in AnchorRecord /\ n \in Nat
    BY <1>7, ReorgAssumption DEF ReadForConfirmations, DetectorTypeOK, IsMap
  <2> QED
    BY <1>7, <2>1, ConfirmedRecord DEF ReadForConfirmations
<1>8. ASSUME NEW a \in AnchorHashes, ReadForStatus(a)
      PROVE  ThreadInv'
  <2>1. anchors[a] \in AnchorRecord
    BY <1>8 DEF ReadForStatus, DetectorTypeOK, IsMap
  <2> QED
    BY <1>8, <2>1, OrphanedRecord DEF ReadForStatus
<1>9. CASE WriteBack
  BY <1>9 DEF WriteBack
<1>10. ASSUME NEW keep \in KeepCounts, PruneOldBlocks(keep)
       PROVE  ThreadInv'
  BY <1>10 DEF PruneOldBlocks
<1>11. CASE Crash
  BY <1>11 DEF Crash
<1>12. CASE UNCHANGED detectorVars
  BY <1>12 DEF detectorVars
<1> QED
  BY <1>1, <1>2, <1>3, <1>4, <1>5, <1>6, <1>7, <1>8, <1>9, <1>10, <1>11, <1>12
     DEF DetectorNext, ReorgStep, AnchorStep

\* An anchor that stays live keeps its height and the blocks below it.
LEMMA StaleNext ==
  ASSUME OneThread
  PROVE  DetectorTypeOK /\ SeenInv /\ ThreadInv /\ NoStaleAnchor
           /\ [DetectorNext]_detectorVars => NoStaleAnchor'
<1> SUFFICES ASSUME DetectorTypeOK, SeenInv, ThreadInv, NoStaleAnchor,
                    [DetectorNext]_detectorVars
             PROVE  NoStaleAnchor'
  OBVIOUS
<1> USE DEF NoStaleAnchor, MayCall, SeenInv
<1>1. ASSUME NEW height \in Heights, NEW hash \in Hashes, TrackFirstBlock(height, hash)
      PROVE  NoStaleAnchor'
  <2>1. \A h \in DOMAIN blocks : blocks'[h] = blocks[h]
    BY <1>1 DEF TrackFirstBlock, Put
  <2> QED
    BY <1>1, <2>1 DEF TrackFirstBlock
<1>2. ASSUME NEW height \in Heights, NEW hash \in Hashes, DetectReorg(height, hash)
      PROVE  NoStaleAnchor'
  BY <1>2 DEF DetectReorg
<1>3. ASSUME NEW a \in AnchorHashes, InvalidateAnchor(a)
      PROVE  NoStaleAnchor'
  <2> DEFINE new == [iter[a] EXCEPT !.status = "INVALIDATED_REORG",
                                    !.confirmations = 0]
  <2>1. iter[a] \in AnchorRecord /\ a \in DOMAIN anchors
    BY <1>3 DEF InvalidateAnchor, DetectorTypeOK, IsMap
  <2>2. new.status = "INVALIDATED_REORG"
    BY <2>1, InvalidatedRecord
  <2>3. anchors' = anchors \/ anchors' = Put(anchors, a, new)
    BY <1>3 DEF InvalidateAnchor
  <2> HIDE DEF new
  <2>4. /\ DOMAIN anchors' = DOMAIN anchors
        /\ \A b \in DOMAIN anchors :
             anchors'[b] = anchors[b] \/ anchors'[b].status = "INVALIDATED_REORG"
    BY <2>1, <2>2, <2>3 DEF Put
  <2> QED
    BY <1>3, <2>4 DEF InvalidateAnchor
<1>4. CASE StoreReorgEvent
  BY <1>4 DEF StoreReorgEvent
<1>5. CASE TrackNewBlock
  <2>1. /\ \A h \in DOMAIN blocks : h # event.height => blocks'[h] = blocks[h]
        /\ \A a \in DOMAIN anchors :
             anchors[a].height >= event.height => anchors[a].status = "INVALIDATED_REORG"
    BY <1>5 DEF TrackNewBlock, Put, ThreadInv
  <2>2. /\ event.height \in Nat
        /\ \A a \in DOMAIN anchors : anchors[a].height \in Nat
        /\ \A a \in DOMAIN seen : \A h \in DOMAIN seen[a] : h \in Nat
    BY <1>5, ReorgAssumption
       DEF TrackNewBlock, DetectorTypeOK, IsMap, Event, AnchorRecord
  <2>3. SUFFICES ASSUME NEW a \in DOMAIN anchors,
                        anchors[a].status \in {"PENDING", "CONFIRMED"},
                        NEW h \in DOMAIN seen[a], h <= anchors[a].height
                 PROVE  blocks'[h] = seen[a][h]
    BY <1>5 DEF TrackNewBlock
  <2>4. h # event.height
    BY <2>1, <2>2, <2>3
  <2> QED
    BY <2>1, <2>3, <2>4
<1>6. ASSUME NEW a \in AnchorHashes, NEW height \in Heights, RegisterAnchor(a, height)
      PROVE  NoStaleAnchor'
  <2>1. /\ DOMAIN anchors' = DOMAIN anchors \cup {a}
        /\ seen'[a] = UpTo(blocks, height)
        /\ \A b \in DOMAIN anchors : b # a => seen'[b] = seen[b] /\ anchors'[b] = anchors[b]
        /\ blocks' = blocks
    BY <1>6 DEF RegisterAnchor, Put
  <2>2. \A h \in DOMAIN UpTo(blocks, height) : UpTo(blocks, height)[h] = blocks[h]
    BY DEF UpTo
  <2> QED
    BY <2>1, <2>2
<1>7. ASSUME NEW a \in AnchorHashes, NEW n \in ConfirmationCounts, ReadForConfirmations(a, n)
      PROVE  NoStaleAnchor'
  BY <1>7 DEF ReadForConfirmations
<1>8. ASSUME NEW a \in AnchorHashes, ReadForStatus(a)
      PROVE  NoStaleAnchor'
  BY <1>8 DEF ReadForStatus
<1>9. CASE WriteBack
  <2>1. /\ DOMAIN anchors' = DOMAIN anchors
        /\ \A b \in DOMAIN anchors :
             /\ anchors'[b].height = anchors[b].height
             /\ Live(anchors'[b]) => Live(anchors[b])
        /\ seen' = seen /\ blocks' = blocks
    BY <1>9 DEF WriteBack, Put, ThreadInv
  <2> QED
    BY <2>1 DEF Live
<1>10. ASSUME NEW keep \in KeepCounts, PruneOldBlocks(keep)
       PROVE  NoStaleAnchor'
  <2>1. /\ \A h \in DOMAIN blocks' : h \in DOMAIN blocks /\ blocks'[h] = blocks[h]
        /\ \A a \in DOMAIN seen : \A h \in DOMAIN seen'[a] :
             h \in DOMAIN seen[a] /\ seen'[a][h] = seen[a][h]
    BY <1>10 DEF PruneOldBlocks
  <2> QED
    BY <1>10, <2>1 DEF PruneOldBlocks
<1>11. CASE Crash
  BY <1>11 DEF Crash
<1>12. CASE UNCHANGED detectorVars
  BY <1>12 DEF detectorVars
<1> QED
  BY <1>1, <1>2, <1>3, <1>4, <1>5, <1>6, <1>7, <1>8, <1>9, <1>10, <1>11, <1>12
     DEF DetectorNext, ReorgStep, AnchorStep

-----------------------------------------------------------------------------
(* Theorems.                                                               *)

LEMMA InvInit == DetectorInit => DetectorInv
BY TypeInit, EmptyMapType
   DEF DetectorInit, DetectorInv, LogInv, SeenInv, ThreadInv, NoStaleAnchor

LEMMA InvNext == DetectorInv /\ [DetectorNext]_detectorVars => DetectorInv'
BY TypeNext, LogNext, SeenNext, ThreadNext, StaleNext DEF DetectorInv

\* Every variable of the detector, in memory and in RocksDB, keeps its type.
THEOREM DetectorTypeCorrect == DetectorSpec => []DetectorTypeOK
<1>1. DetectorInv => DetectorTypeOK
  BY DEF DetectorInv
<1> QED
  BY <1>1, InvInit, InvNext, PTL DEF DetectorSpec

\* detectReorg never replaces a hash that the log does not say it replaces, with
\* any number of threads and crashes.
THEOREM ReorgsLogged == DetectorSpec => ReorgLogged
<1>1. DetectorInv /\ [DetectorNext]_detectorVars =>
        [\A h \in DOMAIN blocks \cap DOMAIN blocks' :
           blocks'[h] # blocks[h] =>
             \E i \in DOMAIN events :
               /\ events[i].height = h
               /\ events[i].old = blocks[h]
               /\ events[i].new = blocks'[h]]_detectorVars
  BY LogStep DEF DetectorInv
<1> QED
  BY <1>1, InvInit, InvNext, PTL DEF DetectorSpec, ReorgLogged

\* When all calls come from one thread, no pending or confirmed anchor rests on
\* a block that has been replaced, wherever the process crashed.
THEOREM AnchorsNotStale ==
  ASSUME OneThread
  PROVE  DetectorSpec => []NoStaleAnchor
<1>1. DetectorInv => NoStaleAnchor
  BY DEF DetectorInv
<1> QED
  BY <1>1, InvInit, InvNext, PTL DEF DetectorSpec

=============================================================================
