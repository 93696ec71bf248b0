---------------------------- MODULE EpochReplay ----------------------------
(***************************************************************************)
(* IslaRuntimeOrchestrator::run_epoch (src/l6/IslaRuntimeOrchestrator.cpp) *)
(* with the RocksDB ReplayBuffer it validates, extends and trims, and the  *)
(* restarts that may cut it short.                                         *)
(*                                                                         *)
(* An epoch is a record of what the checks look at: its id, the height of  *)
(* the bundle's clock snapshot, its state root ("canonical" is the hash of *)
(* the transcript, "foreign" another hash, "short" not 64 characters) and  *)
(* defect, the other reason there may be to refuse the bundle.             *)
(***************************************************************************)
EXTENDS Integers, Sequences, FiniteSets, SequencesExt

CONSTANTS
  SnapshotHeights,   \* block heights a snapshot may have
  Bundles,           \* the epochs that may be run
  EpochLength,       \* PolicyState::epoch_length
  MaxReplay,         \* PolicyState::max_replay_epochs
  MaxBatch,          \* MAX_BATCH_SIZE
  MetricsWindow,     \* the metrics windows keep that many epochs
  TemporalWindow,    \* TemporalMetricsBuffer::window_size_
  Environments,      \* the environments and clocks a node may be configured with
  NoEpoch            \* no epoch is being run

Roots == {"canonical", "foreign", "short"}
Defects == {"none", "snapshot", "circuit", "hice"}
EpochIds == {h \div EpochLength : h \in SnapshotHeights}

ASSUME ReplayAssumption ==
  /\ SnapshotHeights \subseteq Nat
  /\ Bundles \subseteq [id : EpochIds, height : SnapshotHeights, root : Roots, defect : Defects]
  /\ {EpochLength, MaxReplay, MaxBatch, MetricsWindow, TemporalWindow} \subseteq Nat \ {0}
  /\ Environments \subseteq {"CI", "DEV"} \X BOOLEAN
  /\ NoEpoch \notin [id : EpochIds, height : SnapshotHeights, root : Roots]

VARIABLES
  environment,       \* the environment type, and whether a clock is attached
  replayed,          \* the database: the entry of each recorded epoch id
  epochPc,           \* where run_epoch is
  current,           \* the epoch it is recording
  excess,            \* current_size - max_replay_epochs, still to be removed
  batch,             \* batch_size_
  metrics,           \* the length of the three metrics windows
  temporal,          \* the ids in temporal_buffer_
  trimmed            \* history: the last retention removed everything it meant to

epochVars ==
  <<environment, replayed, epochPc, current, excess, batch, metrics, temporal, trimmed>>

EpochInit ==
  /\ environment \in Environments
  /\ replayed = <<>> /\ epochPc = "idle" /\ current = NoEpoch /\ excess = 0
  /\ batch = 1 /\ metrics = 0 /\ temporal = <<>> /\ trimmed = TRUE

IsCi == environment[1] = "CI"

-----------------------------------------------------------------------------
(* The buffer.  Its keys are "epoch_" and the id in decimal, and RocksDB   *)
(* iterates over them as strings.                                          *)

Digits[n \in Nat] == IF n < 10 THEN <<n>> ELSE Append(Digits[n \div 10], n % 10)

KeyBefore(i, j) ==
  LET a == Digits[i]
      b == Digits[j]
  IN \E k \in 1 .. Len(b) :
       /\ k <= Len(a) + 1
       /\ \A l \in 1 .. k - 1 : a[l] = b[l]
       /\ k = Len(a) + 1 \/ a[k] < b[k]

\* get_epoch_history(), as the ids in the order of their keys.
History ==
  CHOOSE h \in SetToSeqs(DOMAIN replayed) :
    \A i, j \in 1 .. Cardinality(DOMAIN replayed) : i < j => KeyBefore(h[i], h[j])

\* history.back().clock_snapshot.height
PreviousHeight == IF History = <<>> THEN 0 ELSE replayed[Last(History)].height

\* Fault: only the epoch ids of the chain are looked at.
ValidIdsOnly ==
  /\ \A i \in 2 .. Len(History) : History[i] > History[i - 1]
  /\ \A i \in DOMAIN replayed : replayed[i].root # "short"

\* validate_replay_chain
ValidReplayChain ==
  LET h == History
  IN /\ \A i \in 2 .. Len(h) :
          /\ h[i] > h[i - 1] /\ h[i] - h[i - 1] <= MaxReplay
          /\ replayed[h[i]].height >= replayed[h[i - 1]].height
     /\ \A i \in DOMAIN replayed : replayed[i].root # "short"

-----------------------------------------------------------------------------
(* run_epoch.                                                              *)

\* An attached clock replaces the bundle's snapshot, except under CI.
ReadsClock == environment[2] /\ ~IsCi

\* validate_epoch_bundle, which looks at the bundle's own snapshot; CI skips it.
ValidBundle(bundle) ==
  /\ bundle.defect # "circuit"
  /\ bundle.root = "canonical"
  /\ bundle.height >= PreviousHeight
  /\ bundle.id = bundle.height \div EpochLength

\* is_valid_snapshot
ValidSnapshot(bundle, height) ==
  (bundle.defect = "snapshot" => ReadsClock) /\ height >= PreviousHeight

Accepted(bundle, height) ==
  /\ ValidReplayChain
  /\ ValidSnapshot(bundle, height)
  /\ IsCi \/ ValidBundle(bundle)
  /\ bundle.defect # "hice"

\* applyTuning comes first: with the windows run_epoch fills itself, the batch
\* grows by a tenth, rounded up, whenever there is an epoch to go by.
Tuned == IF metrics = 0 THEN batch
         ELSE IF batch + (batch * 10 + 99) \div 100 > MaxBatch THEN MaxBatch
         ELSE batch + (batch * 10 + 99) \div 100

PushState(window, id) ==
  (IF Len(window) >= TemporalWindow THEN Tail(window) ELSE window) \o <<id>>

\* The clock or one of the checks throws, or the epoch goes on to the replay buffer
\* with the height read.
RunEpoch(bundle, height) ==
  /\ epochPc = "idle"
  /\ batch' = Tuned
  /\ \/ /\ ReadsClock \/ ~Accepted(bundle, height)
        /\ UNCHANGED <<epochPc, current, temporal>>
     \/ /\ Accepted(bundle, height)
        /\ epochPc' = "record"
        /\ current' = [id |-> bundle.id, height |-> height, root |-> bundle.root]
        /\ temporal' = PushState(temporal, bundle.id)
  /\ UNCHANGED <<environment, replayed, excess, metrics, trimmed>>

\* record_epoch, one Put under the key of the epoch id; enforce_replay_retention
\* counts the entries after it.
RecordEpoch ==
  /\ epochPc = "record"
  /\ replayed' = [i \in DOMAIN replayed \cup {current.id} |->
                    IF i = current.id THEN [height |-> current.height, root |-> current.root]
                                      ELSE replayed[i]]
  /\ excess' = Cardinality(DOMAIN replayed') - MaxReplay
  /\ epochPc' = "retain" /\ current' = NoEpoch /\ trimmed' = TRUE
  /\ UNCHANGED <<environment, batch, metrics, temporal>>

\* The commitment of the anchor or the Put fails, and run_epoch throws.
RecordFails ==
  /\ epochPc = "record"
  /\ epochPc' = "idle" /\ current' = NoEpoch
  /\ UNCHANGED <<environment, replayed, excess, batch, metrics, temporal, trimmed>>

\* Fault: one entry is removed at most.
RemoveOneOldest ==
  /\ epochPc = "retain" /\ excess > 0
  /\ excess' = 0
  /\ replayed' = [i \in DOMAIN replayed \ {Head(History)} |-> replayed[i]]
  /\ UNCHANGED <<environment, epochPc, current, batch, metrics, temporal, trimmed>>

\* remove_oldest deletes the first key; whether the Delete succeeded is not asked.
RemoveOldest ==
  /\ epochPc = "retain" /\ excess > 0
  /\ excess' = excess - 1
  /\ \/ /\ replayed' = [i \in DOMAIN replayed \ {Head(History)} |-> replayed[i]]
        /\ UNCHANGED trimmed
     \/ UNCHANGED replayed /\ trimmed' = FALSE
  /\ UNCHANGED <<environment, epochPc, current, batch, metrics, temporal>>

\* Fault: the metrics are pushed onto windows that nothing trims.
ReturnEpochUntrimmed ==
  /\ epochPc = "retain" /\ excess <= 0
  /\ metrics' = metrics + 1
  /\ epochPc' = "idle" /\ excess' = 0
  /\ UNCHANGED <<environment, replayed, current, batch, temporal, trimmed>>

\* The metrics windows grow by one and run_epoch returns.
ReturnEpoch ==
  /\ epochPc = "retain" /\ excess <= 0
  /\ metrics' = IF metrics < MetricsWindow THEN metrics + 1 ELSE metrics
  /\ epochPc' = "idle" /\ excess' = 0
  /\ UNCHANGED <<environment, replayed, current, batch, temporal, trimmed>>

\* The process ends anywhere and starts again on the same database.
RestartRuntime ==
  /\ epochPc' = "idle" /\ current' = NoEpoch /\ excess' = 0
  /\ batch' = 1 /\ metrics' = 0 /\ temporal' = <<>>
  /\ trimmed' = (trimmed /\ excess <= 0)
  /\ UNCHANGED <<environment, replayed>>

EpochNext ==
  \/ \E bundle \in Bundles :
       \E height \in IF ReadsClock THEN SnapshotHeights ELSE {bundle.height} :
         RunEpoch(bundle, height)
  \/ RecordEpoch \/ RecordFails \/ RemoveOldest \/ ReturnEpoch \/ RestartRuntime

EpochSpec == EpochInit /\ [][EpochNext]_epochVars

-----------------------------------------------------------------------------
(* Properties.                                                             *)

\* Every variable has its type, the windows are within their lengths, and an epoch
\* is held exactly while it waits to be recorded.
EpochTypeOK ==
  /\ environment \in Environments
  /\ \A i \in DOMAIN replayed :
       i \in EpochIds /\ replayed[i] \in [height : SnapshotHeights, root : Roots]
  /\ epochPc \in {"idle", "record", "retain"} /\ (epochPc = "record" <=> current # NoEpoch)
  /\ excess \in Int /\ trimmed \in BOOLEAN
  /\ batch \in 1 .. MaxBatch /\ metrics \in 0 .. MetricsWindow
  /\ Len(temporal) <= TemporalWindow
  /\ \A i \in 1 .. Len(temporal) : temporal[i] \in EpochIds

\* The height about to be recorded is no lower than that of any epoch in the buffer,
\* whatever the ids are and wherever the height was read: the snapshot is compared
\* with the last entry only, so this rests on the chain being validated first.
NewestIsHighest ==
  epochPc = "record" => \A i \in DOMAIN replayed : replayed[i].height <= current.height

\* A retention whose deletions all happened leaves at most max_replay_epochs epochs,
\* whatever earlier failures and restarts had left over.
RetentionKept == (epochPc = "idle" /\ trimmed) => Cardinality(DOMAIN replayed) <= MaxReplay

\* The buffer is what run_epoch takes it for: its heights rise to the newest, and it
\* holds no more epochs than retention allows.
ReplaySound == NewestIsHighest /\ RetentionKept

\* "Added for deterministic replay ordering": between two epochs the history is in
\* the order of the epoch ids, which validate_replay_chain asks of it before it lets
\* another epoch run.
ReplayInOrder ==
  epochPc = "idle" => \A i \in 2 .. Len(History) : History[i] > History[i - 1]

=============================================================================
