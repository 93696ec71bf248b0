-------------------------- MODULE ClusterScheduler --------------------------
(***************************************************************************)
(* The simulated cluster that a node runs in replay mode: the nine phases  *)
(* of DeterministicScheduler::run_tick (src/l4/DeterministicScheduler.cpp) *)
(* with the gossip of src/l3, the recovery, the mesh anchor and the state  *)
(* roots of src/l4, over the header window of MainnetSync.                 *)
(*                                                                         *)
(* A hash is what was hashed.  The initial nodes and the gossip schedule   *)
(* are the caller's (run_cluster_simulation).  Every engine steps on an    *)
(* empty reflection, as run_tick passes it, so the height and the root it  *)
(* computes are those of height 0.  Messages of the transport phase are    *)
(* enqueued and drained in the same tick and nobody reads them; telemetry  *)
(* and the dashboard are output.                                           *)
(***************************************************************************)
EXTENDS MainnetSync

CONSTANTS
  ClusterSize,       \* nodes are 1 .. ClusterSize in the order of their id
  Schedules,         \* gossip schedules: sequences of <<sender, receiver>> indices
  InitialNodes,      \* what a node may be before the first tick
  MaxCycles          \* bound on the cycles of nine ticks

StaleThreshold == 8
ZeroRoot == <<"zero", 0>>
EngineRoot == <<"state_root", 0>>
SyncStatuses == {"IN_SYNC", "AHEAD", "BEHIND", "NEEDS_RECOVERY", "STALE"}
StateRoots == {node.root : node \in InitialNodes} \cup {EngineRoot}

\* ClusterNodeState, as far as the phases look at it.
NodeStates ==
  [height : Nat, root : StateRoots,
   syncs : Seq([status : SyncStatuses, local : Nat, remote : Nat]),
   status : {"UNKNOWN", "CONSISTENT", "INCONSISTENT"}]

ASSUME ClusterAssumption ==
  /\ ClusterSize \in Nat \ {0} /\ MaxCycles \in Nat
  /\ InitialNodes \subseteq NodeStates
  /\ Schedules \subseteq Seq(Nat \X Nat)

VARIABLES
  nodes,             \* view.nodes
  schedule,          \* gossip_schedule
  ticks,             \* state.tick_count
  meshEpoch,         \* current_epoch
  meshAnchor,        \* current_anchor
  announcements,     \* current_announcements
  coherence,         \* view.coherence_summary
  clusterStable      \* state.cluster_stable

clusterVars ==
  <<nodes, schedule, ticks, meshEpoch, meshAnchor, announcements, coherence, clusterStable>>

Ids == 1 .. ClusterSize

ClusterInit ==
  /\ SyncInit
  /\ nodes \in [Ids -> InitialNodes]
  /\ schedule \in Schedules
  /\ ticks = 0
  /\ meshEpoch = [height |-> 0, root |-> ZeroRoot]
  /\ meshAnchor = [epoch |-> meshEpoch, inSync |-> 0, recovered |-> 0]
  /\ announcements = EmptyMap
  /\ coherence = [inSync |-> 0, recovered |-> 0, consistent |-> 0, score |-> 0]
  /\ clusterStable = FALSE

-----------------------------------------------------------------------------
(* Gossip and recovery.                                                    *)

\* compute_peer_sync, of what a receiver hears from a sender.
PeerSync(receiver, sender) ==
  [local |-> receiver.height, remote |-> sender.height,
   status |->
     IF \/ sender.height + StaleThreshold < receiver.height
        \/ receiver.height + StaleThreshold < sender.height THEN "STALE"
     ELSE IF receiver.height > sender.height THEN "AHEAD"
     ELSE IF receiver.height < sender.height THEN "BEHIND"
     ELSE IF receiver.root = sender.root THEN "IN_SYNC" ELSE "NEEDS_RECOVERY"]

\* Fault: the sender keeps the state of the exchange.
SenderHears(view, pair) ==
  IF {pair[1], pair[2]} \subseteq Ids
    THEN [view EXCEPT ![pair[1]].syncs = Append(@, PeerSync(view[pair[2]], view[pair[1]]))]
    ELSE view

\* One exchange of the schedule; one of a node that is not there is passed over.
Hears(view, pair) ==
  IF {pair[1], pair[2]} \subseteq Ids
    THEN [view EXCEPT ![pair[2]].syncs = Append(@, PeerSync(view[pair[2]], view[pair[1]]))]
    ELSE view

\* The nodes after all of them.
Gossiped ==
  LET after[n \in 0 .. Len(schedule)] ==
        IF n = 0 THEN nodes ELSE Hears(after[n - 1], schedule[n])
  IN  after[Len(schedule)]

Eligible(sync) == sync.status \in {"IN_SYNC", "AHEAD"}

\* build_recovery_requests: the nodes that ask.
Requesters ==
  {i \in Ids :
     LET syncs == nodes[i].syncs
     IN  /\ \E k \in DOMAIN syncs : Eligible(syncs[k])
         /\ \/ Last(syncs).status \in {"NEEDS_RECOVERY", "STALE"}
            \/ Last(syncs).status = "BEHIND" /\ Last(syncs).remote - Last(syncs).local >= StaleThreshold}

\* match_recovery_responses: the nodes that may answer, of which the first does.
Providers(i) ==
  {j \in Ids \ {i} :
     /\ nodes[j].syncs # <<>> /\ Eligible(Last(nodes[j].syncs))
     /\ nodes[j].height >= nodes[i].height
     /\ nodes[j].root # ZeroRoot}

Provider(i) == CHOOSE j \in Providers(i) : \A k \in Providers(i) : j <= k

\* apply_recovery
Recovered(i) ==
  [height |-> nodes[Provider(i)].height, root |-> nodes[Provider(i)].root,
   syncs |-> <<>>, status |-> nodes[i].status]

-----------------------------------------------------------------------------
(* Coherence (compute_cluster_coherence).                                  *)

\* It was bad once and in sync later.
CameBack(syncs) ==
  \E j, k \in DOMAIN syncs :
    j < k /\ syncs[j].status \in {"NEEDS_RECOVERY", "BEHIND"} /\ syncs[k].status = "IN_SYNC"

\* Fault: every exchange is counted and not every node.
CoherenceOfExchanges ==
  LET Synced(i) == {<<i, k>> : k \in {j \in DOMAIN nodes[i].syncs : nodes[i].syncs[j].status = "IN_SYNC"}}
      inSync == UNION {Synced(i) : i \in Ids}
  IN  [inSync |-> Cardinality(inSync),
       recovered |-> Cardinality({i \in Ids : CameBack(nodes[i].syncs)}),
       consistent |-> Cardinality({i \in Ids : nodes[i].status = "CONSISTENT"}),
       score |-> (Cardinality(inSync) * 100) \div ClusterSize]

InSync == {i \in Ids : nodes[i].syncs # <<>> /\ Last(nodes[i].syncs).status = "IN_SYNC"}

Coherence ==
  [inSync |-> Cardinality(InSync),
   recovered |-> Cardinality({i \in Ids : CameBack(nodes[i].syncs)}),
   consistent |-> Cardinality({i \in Ids : nodes[i].status = "CONSISTENT"}),
   score |-> (Cardinality(InSync) * 100) \div ClusterSize]

-----------------------------------------------------------------------------
(* The phases.                                                             *)

Phase(k) == ticks % 9 = k

EngineStep ==
  /\ Phase(0)
  /\ nodes' = [i \in Ids |-> [height |-> 0, root |-> EngineRoot,
                               syncs |-> nodes[i].syncs, status |-> nodes[i].status]]
  /\ UNCHANGED <<meshEpoch, meshAnchor, announcements, coherence, clusterStable>>

GossipPeerSync ==
  /\ Phase(1)
  /\ nodes' = Gossiped
  /\ UNCHANGED <<meshEpoch, meshAnchor, announcements, coherence, clusterStable>>

\* Requests and providers are those of the view before the first one is applied.
Recovery ==
  /\ Phase(2)
  /\ nodes' = [i \in Ids |->
       IF i \in Requesters /\ Providers(i) # {} THEN Recovered(i) ELSE nodes[i]]
  /\ UNCHANGED <<meshEpoch, meshAnchor, announcements, coherence, clusterStable>>

\* The height of the first node, and the hash of all roots.
MeshEpochBuild ==
  /\ Phase(3)
  /\ meshEpoch' = [height |-> nodes[1].height,
                   root |-> <<"mesh_root", [i \in Ids |-> nodes[i].root]>>]
  /\ UNCHANGED <<nodes, meshAnchor, announcements, coherence, clusterStable>>

\* Fault: the epoch is the one of the anchor before.
MeshAnchorOfOldEpoch ==
  /\ Phase(4)
  /\ meshAnchor' = [meshAnchor EXCEPT !.inSync = Coherence.inSync, !.recovered = Coherence.recovered]
  /\ UNCHANGED <<nodes, meshEpoch, announcements, coherence, clusterStable>>

MeshAnchorBuild ==
  /\ Phase(4)
  /\ meshAnchor' = [epoch |-> meshEpoch, inSync |-> Coherence.inSync, recovered |-> Coherence.recovered]
  /\ UNCHANGED <<nodes, meshEpoch, announcements, coherence, clusterStable>>

StateRootAnnouncements ==
  /\ Phase(5)
  /\ announcements' = [i \in Ids |-> [height |-> nodes[i].height, root |-> nodes[i].root]]
  /\ UNCHANGED <<nodes, meshEpoch, meshAnchor, coherence, clusterStable>>

\* validate_state_roots: a node's root is compared with the root of the mesh.
StateRootValidation ==
  /\ Phase(6)
  /\ nodes' = [i \in Ids |-> [nodes[i] EXCEPT !.status =
       IF i \in DOMAIN announcements /\ announcements[i] = meshAnchor.epoch
         THEN "CONSISTENT" ELSE "INCONSISTENT"]]
  /\ UNCHANGED <<meshEpoch, meshAnchor, announcements, coherence, clusterStable>>

TransportDelivery ==
  /\ Phase(7)
  /\ UNCHANGED <<nodes, meshEpoch, meshAnchor, announcements, coherence, clusterStable>>

CoherenceUpdate ==
  /\ Phase(8)
  /\ coherence' = Coherence
  /\ clusterStable' = (Coherence.score = 100)
  /\ UNCHANGED <<nodes, meshEpoch, meshAnchor, announcements>>

\* run_tick
RunTick ==
  /\ ticks < 9 * MaxCycles
  /\ ticks' = ticks + 1
  /\ ReplayPending
  /\ \/ EngineStep \/ GossipPeerSync \/ Recovery
     \/ MeshEpochBuild \/ MeshAnchorBuild
     \/ StateRootAnnouncements \/ StateRootValidation
     \/ TransportDelivery \/ CoherenceUpdate
  /\ UNCHANGED schedule

\* The scheduler with its header window.
ClusterNext == RunTick \/ (SyncStep /\ UNCHANGED clusterVars)

ClusterSpec == ClusterInit /\ [][ClusterNext]_<<syncVars, clusterVars>>

-----------------------------------------------------------------------------
(* Properties.                                                             *)

\* Every variable has its type, the score is a percentage (global_coherence_score).
ClusterTypeOK ==
  /\ \A i \in Ids :
       /\ nodes[i].height \in Nat
       /\ \A k \in DOMAIN nodes[i].syncs : nodes[i].syncs[k].status \in SyncStatuses
       /\ nodes[i].status \in {"UNKNOWN", "CONSISTENT", "INCONSISTENT"}
  /\ ticks \in 0 .. 9 * MaxCycles
  /\ coherence.score \in 0 .. 100
  /\ clusterStable \in BOOLEAN

Receivers ==
  {schedule[k][2] : k \in {j \in DOMAIN schedule : {schedule[j][1], schedule[j][2]} \subseteq Ids}}

\* After every full cycle the cluster is stable if the gossip reaches every node,
\* whatever the nodes had heard before the first one; and a node that is reached by
\* none spoils it for good once it was recovered, since apply_recovery forgets what
\* it had heard.
StableWhenGossiped ==
  (ticks > 0 /\ Phase(0)) =>
    /\ Receivers = Ids => clusterStable
    /\ (\E i \in Ids \ Receivers : nodes[i].syncs = <<>>) => ~clusterStable

\* The anchor that roots are validated against is the anchor of the nodes as they
\* are: no phase after MESH_EPOCH_BUILD changes a root or a height.
AnchorOfThisCycle ==
  (ticks % 9 \in 5 .. 8) =>
    /\ meshAnchor.epoch.root = <<"mesh_root", [i \in Ids |-> nodes[i].root]>>
    /\ meshAnchor.inSync = Coherence.inSync

\* What one phase of run_tick leaves is what the later ones take it for: gossip makes
\* the cluster stable, and the anchor is that of the nodes.
CycleSound == StableWhenGossiped /\ AnchorOfThisCycle

\* tests/l4/test_state_root_propagation.cpp, "AllNodesConsistent": nodes that all
\* announce the same height and root are CONSISTENT.
AgreeingNodesConsistent ==
  (ticks % 9 \in 7 .. 8 /\ Cardinality({announcements[i] : i \in Ids}) = 1) =>
    \A i \in Ids : nodes[i].status = "CONSISTENT"

=============================================================================
