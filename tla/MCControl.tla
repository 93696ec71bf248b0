----------------------------- MODULE MCControl -----------------------------
(***************************************************************************)
(* What the node knows of Bitcoin and of itself: the reorg detector, the   *)
(* header window and the simulated cluster, the governance pipeline, its   *)
(* compartments and the circuit breaker, the epochs it runs and replays,   *)
(* the audit trail of replayed ticks, and the script interpreter.  TLC     *)
(* explores them one at a time: part says which of them takes steps.       *)
(***************************************************************************)
EXTENDS ReorgDetector, ClusterScheduler, RuntimeProtocol, CircuitBreaker, EpochReplay,
        ScriptMachine, AuditTrail, TLC

CONSTANTS a1, a2, x, y, d1, d2

VARIABLE part

HashSymmetry == Permutations(Hashes) \cup Permutations(AnchorHashes)

\* Two branches after h1 with timestamps out of order, and two headers of version 0.
Header(hash, prev, height, version, timestamp) ==
  [hash |-> hash, prev |-> prev, height |-> height, version |-> version, timestamp |-> timestamp]
MCHeaders ==
  {Header("h1", "g", 1, 1, 5), Header("h2", "h1", 2, 1, 4), Header("h3", "h2", 3, 1, 6),
   Header("k2", "h1", 2, 1, 7), Header("z2", "h1", 2, 0, 7), Header("z4", "k2", 4, 0, 7)}

Sync(status, local, remote) == [status |-> status, local |-> local, remote |-> remote]
Node(syncs) == [height |-> 7, root |-> ZeroRoot, syncs |-> syncs, status |-> "UNKNOWN"]
MCNodes ==
  {Node(<<>>), Node(<<Sync("IN_SYNC", 7, 7)>>),
   Node(<<Sync("AHEAD", 7, 6), Sync("STALE", 7, 99)>>),
   Node(<<Sync("IN_SYNC", 7, 7), Sync("NEEDS_RECOVERY", 7, 7)>>),
   Node(<<Sync("AHEAD", 7, 6), Sync("BEHIND", 7, 15)>>),
   Node(<<Sync("AHEAD", 7, 6), Sync("BEHIND", 7, 9)>>)}
MCSchedules ==
  {<<>>, << <<1, 2>> >>, << <<1, 2>>, <<4, 1>>, <<1, 3>> >>, << <<1, 2>>, <<1, 3>>, <<2, 1>> >>}

Reading(fee, vol, change, lag, share) ==
  [finite |-> TRUE, fee |-> fee, band |-> 10, volatility |-> vol, change |-> change,
   interval |-> 600, lag |-> lag, coherence |-> share]
MCReadings ==
  {Reading(5, 2, 0, 100, 9), Reading(12, 2, 0, 100, 9), Reading(5, 2, 0, 2000, 9),
   Reading(5, 7, 0, 100, 9), Reading(5, 6, 0, 100, 7), Reading(5, 9, 6, 100, 9),
   Reading(5, 9, -6, 100, 9), Reading(16, 9, 0, 4000, 2),
   [Reading(5, 2, 0, 100, 9) EXCEPT !.interval = 1000],
   [Reading(5, 2, 0, 100, 9) EXCEPT !.finite = FALSE]}
MCQuorums == {<<3, 4>>, <<2, 4>>, <<4, 3>>}
MCSystem == [c \in {d1} |-> "ACTIVE"]

\* Epochs on both sides of the tenth, with every pairing of an id and a height.
MCHeights == {18, 20, 21, 22}
Sound(id, height) == [id |-> id, height |-> height, root |-> "canonical", defect |-> "none"]
MCBundles ==
  {Sound(id, height) : id \in 9 .. 11, height \in MCHeights}
    \cup {[Sound(10, 21) EXCEPT !.root = r] : r \in {"foreign", "short"}}
    \cup {[Sound(10, 21) EXCEPT !.defect = d] : d \in {"snapshot", "circuit", "hice"}}
MCEnvironments == {"CI", "DEV"} \X BOOLEAN

\* Any three instructions, and then branches and something for them to test.
MCInstructions == {Plain(op) : op \in Opcodes \ {"PUSH"}} \cup {Push("80"), Push("root")}
MCStacks == {<<>>, <<Bytes("01"), Bytes("00")>>}
ScriptStep ==
  \E inst \in Instructions :
    (Len(script) < 3 \/ inst.op \in {"1", "IF", "ELSE", "ENDIF"}) /\ Step(inst)

ControlInit ==
  /\ DetectorInit /\ ProtocolInit /\ BreakerInit /\ EpochInit /\ ScriptInit /\ AuditInit
  /\ ClusterInit
  /\ part \in {"detector", "headers", "cluster", "evaluation", "compartments", "breaker",
               "epochs", "script", "audit"}
  /\ part # "cluster" =>
       schedule = <<>> /\ \A i \in Ids : nodes[i] = Node(<<>>)
  /\ part # "epochs" => environment = <<"DEV", FALSE>>
  /\ part # "script" => stack = <<>>

controlVars == <<detectorVars, syncVars, clusterVars, protocolVars, breakerVars>>
runtimeVars == <<epochVars, scriptVars, auditVars>>

ControlNext ==
  /\ UNCHANGED part
  /\ \/ /\ part = "detector" /\ DetectorNext
        /\ UNCHANGED <<syncVars, clusterVars, protocolVars, breakerVars, runtimeVars>>
     \/ /\ part = "headers" /\ SyncStep
        /\ UNCHANGED <<detectorVars, clusterVars, protocolVars, breakerVars, runtimeVars>>
     \/ /\ part \in {"headers", "cluster"} /\ RunTick
        /\ UNCHANGED <<detectorVars, protocolVars, breakerVars, runtimeVars>>
     \/ /\ part = "evaluation" /\ EvaluationStep
        /\ UNCHANGED <<detectorVars, syncVars, clusterVars, breakerVars, runtimeVars>>
     \/ /\ part = "compartments" /\ CompartmentStep
        /\ UNCHANGED <<detectorVars, syncVars, clusterVars, breakerVars, runtimeVars>>
     \/ /\ part = "breaker" /\ BreakerNext
        /\ UNCHANGED <<detectorVars, syncVars, clusterVars, protocolVars, runtimeVars>>
     \/ part = "epochs" /\ EpochNext /\ UNCHANGED <<controlVars, scriptVars, auditVars>>
     \/ part = "script" /\ ScriptStep /\ UNCHANGED <<controlVars, epochVars, auditVars>>
     \/ part = "audit" /\ AuditNext /\ UNCHANGED <<controlVars, epochVars, scriptVars>>

ControlSpec == ControlInit /\ [][ControlNext]_<<controlVars, runtimeVars, part>>

\* Every variable of the part that takes steps has its type, and windows and logs keep
\* their lengths; the variables of the other parts do not change.
ControlTypeOK ==
  /\ part = "detector" => DetectorTypeOK
  /\ part \in {"headers", "cluster"} => SyncTypeOK /\ ClusterTypeOK
  /\ part \in {"evaluation", "compartments"} => ProtocolTypeOK
  /\ part = "breaker" => BreakerTypeOK
  /\ part = "epochs" => EpochTypeOK
  /\ part = "script" => ScriptTypeOK
  /\ part = "audit" => AuditTypeOK

=============================================================================
