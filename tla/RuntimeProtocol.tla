-------------------------- MODULE RuntimeProtocol --------------------------
(***************************************************************************)
(* The governance pipeline of the trust layer (src/ailee): posture,        *)
(* interpretation, approval gate, ALCOA ledger and compartments, as        *)
(* RuntimeProtocol::evaluate_and_record calls them.                        *)
(*                                                                         *)
(* Fractions are integers: scores are counted in halves, volatility and    *)
(* coherence in tenths.  A fee band is at least 1, so that the clamping of *)
(* the posture engine does nothing.  A hash is what was hashed; texts are  *)
(* left out, as is what the gate and the ledger only copy.                 *)
(***************************************************************************)
EXTENDS Integers, Sequences, SequencesExt, Maps

CONSTANTS
  Readings,          \* posture inputs: records [finite, fee, band, volatility,
                     \* change, interval, lag, coherence]
  Quorums,           \* pairs <<quorum_count, total_validators>>
  MinQuorum,         \* min_quorum_threshold
  Compartments,
  SystemCompartments,  \* those of the constructor, with the states it forces
  MaxEntries         \* bound on the ledger

States == {"ISOLATED", "MONITORED", "ACTIVE", "SUSPENDED", "QUARANTINED"}

ASSUME RuntimeAssumption ==
  /\ MinQuorum \in Nat \ {0} /\ MaxEntries \in Nat
  /\ IsMap(SystemCompartments, Compartments, States)
  /\ \A r \in Readings :
       /\ r.finite \in BOOLEAN /\ r.band \in Nat \ {0} /\ r.fee \in Int /\ r.lag \in Int
       /\ r.coherence \in 0 .. 10 /\ r.volatility \in 0 .. 10

MaxPostureScore == 5      \* 2.5
MinCoherence == 7         \* 0.70

VARIABLES
  alcoa,             \* ledger_entries_
  healthy,           \* healthy of the last RuntimeState
  evaluated,         \* history: the last reading, or <<>>
  compartments,      \* compartments_: the state of each
  stages             \* history: states of each since it was last QUARANTINED or forced

protocolVars == <<alcoa, healthy, evaluated, compartments, stages>>

Genesis == <<>>

ProtocolInit ==
  /\ alcoa = <<>> /\ healthy = TRUE /\ evaluated = <<>>
  /\ compartments = SystemCompartments
  /\ stages = [c \in DOMAIN SystemCompartments |-> States]

-----------------------------------------------------------------------------
(* The pure parts of the pipeline.                                         *)

\* PostureEngine::evaluate, in halves.
Score(r) ==
  LET fee == IF 2 * r.fee > 3 * r.band THEN 6 ELSE IF r.fee > r.band THEN 3 ELSE 0
      volatility == IF r.volatility > 8 THEN 6 ELSE IF r.volatility >= 6 THEN 3 ELSE 0
      deviation == IF r.interval < 300 \/ r.interval > 900 THEN 4 ELSE 0
      delay == IF r.lag > 1800 THEN 4 ELSE 0
  IN  IF fee + volatility + deviation + delay > 20 THEN 20 ELSE fee + volatility + deviation + delay

Posture(r) ==
  IF r.finite THEN [score |-> Score(r), coherence |-> r.coherence]
  ELSE [score |-> 20, coherence |-> 0]

\* The order of the tests: a calm market is CHOP whatever the score is.
Regime(r) ==
  CASE ~r.finite -> "STRESS"
    [] r.finite /\ r.volatility > 7 /\ r.change > 5 -> "PARABOLIC"
    [] r.finite /\ r.volatility > 7 /\ r.change < -5 -> "RISK_OFF"
    [] r.finite /\ r.volatility < 3 -> "CHOP"
    [] OTHER -> IF Score(r) >= 14 THEN "STRESS"
                ELSE IF Score(r) < 6 /\ r.coherence > 8 THEN "RECOVERY" ELSE "NEUTRAL"

\* Fault: the delay of a block is not looked at.
InterpretWithoutDelay(r) ==
  IF Posture(r).coherence < 3 THEN "CRITICAL_ISOLATION"
  ELSE IF r.fee > r.band THEN "MEMPOOL_CONGESTION"
  ELSE IF r.volatility > 6 THEN "ELEVATED_VOLATILITY" ELSE "NOMINAL"

\* InterpretationEngine::interpret, with the coherence of the posture.
Interpret(r) ==
  IF r.lag > 3600 \/ Posture(r).coherence < 3 THEN "CRITICAL_ISOLATION"
  ELSE IF r.lag > 1800 THEN "TEMPORAL_DRIFT"
  ELSE IF r.fee > r.band THEN "MEMPOOL_CONGESTION"
  ELSE IF r.volatility > 6 THEN "ELEVATED_VOLATILITY" ELSE "NOMINAL"

\* ApprovalGate::evaluate_factors, with the posture of this pipeline.
Approved(r, quorum, signatures, zk) ==
  /\ quorum[1] >= MinQuorum /\ quorum[2] >= MinQuorum /\ quorum[1] <= quorum[2]
  /\ signatures /\ zk
  /\ Posture(r).score <= MaxPostureScore
  /\ Posture(r).coherence >= MinCoherence

-----------------------------------------------------------------------------
(* The ledger.                                                             *)

LastId == IF alcoa = <<>> THEN Genesis ELSE Last(alcoa).id

\* record_entry: the id is the hash of the entry, its parent included.
Recorded(attributable, r) ==
  LET content == [parent |-> LastId, attributable |-> attributable, finite |-> r.finite,
                  score |-> Posture(r).score, regime |-> Regime(r)]
  IN  Append(alcoa, [content |-> content, id |-> content])

\* verify_entry of the first entry with this id.
VerifyEntry(id) ==
  \E i \in DOMAIN alcoa :
    /\ alcoa[i].id = id /\ \A j \in 1 .. i - 1 : alcoa[j].id # id
    /\ alcoa[i].content.attributable /\ alcoa[i].content.finite
    /\ alcoa[i].content = id

VerifyChain ==
  \A i \in DOMAIN alcoa :
    /\ VerifyEntry(alcoa[i].id)
    /\ alcoa[i].content.parent = IF i = 1 THEN Genesis ELSE alcoa[i - 1].id

\* Fault: evidence that is not finite is recorded too.
EvaluateAndRecordAll(r, quorum, signatures, zk, attributable) ==
  /\ Len(alcoa) < MaxEntries
  /\ evaluated' = r
  /\ alcoa' = Recorded(attributable, r)
  /\ healthy' = (r.finite /\ Approved(r, quorum, signatures, zk) /\ Interpret(r) = "NOMINAL")
  /\ UNCHANGED <<compartments, stages>>

\* attributable: neither the operator's id nor the signature is empty, which is not
\* asked of the caller.
EvaluateAndRecord(r, quorum, signatures, zk, attributable) ==
  /\ Len(alcoa) < MaxEntries
  /\ evaluated' = r
  /\ alcoa' = IF r.finite THEN Recorded(attributable, r) ELSE alcoa
  /\ healthy' = (r.finite /\ Approved(r, quorum, signatures, zk) /\ Interpret(r) = "NOMINAL")
  /\ UNCHANGED <<compartments, stages>>

-----------------------------------------------------------------------------
(* The compartments.                                                       *)

\* The states a compartment may be moved to (is_valid_transition).
Successors ==
  [ISOLATED |-> {"MONITORED", "QUARANTINED"},
   MONITORED |-> {"ACTIVE", "ISOLATED", "SUSPENDED", "QUARANTINED"},
   ACTIVE |-> {"MONITORED", "SUSPENDED", "QUARANTINED"},
   SUSPENDED |-> {"MONITORED", "ISOLATED", "QUARANTINED"},
   QUARANTINED |-> {"ISOLATED"}]

\* Fault: a quarantined compartment may be resumed.
TransitionWithResume(current, target) ==
  \/ current = target \/ target \in Successors[current]
  \/ current = "QUARANTINED" /\ target = "SUSPENDED"

IsValidTransition(current, target) == current = target \/ target \in Successors[current]

\* Fault: the state of the new record is not set.
RegisterWithoutState(c) ==
  /\ c \notin DOMAIN compartments
  /\ compartments' = Put(compartments, c, "UNKNOWN")
  /\ stages' = Put(stages, c, {"ISOLATED"})
  /\ UNCHANGED <<alcoa, healthy, evaluated>>

RegisterCompartment(c) ==
  /\ c \notin DOMAIN compartments
  /\ compartments' = Put(compartments, c, "ISOLATED")
  /\ stages' = Put(stages, c, {"ISOLATED"})
  /\ UNCHANGED <<alcoa, healthy, evaluated>>

TransitionState(c, target, force) ==
  /\ c \in DOMAIN compartments
  /\ force \/ IsValidTransition(compartments[c], target)
  /\ compartments' = [compartments EXCEPT ![c] = target]
  /\ stages' = [stages EXCEPT ![c] =
       IF force THEN States ELSE IF target = "QUARANTINED" THEN {} ELSE @ \cup {target}]
  /\ UNCHANGED <<alcoa, healthy, evaluated>>

EvaluationStep ==
  \E r \in Readings, quorum \in Quorums, signatures, zk, attributable \in BOOLEAN :
    EvaluateAndRecord(r, quorum, signatures, zk, attributable)

CompartmentStep ==
  \/ \E c \in Compartments : RegisterCompartment(c)
  \/ \E c \in Compartments, target \in States, force \in BOOLEAN : TransitionState(c, target, force)

ProtocolNext == EvaluationStep \/ CompartmentStep

ProtocolSpec == ProtocolInit /\ [][ProtocolNext]_protocolVars

-----------------------------------------------------------------------------
(* Properties.                                                             *)

\* Every variable has its type, and no entry is recorded beyond the bound.
ProtocolTypeOK ==
  /\ Len(alcoa) <= MaxEntries
  /\ \A i \in DOMAIN alcoa : alcoa[i].content.score \in 0 .. 20
  /\ healthy \in BOOLEAN
  /\ IsMap(compartments, Compartments, States)
  /\ IsMap(stages, Compartments, SUBSET States)

\* evaluate_and_record: "rejected before append rather than poisoning the chain": the
\* ledger verifies, whatever evidence was evaluated, as long as operators sign.
ChainNotPoisoned ==
  (\A i \in DOMAIN alcoa : alcoa[i].content.attributable) => VerifyChain

\* The posture, the interpretation and the gate agree: a node that calls itself
\* healthy saw a block within half an hour, a fee in its band, a market that is not
\* volatile and a coherent signal.
HealthyMeansCalm ==
  (healthy /\ evaluated # <<>>) =>
    /\ evaluated.finite /\ evaluated.lag <= 1800
    /\ evaluated.fee <= evaluated.band
    /\ evaluated.volatility <= 6
    /\ evaluated.coherence >= MinCoherence

\* A compartment that was quarantined is active again only after it was isolated and
\* monitored, unless a transition was forced (is_valid_transition).
ActiveOnlyAfterWatch ==
  \A c \in DOMAIN compartments :
    compartments[c] = "ACTIVE" => {"ISOLATED", "MONITORED"} \subseteq stages[c]

\* The pipeline and its compartments: no evaluation spoils the ledger, "healthy" is
\* said of a calm node only, and quarantine ends by way of isolation and monitoring.
GovernanceSound == ChainNotPoisoned /\ HealthyMeansCalm /\ ActiveOnlyAfterWatch

=============================================================================
