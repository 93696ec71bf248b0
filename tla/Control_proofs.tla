---------------------------- MODULE Control_proofs ----------------------------
(***************************************************************************)
(* What the node decides about itself, for any length of time and any      *)
(* limits: the circuit breaker, the governance pipeline with its           *)
(* compartments, the audit trail, the window of Bitcoin headers, the       *)
(* cluster that ticks over it and the replay buffer of the epochs; and     *)
(* about all of them, with the interpreter, side by side.                  *)
(***************************************************************************)
EXTENDS MCControl, ReorgDetector_proofs, Script_proofs, DataTheorems

-----------------------------------------------------------------------------
(* The circuit breaker.  A run of low readings is shorter than the time    *)
(* since the last transition: both grow by one with a block, and the       *)
(* transition of a surge ends the run.                                     *)

RunInv ==
  /\ lastTransition + lowRun < block
  /\ lowRun > 0 => lastState = "SOFT_TRIP"

BreakerInv == BreakerTypeOK /\ RunInv /\ LowEnergyEscalates

LEMMA BreakerInvInit == BreakerInit => BreakerInv
BY BreakerAssumption DEF BreakerInit, BreakerInv, BreakerTypeOK, RunInv, LowEnergyEscalates

LEMMA BreakerInvNext == BreakerInv /\ [BreakerNext]_breakerVars => BreakerInv'
<1> SUFFICES ASSUME BreakerInv, [BreakerNext]_breakerVars PROVE BreakerInv'
  OBVIOUS
<1>1. /\ Hysteresis \in Nat /\ Hysteresis > 1 /\ MaxBlocks \in Nat
      /\ lastTransition \in Nat /\ block \in Nat /\ lowRun \in Nat
      /\ block <= MaxBlocks /\ lastTransition + lowRun < block /\ lowRun < Hysteresis
      /\ lowRun > 0 => lastState = "SOFT_TRIP"
      /\ lastState \in {"OPTIMIZED", "SOFT_TRIP", "SAFE_MODE"}
  BY BreakerAssumption DEF BreakerInv, BreakerTypeOK, RunInv, LowEnergyEscalates
<1>2. CASE UNCHANGED breakerVars
  BY <1>2 DEF breakerVars, BreakerInv, BreakerTypeOK, RunInv, LowEnergyEscalates
<1>3. ASSUME NEW reading \in SUBSET Signals, Monitor(reading)
      PROVE  BreakerInv'
  <2>1. block < MaxBlocks /\ block' = block + 1
    BY <1>3 DEF Monitor
  <2>2. CASE "low" \in reading /\ reading \cap {"red", "surge"} = {} /\ lastState' = "SOFT_TRIP"
    <3>1. lowRun' = lowRun + 1 /\ Escalate
      BY <1>3, <2>2 DEF Monitor
    <3>2. lastTransition' = lastTransition /\ ~(lastState = "SOFT_TRIP" /\ AllowTransition)
      BY <2>2, <3>1 DEF Escalate
    <3>3. lowRun' < Hysteresis
      <4>1. CASE lastState # "SOFT_TRIP"
        BY <1>1, <3>1, <4>1
      <4>2. CASE ~AllowTransition
        BY <1>1, <3>1, <4>2 DEF AllowTransition
      <4> QED BY <3>2, <4>1, <4>2
    <3> QED
      BY <1>1, <2>1, <2>2, <3>1, <3>2, <3>3
      DEF BreakerInv, BreakerTypeOK, RunInv, LowEnergyEscalates
  <2>3. CASE ~("low" \in reading /\ reading \cap {"red", "surge"} = {} /\ lastState' = "SOFT_TRIP")
    <3>1. lowRun' = 0
      BY <1>3, <2>3 DEF Monitor
    <3>2. lastTransition' \in {lastTransition, block}
      BY <1>3 DEF Monitor, Surge, Escalate
    <3>3. lastState' \in {"OPTIMIZED", "SOFT_TRIP", "SAFE_MODE"}
      BY <1>1, <1>3 DEF Monitor, Surge, Escalate
    <3>4. /\ lastTransition' \in 0 .. MaxBlocks /\ lastTransition' + lowRun' < block'
          /\ lastTransition' <= block' /\ block' \in 1 .. MaxBlocks
          /\ lowRun' \in Nat /\ lowRun' < Hysteresis /\ ~(lowRun' > 0)
      <4>1. PICK n \in Nat : lastTransition' = n /\ n <= block
        BY <1>1, <3>2
      <4> QED BY <1>1, <2>1, <3>1, <4>1
    <3> QED
      BY <3>3, <3>4 DEF BreakerInv, BreakerTypeOK, RunInv, LowEnergyEscalates
  <2> QED BY <2>2, <2>3
<1> QED BY <1>2, <1>3 DEF BreakerNext

\* The breaker never reaches CRITICAL, and its last transition lies in the past.
THEOREM BreakerTypeCorrect == BreakerSpec => []BreakerTypeOK
<1>1. BreakerInv => BreakerTypeOK
  BY DEF BreakerInv
<1> QED BY <1>1, BreakerInvInit, BreakerInvNext, PTL DEF BreakerSpec

\* monitor: an energy score that stays low escalates to SAFE_MODE before the
\* hysteresis is over, for every hysteresis of two blocks or more.
THEOREM LowEnergyIsEscalated == BreakerSpec => []LowEnergyEscalates
<1>1. BreakerInv => LowEnergyEscalates
  BY DEF BreakerInv
<1> QED BY <1>1, BreakerInvInit, BreakerInvNext, PTL DEF BreakerSpec

-----------------------------------------------------------------------------
(* The governance pipeline.  The ledger only grows at its end, by entries  *)
(* whose id is the hash of their content and whose parent is the last id;  *)
(* what a compartment went through can be read off its state.              *)

LedgerInv ==
  /\ \E S : alcoa \in Seq(S)
  /\ Len(alcoa) <= MaxEntries
  /\ \A i \in DOMAIN alcoa :
       /\ alcoa[i].content = alcoa[i].id /\ alcoa[i].content.finite
       /\ alcoa[i].content.score \in 0 .. 20
       /\ alcoa[i].content.parent = IF i = 1 THEN Genesis ELSE alcoa[i - 1].id

Watched(state, past) ==
  /\ state # "QUARANTINED" => "ISOLATED" \in past
  /\ state \in {"MONITORED", "ACTIVE"} => "MONITORED" \in past

CompartmentsInv ==
  /\ IsMap(compartments, Compartments, States)
  /\ IsMap(stages, Compartments, SUBSET States)
  /\ DOMAIN stages = DOMAIN compartments
  /\ \A c \in DOMAIN compartments : Watched(compartments[c], stages[c])

ProtocolInv ==
  healthy \in BOOLEAN /\ LedgerInv /\ HealthyMeansCalm /\ CompartmentsInv

LEMMA ProtocolInvInit == ProtocolInit => ProtocolInv
<1> SUFFICES ASSUME ProtocolInit PROVE ProtocolInv
  OBVIOUS
<1>1. LedgerInv
  <2>1. alcoa \in Seq(Nat) /\ Len(alcoa) = 0 /\ DOMAIN alcoa = {}
    BY DEF ProtocolInit
  <2> QED BY <2>1, RuntimeAssumption DEF LedgerInv
<1>2. CompartmentsInv
  BY RuntimeAssumption DEF ProtocolInit, CompartmentsInv, IsMap, Watched, States
<1> QED
  BY <1>1, <1>2 DEF ProtocolInit, ProtocolInv, HealthyMeansCalm

\* evaluate: the score of a posture is at most 10.
LEMMA PostureScore ==
  ASSUME NEW r \in Readings
  PROVE  Posture(r).score \in 0 .. 20
<1>1. Score(r) \in 0 .. 20
  BY DEF Score
<1>2. r.finite => Posture(r).score = Score(r)
  BY DEF Posture
<1>3. ~r.finite => Posture(r).score = 20
  BY DEF Posture
<1> QED BY <1>1, <1>2, <1>3

LEMMA LedgerGrows ==
  ASSUME LedgerInv, Len(alcoa) < MaxEntries, NEW r \in Readings, NEW attributable \in BOOLEAN,
         r.finite, alcoa' = Recorded(attributable, r)
  PROVE  LedgerInv'
<1> DEFINE content == [parent |-> LastId, attributable |-> attributable, finite |-> r.finite,
                       score |-> Posture(r).score, regime |-> Regime(r)]
           entry == [content |-> content, id |-> content]
<1>1. /\ entry.content = content /\ entry.id = content /\ content.parent = LastId
      /\ content.finite = r.finite /\ content.score = Posture(r).score
  OBVIOUS
<1>2. alcoa' = Append(alcoa, entry)
  BY DEF Recorded
<1> HIDE DEF entry, content
<1>3. PICK S : alcoa \in Seq(S)
  BY DEF LedgerInv
<1>4. PICK n \in Nat : n = Len(alcoa)
  BY <1>3
<1>5. alcoa \in Seq(S \cup {entry})
  BY <1>3
<1>6. /\ alcoa' \in Seq(S \cup {entry}) /\ Len(alcoa') = n + 1 /\ DOMAIN alcoa' = 1 .. n + 1
      /\ alcoa'[n + 1] = entry /\ \A i \in 1 .. n : alcoa'[i] = alcoa[i]
      /\ DOMAIN alcoa = 1 .. n
  BY <1>2, <1>4, <1>5
<1>7. LastId = IF n = 0 THEN Genesis ELSE alcoa[n].id
  BY <1>3, <1>4 DEF LastId, Last
<1>8. ASSUME NEW i \in 1 .. n + 1
      PROVE  /\ alcoa'[i].content = alcoa'[i].id /\ alcoa'[i].content.finite
             /\ alcoa'[i].content.score \in 0 .. 20
             /\ alcoa'[i].content.parent = IF i = 1 THEN Genesis ELSE alcoa'[i - 1].id
  <2>1. CASE i \in 1 .. n
    <3>1. i # 1 => alcoa'[i - 1] = alcoa[i - 1]
      BY <1>6, <2>1
    <3> QED BY ZenonT(30), <1>6, <2>1, <3>1 DEF LedgerInv
  <2>2. CASE i = n + 1
    <3>1. n # 0 => alcoa'[i - 1] = alcoa[n]
      BY <1>6, <2>2
    <3>2. i = 1 <=> n = 0
      BY <2>2
    <3>3. alcoa'[i].content.parent = IF i = 1 THEN Genesis ELSE alcoa'[i - 1].id
      BY <1>1, <1>6, <1>7, <2>2, <3>1, <3>2
    <3>4. alcoa'[i].content.score \in 0 .. 20
      BY <1>1, <1>6, <2>2, PostureScore
    <3> QED BY <1>1, <1>6, <2>2, <3>3, <3>4
  <2> QED BY <2>1, <2>2
<1>9. Len(alcoa') <= MaxEntries
  BY <1>4, <1>6, RuntimeAssumption
<1> QED BY <1>6, <1>8, <1>9 DEF LedgerInv

\* ApprovalGate and InterpretationEngine, of a reading they both let pass.
LEMMA HealthyReading ==
  ASSUME NEW r \in Readings, r.finite, Interpret(r) = "NOMINAL",
         Posture(r).coherence >= MinCoherence
  PROVE  /\ r.lag <= 1800 /\ r.fee <= r.band /\ r.volatility <= 6
         /\ r.coherence >= MinCoherence
<1>1. /\ r.band \in Int /\ r.fee \in Int /\ r.lag \in Int
      /\ r.coherence \in Int /\ r.volatility \in Int
  BY RuntimeAssumption
<1>2. Posture(r).coherence = r.coherence
  BY DEF Posture
<1>3. ~(r.lag > 1800) /\ ~(r.fee > r.band) /\ ~(r.volatility > 6)
  BY DEF Interpret
<1> QED BY <1>1, <1>2, <1>3

LEMMA EvaluationKeeps ==
  ASSUME ProtocolInv, EvaluationStep
  PROVE  ProtocolInv'
<1>1. PICK r \in Readings, quorum \in Quorums, signatures \in BOOLEAN, zk \in BOOLEAN,
           attributable \in BOOLEAN : EvaluateAndRecord(r, quorum, signatures, zk, attributable)
  BY DEF EvaluationStep
<1>2. LedgerInv'
  <2>1. CASE r.finite
    BY <1>1, <2>1, LedgerGrows DEF EvaluateAndRecord, ProtocolInv
  <2>2. CASE ~r.finite
    BY <1>1, <2>2 DEF EvaluateAndRecord, ProtocolInv, LedgerInv
  <2> QED BY <2>1, <2>2
<1>3. HealthyMeansCalm'
  <2>1. evaluated' = r
    BY <1>1 DEF EvaluateAndRecord
  <2>2. healthy' => /\ r.finite /\ Interpret(r) = "NOMINAL"
                    /\ Posture(r).coherence >= MinCoherence
    BY <1>1 DEF EvaluateAndRecord, Approved
  <2>3. healthy' => /\ r.finite /\ r.lag <= 1800 /\ r.fee <= r.band /\ r.volatility <= 6
                    /\ r.coherence >= MinCoherence
    BY <2>2, HealthyReading
  <2> QED BY <2>1, <2>3 DEF HealthyMeansCalm
<1>4. healthy' \in BOOLEAN
  BY <1>1, RuntimeAssumption DEF EvaluateAndRecord
<1>5. CompartmentsInv'
  BY <1>1 DEF EvaluateAndRecord, ProtocolInv, CompartmentsInv
<1> QED BY <1>2, <1>3, <1>4, <1>5 DEF ProtocolInv

\* is_valid_transition: what a compartment has seen grows with the state it enters.
LEMMA TransitionWatched ==
  ASSUME NEW state \in States, NEW target \in States, NEW past \in SUBSET States,
         Watched(state, past), IsValidTransition(state, target), target # "QUARANTINED"
  PROVE  Watched(target, past \cup {target})
<1>1. CASE state = target
  BY <1>1 DEF Watched
<1>2. CASE target \in Successors[state]
  BY <1>2 DEF Watched, Successors, States
<1> QED BY <1>1, <1>2 DEF IsValidTransition

LEMMA CompartmentsKept ==
  ASSUME ProtocolInv, CompartmentStep
  PROVE  ProtocolInv'
<1>1. CompartmentsInv
  BY DEF ProtocolInv
<1>2. ASSUME NEW c \in Compartments, RegisterCompartment(c)
      PROVE  CompartmentsInv'
  <2>1. /\ compartments' = Put(compartments, c, "ISOLATED")
        /\ stages' = Put(stages, c, {"ISOLATED"})
        /\ "ISOLATED" \in States
    BY <1>2 DEF RegisterCompartment, States
  <2>2. /\ DOMAIN compartments' = DOMAIN compartments \cup {c}
        /\ \A k \in DOMAIN compartments' :
             compartments'[k] = IF k = c THEN "ISOLATED" ELSE compartments[k]
        /\ IsMap(compartments', Compartments, States)
    BY <1>1, <2>1 DEF Put, IsMap, CompartmentsInv
  <2>3. /\ DOMAIN stages' = DOMAIN stages \cup {c}
        /\ \A k \in DOMAIN stages' : stages'[k] = IF k = c THEN {"ISOLATED"} ELSE stages[k]
        /\ IsMap(stages', Compartments, SUBSET States)
    BY <1>1, <2>1 DEF Put, IsMap, CompartmentsInv
  <2>4. ASSUME NEW k \in DOMAIN compartments' PROVE Watched(compartments'[k], stages'[k])
    BY <1>1, <2>2, <2>3 DEF CompartmentsInv, Watched
  <2> QED BY <1>1, <2>2, <2>3, <2>4 DEF CompartmentsInv
<1>3. ASSUME NEW c \in Compartments, NEW target \in States, NEW force \in BOOLEAN,
             TransitionState(c, target, force)
      PROVE  CompartmentsInv'
  <2> DEFINE past == IF force THEN States
                     ELSE IF target = "QUARANTINED" THEN {} ELSE stages[c] \cup {target}
  <2>1. /\ c \in DOMAIN compartments /\ c \in DOMAIN stages
        /\ compartments[c] \in States /\ stages[c] \in SUBSET States
        /\ Watched(compartments[c], stages[c])
    BY <1>1, <1>3 DEF TransitionState, CompartmentsInv, IsMap
  <2>2. past \in SUBSET States /\ Watched(target, past)
    <3>1. CASE force
      BY <3>1 DEF Watched, States
    <3>2. CASE ~force /\ target = "QUARANTINED"
      BY <3>2 DEF Watched
    <3>3. CASE ~force /\ target # "QUARANTINED"
      BY <1>3, <2>1, <3>3, TransitionWatched DEF TransitionState
    <3> QED BY <3>1, <3>2, <3>3
  <2>3. /\ compartments' = [compartments EXCEPT ![c] = target]
        /\ stages' = [stages EXCEPT ![c] = past]
    BY <1>3 DEF TransitionState
  <2> HIDE DEF past
  <2>4. /\ DOMAIN compartments' = DOMAIN compartments /\ DOMAIN stages' = DOMAIN stages
        /\ compartments'[c] = target /\ stages'[c] = past
        /\ \A k \in DOMAIN compartments \ {c} :
             compartments'[k] = compartments[k] /\ stages'[k] = stages[k]
        /\ IsMap(compartments', Compartments, States)
        /\ IsMap(stages', Compartments, SUBSET States)
    BY <1>1, <2>1, <2>2, <2>3 DEF CompartmentsInv, IsMap
  <2>5. ASSUME NEW k \in DOMAIN compartments PROVE Watched(compartments'[k], stages'[k])
    BY <1>1, <2>2, <2>4 DEF CompartmentsInv
  <2> QED BY <1>1, <2>4, <2>5 DEF CompartmentsInv
<1>4. UNCHANGED <<alcoa, healthy, evaluated>>
  BY DEF CompartmentStep, RegisterCompartment, TransitionState
<1>5. healthy' \in BOOLEAN /\ LedgerInv' /\ HealthyMeansCalm'
  BY <1>4 DEF ProtocolInv, LedgerInv, HealthyMeansCalm
<1> QED BY <1>2, <1>3, <1>5 DEF CompartmentStep, ProtocolInv

LEMMA ProtocolInvNext == ProtocolInv /\ [ProtocolNext]_protocolVars => ProtocolInv'
<1> SUFFICES ASSUME ProtocolInv, [ProtocolNext]_protocolVars PROVE ProtocolInv'
  OBVIOUS
<1>1. CASE UNCHANGED protocolVars
  BY <1>1 DEF protocolVars, ProtocolInv, LedgerInv, HealthyMeansCalm, CompartmentsInv
<1> QED BY <1>1, EvaluationKeeps, CompartmentsKept DEF ProtocolNext

\* verify_entry looks for the first entry with an id: there is one, and all entries
\* with the same id have the same content.
LEMMA LedgerVerifies == LedgerInv => ChainNotPoisoned
<1> SUFFICES ASSUME LedgerInv, \A i \in DOMAIN alcoa : alcoa[i].content.attributable
             PROVE  VerifyChain
  BY DEF ChainNotPoisoned
<1>1. PICK S : alcoa \in Seq(S)
  BY DEF LedgerInv
<1>2. ASSUME NEW i \in DOMAIN alcoa PROVE VerifyEntry(alcoa[i].id)
  <2> DEFINE Same == {j \in DOMAIN alcoa : alcoa[j].id = alcoa[i].id}
  <2>1. Same \in SUBSET Nat /\ i \in Same
    BY <1>1
  <2>2. PICK n \in Same : \A m \in Same : n <= m
    <3> HIDE DEF Same
    <3> QED BY <2>1, LeastNatural
  <2>3. n \in DOMAIN alcoa /\ alcoa[n].id = alcoa[i].id
    OBVIOUS
  <2>4. \A j \in 1 .. n - 1 : alcoa[j].id # alcoa[i].id
    BY <1>1, <2>2, <2>3
  <2> QED BY <2>3, <2>4 DEF LedgerInv, VerifyEntry
<1> QED BY <1>2 DEF LedgerInv, VerifyChain

\* Every variable of the pipeline has its type, and scores are in their range.
THEOREM ProtocolTypeCorrect == ProtocolSpec => []ProtocolTypeOK
<1>1. ProtocolInv => ProtocolTypeOK
  BY DEF ProtocolInv, LedgerInv, CompartmentsInv, ProtocolTypeOK
<1> QED BY <1>1, ProtocolInvInit, ProtocolInvNext, PTL DEF ProtocolSpec

\* For every threshold, every evidence and any number of compartments: no evaluation
\* spoils the ledger, only a calm node is called healthy, and quarantine ends by way
\* of isolation and monitoring.
THEOREM GovernanceIsSound == ProtocolSpec => []GovernanceSound
<1>1. ProtocolInv => GovernanceSound
  <2>1. CompartmentsInv => ActiveOnlyAfterWatch
    BY DEF CompartmentsInv, ActiveOnlyAfterWatch, Watched
  <2> QED BY <2>1, LedgerVerifies DEF ProtocolInv, GovernanceSound
<1> QED BY <1>1, ProtocolInvInit, ProtocolInvNext, PTL DEF ProtocolSpec

-----------------------------------------------------------------------------
(* The audit trail.  The ticks on disk are a rising sequence; what is      *)
(* still to come is above all of them.  A rotation that is under way has   *)
(* left a gap where the next file moves to.                                *)

Rising(s) == \A i \in 1 .. Len(s) - 1 : s[i] < s[i + 1]
Below(s, bound) == \A i \in 1 .. Len(s) : s[i] < bound

LEMMA RisingParts ==
  ASSUME NEW u \in Seq(Nat), NEW s \in Seq(Nat), Rising(u \o s)
  PROVE  Rising(s) /\ Rising(u)
<1> DEFINE w == u \o s
<1>1. /\ Len(w) = Len(u) + Len(s) /\ Len(u) \in Nat /\ Len(s) \in Nat
      /\ \A i \in 1 .. Len(u) : w[i] = u[i]
      /\ \A i \in 1 .. Len(s) : w[Len(u) + i] = s[i]
  OBVIOUS
<1>2. \A i \in 1 .. Len(w) - 1 : w[i] < w[i + 1]
  BY DEF Rising
<1> HIDE DEF w
<1>3. ASSUME NEW i \in 1 .. Len(s) - 1 PROVE s[i] < s[i + 1]
  <2>1. /\ i \in 1 .. Len(s) /\ i + 1 \in 1 .. Len(s)
        /\ Len(u) + i \in 1 .. Len(w) - 1 /\ (Len(u) + i) + 1 = Len(u) + (i + 1)
    BY <1>1
  <2>2. w[Len(u) + i] = s[i] /\ w[Len(u) + (i + 1)] = s[i + 1]
    BY <1>1, <2>1
  <2> QED BY <1>2, <2>1, <2>2
<1>4. ASSUME NEW i \in 1 .. Len(u) - 1 PROVE u[i] < u[i + 1]
  <2>1. i \in 1 .. Len(u) /\ i + 1 \in 1 .. Len(u) /\ i \in 1 .. Len(w) - 1
    BY <1>1
  <2> QED BY <1>1, <1>2, <2>1
<1> QED BY <1>3, <1>4 DEF Rising

LEMMA BelowParts ==
  ASSUME NEW u \in Seq(Nat), NEW s \in Seq(Nat), NEW bound, Below(u \o s, bound)
  PROVE  Below(s, bound) /\ Below(u, bound)
<1> DEFINE w == u \o s
<1>1. /\ Len(w) = Len(u) + Len(s) /\ Len(u) \in Nat /\ Len(s) \in Nat
      /\ \A i \in 1 .. Len(u) : w[i] = u[i]
      /\ \A i \in 1 .. Len(s) : w[Len(u) + i] = s[i]
  OBVIOUS
<1>2. \A i \in 1 .. Len(w) : w[i] < bound
  BY DEF Below
<1> HIDE DEF w
<1>3. ASSUME NEW i \in 1 .. Len(s) PROVE s[i] < bound
  <2>1. Len(u) + i \in 1 .. Len(w)
    BY <1>1
  <2> QED BY <1>1, <1>2, <2>1
<1>4. ASSUME NEW i \in 1 .. Len(u) PROVE u[i] < bound
  <2>1. i \in 1 .. Len(w)
    BY <1>1
  <2> QED BY <1>1, <1>2, <2>1
<1> QED BY <1>3, <1>4 DEF Below

LEMMA RisingAppend ==
  ASSUME NEW s \in Seq(Nat), NEW t \in Nat, Rising(s), Below(s, t)
  PROVE  /\ Append(s, t) \in Seq(Nat) /\ Rising(Append(s, t))
         /\ \A bound \in Nat : t < bound /\ Below(s, bound) => Below(Append(s, t), bound)
<1> DEFINE w == Append(s, t)
<1>1. /\ Len(w) = Len(s) + 1 /\ Len(s) \in Nat /\ w \in Seq(Nat)
      /\ \A i \in 1 .. Len(s) : w[i] = s[i]
      /\ w[Len(s) + 1] = t
  OBVIOUS
<1> HIDE DEF w
<1>2. ASSUME NEW i \in 1 .. Len(w) - 1 PROVE w[i] < w[i + 1]
  <2>1. CASE i = Len(s)
    <3>1. i \in 1 .. Len(s)
      BY <1>1, <2>1
    <3> QED BY <1>1, <2>1, <3>1 DEF Below
  <2>2. CASE i # Len(s)
    <3>1. i \in 1 .. Len(s) /\ i + 1 \in 1 .. Len(s) /\ i \in 1 .. Len(s) - 1
      BY <1>1, <2>2
    <3> QED BY <1>1, <3>1 DEF Rising
  <2> QED BY <2>1, <2>2
<1>3. ASSUME NEW bound \in Nat, t < bound, Below(s, bound) PROVE Below(w, bound)
  <2>1. ASSUME NEW i \in 1 .. Len(w) PROVE w[i] < bound
    <3>1. i \in 1 .. Len(s) \/ i = Len(s) + 1
      BY <1>1
    <3> QED BY <1>1, <1>3, <3>1 DEF Below
  <2> QED BY <2>1 DEF Below
<1> QED BY <1>1, <1>2, <1>3 DEF Rising, w

LEMMA ReverseElements ==
  ASSUME NEW s \in Seq(Nat)
  PROVE  /\ Reverse(s) \in Seq(Nat) /\ Len(Reverse(s)) = Len(s)
         /\ \A i \in 1 .. Len(s) : Reverse(s)[i] = s[(Len(s) - i) + 1]
<1>1. PICK n \in Nat : n = Len(s)
  OBVIOUS
<1>2. \A i \in 1 .. n : (n - i) + 1 \in 1 .. n
  OBVIOUS
<1>3. \A i \in 1 .. n : s[i] \in Nat
  BY <1>1
<1>4. [i \in 1 .. n |-> s[(n - i) + 1]] \in Seq(Nat)
  BY <1>2, <1>3
<1>5. Reverse(s) = [i \in 1 .. n |-> s[(n - i) + 1]]
  BY <1>1 DEF Reverse
<1> QED BY <1>1, <1>4, <1>5

\* The end of a sequence is a suffix of it.
LEMMA EndIsSuffix ==
  ASSUME NEW u \in Seq(Nat), NEW s \in Seq(Nat)
  PROVE  IsSuffix(s, u \o s)
<1>1. u \o s \in Seq(Nat)
  OBVIOUS
<1>2. PICK w \in Seq(Nat) : w = u \o s
  BY <1>1
<1>3. PICK n \in Nat : n = Len(s)
  OBVIOUS
<1>4. PICK m \in Nat : m = Len(u)
  OBVIOUS
<1>5. Len(w) = m + n /\ \A i \in 1 .. n : w[m + i] = s[i]
  BY <1>2, <1>3, <1>4
<1>6. /\ Reverse(s) \in Seq(Nat) /\ Len(Reverse(s)) = n
      /\ \A i \in 1 .. n : Reverse(s)[i] = s[(n - i) + 1]
  BY <1>3, ReverseElements
<1>a. PICK k \in Nat : k = Len(w)
  OBVIOUS
<1>7. /\ Reverse(w) \in Seq(Nat) /\ Len(Reverse(w)) = k /\ k = m + n
      /\ \A i \in 1 .. k : Reverse(w)[i] = w[(k - i) + 1]
  BY <1>5, <1>a, ReverseElements
<1>8. ASSUME NEW i \in 1 .. n PROVE Reverse(s)[i] = Reverse(w)[i]
  <2>a. k = m + n
    BY <1>7
  <2>1. i \in 1 .. k /\ (n - i) + 1 \in 1 .. n /\ (k - i) + 1 = m + ((n - i) + 1)
    BY <2>a
  <2> QED BY <1>5, <1>6, <1>7, <2>1
<1>9. SubSeq(Reverse(s), 1, n) = SubSeq(Reverse(w), 1, n)
  <2>1. PICK a \in Seq(Nat) : a = Reverse(s)
    BY <1>6
  <2>2. PICK b \in Seq(Nat) : b = Reverse(w)
    BY <1>7
  <2>3. \A i \in 1 .. n : a[i] \in Nat /\ b[i] \in Nat /\ a[i] = b[i]
    <3>1. Len(a) = n /\ Len(b) = k /\ \A i \in 1 .. n : i \in 1 .. k
      BY <1>6, <1>7, <2>1, <2>2
    <3>2. \A i \in 1 .. n : a[i] = b[i]
      BY <1>8, <2>1, <2>2
    <3> QED BY <3>1, <3>2
  <2>4. /\ SubSeq(a, 1, n) \in Seq(Nat) /\ Len(SubSeq(a, 1, n)) = n
        /\ \A i \in 1 .. n : SubSeq(a, 1, n)[i] = a[i]
    BY <2>3
  <2>5. /\ SubSeq(b, 1, n) \in Seq(Nat) /\ Len(SubSeq(b, 1, n)) = n
        /\ \A i \in 1 .. n : SubSeq(b, 1, n)[i] = b[i]
    BY <2>3
  <2>6. SubSeq(a, 1, n) = SubSeq(b, 1, n)
    BY <2>3, <2>4, <2>5, SeqEqual
  <2> QED BY <2>1, <2>2, <2>6
<1> QED
  BY <1>2, <1>6, <1>7, <1>9 DEF IsSuffix, IsPrefix

Files == {Absent, Unreadable} \cup {Stored(ticksOf) : ticksOf \in Seq(Nat)}

Busy == auditAt \in {"size", "write", "rename"} \cup {"move2", "move1", "move0"}

\* What will be written after all that is on disk.
Coming ==
  {ticksSeen + 1} \cup ToSet(auditQueue) \cup (IF Busy THEN {auditTick} ELSE {})

QueueInv ==
  /\ auditQueue \in Seq(1 .. MaxAuditTicks) /\ Len(auditQueue) <= AuditQueueLimit
  /\ ticksSeen \in 0 .. MaxAuditTicks /\ auditRunning \in BOOLEAN
  /\ auditAt \in {"wait", "ended", "size", "write", "rename", "move2", "move1", "move0"}
  /\ auditTick \in 0 .. ticksSeen
  /\ \A i, j \in DOMAIN auditQueue : i < j => auditQueue[i] < auditQueue[j]
  /\ \A i \in DOMAIN auditQueue :
       auditQueue[i] <= ticksSeen /\ (Busy => auditTick < auditQueue[i])
  /\ auditAt = "ended" => ~auditRunning /\ ToSet(auditQueue) \subseteq late

RotationInv ==
  /\ auditFiles \in [0 .. 3 -> Files]
  /\ \A n \in 0 .. 3 : auditFiles[n] = Unreadable => spoilt
  /\ auditAt = "move1" => auditFiles[2] = Absent
  /\ auditAt = "move0" => auditFiles[1] = Absent
  /\ ~spoilt /\ auditAt \in {"move2", "move1", "move0"} =>
       Len(auditFiles[0].ticks) >= AuditFileLimit
  /\ auditAt = "rename" =>
       auditTmp \in {Unreadable, Stored(Append(auditFiles[0].ticks, auditTick))}

\* disk is the end of all, and not a short one.
EndOf(disk, all) ==
  /\ \E old \in Seq(Nat) : all = old \o disk
  /\ Len(disk) >= AuditFileLimit \/ disk = all

DiskInv ==
  /\ trail \in Seq(Nat) /\ spoilt \in BOOLEAN
  /\ Rising(OnDisk)
  /\ \A bound \in Coming : Below(OnDisk, bound)
  /\ spoilt \/ EndOf(OnDisk, trail)

AuditInv == QueueInv /\ RotationInv /\ DiskInv

LEMMA FileTypes ==
  /\ \A file \in Files : file.ticks \in Seq(Nat)
  /\ Absent \in Files /\ Unreadable \in Files /\ Absent # Unreadable
  /\ Absent.ticks = <<>> /\ Unreadable.ticks = <<>>
  /\ \A ticksOf \in Seq(Nat) :
       Stored(ticksOf) \in Files /\ Stored(ticksOf) # Unreadable /\ Stored(ticksOf) # Absent
       /\ Stored(ticksOf).ticks = ticksOf
<1>1. ASSUME NEW ticksOf \in Seq(Nat)
      PROVE  /\ Stored(ticksOf) \in Files /\ Stored(ticksOf).ticks = ticksOf
             /\ Stored(ticksOf) # Unreadable /\ Stored(ticksOf) # Absent
  <2>1. Stored(ticksOf) \in Files
    BY DEF Files
  <2>2. /\ Stored(ticksOf).kind = "list" /\ Stored(ticksOf).ticks = ticksOf
        /\ Unreadable.kind = "unreadable" /\ Absent.kind = "absent"
    BY DEF Stored, Unreadable, Absent
  <2> QED BY <2>1, <2>2
<1>2. /\ Absent.ticks = <<>> /\ Unreadable.ticks = <<>>
      /\ Absent.kind = "absent" /\ Unreadable.kind = "unreadable"
  BY DEF Absent, Unreadable
<1>3. Absent \in Files /\ Unreadable \in Files
  BY DEF Files
<1>4. ASSUME NEW file \in Files PROVE file.ticks \in Seq(Nat)
  <2>1. file = Absent \/ file = Unreadable \/ \E ticksOf \in Seq(Nat) : file = Stored(ticksOf)
    BY DEF Files
  <2>2. <<>> \in Seq(Nat)
    OBVIOUS
  <2> QED BY <1>1, <1>2, <2>1, <2>2
<1> QED BY <1>1, <1>2, <1>3, <1>4

LEMMA AuditInvInit == AuditInit => AuditInv
<1> SUFFICES ASSUME AuditInit PROVE AuditInv
  OBVIOUS
<1>1. \A n \in 0 .. 3 : auditFiles[n] = Absent
  BY DEF AuditInit
<1>2. auditFiles \in [0 .. 3 -> Files]
  BY FileTypes DEF AuditInit
<1>3. OnDisk = <<>>
  <2>1. \A n \in 0 .. 3 : auditFiles[n].ticks = <<>>
    BY <1>1, FileTypes
  <2> QED BY <2>1 DEF OnDisk
<1>4. QueueInv
  <2>1. auditQueue = <<>> /\ auditTick = 0 /\ ticksSeen = 0 /\ auditRunning = TRUE /\ auditAt = "wait"
    BY DEF AuditInit
  <2>2. /\ auditQueue \in Seq(1 .. MaxAuditTicks) /\ Len(auditQueue) = 0 /\ DOMAIN auditQueue = {}
    BY <2>1
  <2> QED BY <2>1, <2>2, AuditAssumption DEF QueueInv
<1>5. RotationInv
  BY <1>1, <1>2, FileTypes DEF AuditInit, RotationInv
<1>6. DiskInv
  <2>1. Rising(OnDisk) /\ \A bound \in Coming : Below(OnDisk, bound)
    BY <1>3 DEF Rising, Below
  <2>2. EndOf(OnDisk, trail) /\ trail \in Seq(Nat)
    <3>1. trail = <<>> \o OnDisk /\ trail = OnDisk /\ <<>> \in Seq(Nat)
      BY <1>3 DEF AuditInit
    <3> QED BY <3>1 DEF EndOf, AuditInit
  <2> QED BY <2>1, <2>2 DEF DiskInv, AuditInit
<1> QED BY <1>4, <1>5, <1>6 DEF AuditInv

\* The queue and the worker: a new tick is above all that are queued, and the one
\* that is taken is below the rest.
LEMMA QueueInvNext ==
  ASSUME QueueInv, [AuditNext]_auditVars
  PROVE  QueueInv'
<1>1. /\ auditQueue \in Seq(1 .. MaxAuditTicks) /\ Len(auditQueue) \in Nat
      /\ ticksSeen \in Nat /\ MaxAuditTicks \in Nat /\ AuditQueueLimit \in Nat
      /\ auditTick \in Nat /\ DOMAIN auditQueue = 1 .. Len(auditQueue)
  BY AuditAssumption DEF QueueInv
<1>2. CASE UNCHANGED <<auditQueue, auditRunning, auditTick, ticksSeen, late>> /\
           auditAt' \in {"wait", "size", "write", "rename", "move2", "move1", "move0"} /\
           (Busy' => Busy) /\ auditAt' # "ended"
  BY <1>2 DEF QueueInv
<1>3. CASE UNCHANGED auditVars
  BY <1>3 DEF auditVars, QueueInv, Busy
<1>4. CASE EnqueueTick
  <2> DEFINE n == Len(auditQueue)
  <2>1. PICK t \in 1 .. MaxAuditTicks : t = ticksSeen + 1
    BY <1>1, <1>4 DEF EnqueueTick
  <2>2. ticksSeen' = t /\ auditQueue' \in {auditQueue, Append(auditQueue, t)}
    BY <1>4, <2>1 DEF EnqueueTick, Queued
  <2>3. Len(auditQueue') <= AuditQueueLimit
    BY <1>1, <1>4 DEF EnqueueTick, Queued, QueueInv
  <2>4. auditAt' = auditAt /\ auditTick' = auditTick /\ auditRunning' = auditRunning /\ (Busy' <=> Busy)
    BY <1>4 DEF EnqueueTick, Busy
  <2>5. auditAt = "ended" => ToSet(auditQueue') \subseteq late'
    <3>1. ToSet(auditQueue') \subseteq ToSet(auditQueue) \cup {t}
      <4>1. ToSet(Append(auditQueue, t)) = ToSet(auditQueue) \cup {t}
        BY <1>1, AppendElements
      <4> QED BY <2>2, <4>1
    <3>2. late' = IF auditRunning THEN late ELSE late \cup {t}
      BY <1>4, <2>1 DEF EnqueueTick
    <3>3. auditAt = "ended" => ~auditRunning /\ ToSet(auditQueue) \subseteq late
      BY DEF QueueInv
    <3> QED BY <3>1, <3>2, <3>3
  <2>6. auditTick <= ticksSeen /\ \A i \in 1 .. n : auditQueue[i] <= ticksSeen /\ auditQueue[i] \in Nat
    BY <1>1 DEF QueueInv
  <2>7. CASE auditQueue' = auditQueue
    BY <1>1, <2>1, <2>2, <2>3, <2>4, <2>5, <2>6, <2>7 DEF QueueInv
  <2>8. CASE auditQueue' = Append(auditQueue, t)
    <3>1. /\ auditQueue' \in Seq(1 .. MaxAuditTicks) /\ Len(auditQueue') = n + 1
          /\ DOMAIN auditQueue' = 1 .. n + 1 /\ auditQueue'[n + 1] = t
          /\ \A i \in 1 .. n : auditQueue'[i] = auditQueue[i]
      BY <1>1, <2>8
    <3>2. ASSUME NEW i \in 1 .. n + 1, NEW j \in 1 .. n + 1, i < j
          PROVE  auditQueue'[i] < auditQueue'[j]
      <4>1. i \in 1 .. n
        BY <1>1, <3>2
      <4>2. CASE j \in 1 .. n
        BY <1>1, <3>1, <3>2, <4>1, <4>2 DEF QueueInv
      <4>3. CASE j = n + 1
        BY <1>1, <2>1, <2>6, <3>1, <4>1, <4>3
      <4> QED BY <1>1, <4>2, <4>3
    <3>3. ASSUME NEW i \in 1 .. n + 1
          PROVE  auditQueue'[i] <= t /\ (Busy => auditTick < auditQueue'[i])
      <4>1. CASE i \in 1 .. n
        <5>1. auditQueue'[i] = auditQueue[i] /\ auditQueue[i] <= t
          BY <1>1, <2>1, <2>6, <3>1, <4>1
        <5> QED BY <1>1, <4>1, <5>1 DEF QueueInv
      <4>2. CASE i = n + 1
        BY <1>1, <2>1, <2>6, <3>1, <4>2
      <4> QED BY <1>1, <4>1, <4>2
    <3>4. auditTick' \in 0 .. ticksSeen' /\ ticksSeen' \in 0 .. MaxAuditTicks
      BY <1>1, <2>1, <2>2, <2>4, <2>6
    <3> HIDE DEF n
    <3> QED BY <2>2, <2>3, <2>4, <2>5, <3>1, <3>2, <3>3, <3>4 DEF QueueInv
  <2> QED BY <2>2, <2>7, <2>8
<1>5. CASE StopAudit
  BY <1>5 DEF StopAudit, QueueInv, Busy
<1>6. CASE TakeTick
  <2> DEFINE n == Len(auditQueue)
  <2>1. /\ auditQueue # <<>> /\ auditTick' = Head(auditQueue) /\ auditQueue' = Tail(auditQueue)
        /\ auditAt' = "size" /\ ticksSeen' = ticksSeen /\ auditRunning' = auditRunning
    BY <1>6 DEF TakeTick
  <2>2. n >= 1 /\ auditTick' = auditQueue[1] /\ 1 \in 1 .. n
    BY <1>1, <2>1
  <2>3. /\ auditQueue' \in Seq(1 .. MaxAuditTicks) /\ Len(auditQueue') = n - 1
        /\ DOMAIN auditQueue' = 1 .. n - 1
        /\ \A i \in 1 .. n - 1 : auditQueue'[i] = auditQueue[i + 1]
    BY <1>1, <2>1
  <2>4. \A i \in 1 .. n - 1 : i + 1 \in 1 .. n /\ 1 < i + 1
    BY <1>1
  <2>5. ASSUME NEW i \in 1 .. n - 1
        PROVE  auditQueue'[i] <= ticksSeen /\ auditTick' < auditQueue'[i]
    BY <1>1, <2>2, <2>3, <2>4 DEF QueueInv
  <2>6. ASSUME NEW i \in 1 .. n - 1, NEW j \in 1 .. n - 1, i < j
        PROVE  auditQueue'[i] < auditQueue'[j]
    <3>1. i + 1 < j + 1
      BY <1>1, <2>6
    <3> QED BY <1>1, <2>3, <2>4, <3>1 DEF QueueInv
  <2>7. auditTick' \in 0 .. ticksSeen
    <3>1. auditQueue[1] \in Nat /\ auditQueue[1] <= ticksSeen
      BY <1>1, <2>2 DEF QueueInv
    <3> QED BY <1>1, <2>2, <3>1
  <2>8. Len(auditQueue') <= AuditQueueLimit
    BY <1>1, <2>3 DEF QueueInv
  <2> HIDE DEF n
  <2> QED BY <2>1, <2>3, <2>5, <2>6, <2>7, <2>8 DEF QueueInv
<1>7. CASE EndAudit
  <2>1. /\ auditQueue = <<>> /\ ~auditRunning /\ auditAt' = "ended"
        /\ UNCHANGED <<auditQueue, auditRunning, auditTick, ticksSeen>>
    BY <1>7 DEF EndAudit, MayEnd
  <2>2. ToSet(auditQueue') = {} /\ DOMAIN auditQueue' = {}
    BY <2>1 DEF ToSet
  <2> QED BY <2>1, <2>2 DEF QueueInv
<1>8. CASE TestSize \/ MoveFile \/ WriteTmp \/ RenameTmp
  <2>1. /\ UNCHANGED <<auditQueue, auditRunning, auditTick, ticksSeen, late>>
        /\ auditAt' \in {"wait", "size", "write", "rename", "move2", "move1", "move0"}
        /\ Busy
    BY <1>8 DEF TestSize, MoveFile, WriteTmp, RenameTmp, MoveOrder, Busy
  <2> QED BY <1>2, <2>1
<1>9. CASE AuditCrash
  <2>1. /\ auditQueue' = <<>> /\ auditTick' = 0 /\ auditRunning' = TRUE /\ auditAt' = "wait"
        /\ ticksSeen' = ticksSeen
    BY <1>9 DEF AuditCrash
  <2>2. auditQueue' \in Seq(1 .. MaxAuditTicks) /\ Len(auditQueue') = 0 /\ DOMAIN auditQueue' = {}
    BY <2>1
  <2> QED BY <1>1, <2>1, <2>2 DEF QueueInv
<1> QED BY <1>3, <1>4, <1>5, <1>6, <1>7, <1>8, <1>9 DEF AuditNext, WorkerStep

LEMMA TicksAssociative ==
  ASSUME NEW s \in Seq(Nat), NEW t \in Seq(Nat), NEW u \in Seq(Nat)
  PROVE  (s \o t) \o u = s \o (t \o u)
BY SMTT(30), ConcatAssociative

DiskOf(files) ==
  files[3].ticks \o files[2].ticks \o files[1].ticks \o files[0].ticks

LEMMA DiskOfType ==
  ASSUME NEW files \in [0 .. 3 -> Files]
  PROVE  /\ DiskOf(files) \in Seq(Nat) /\ Len(DiskOf(files)) >= Len(files[0].ticks)
         /\ Len(files[0].ticks) \in Nat
<1>1. /\ files[3].ticks \in Seq(Nat) /\ files[2].ticks \in Seq(Nat)
      /\ files[1].ticks \in Seq(Nat) /\ files[0].ticks \in Seq(Nat)
  BY FileTypes
<1>2. PICK head \in Seq(Nat) : head = files[3].ticks \o files[2].ticks \o files[1].ticks
  <2>1. files[3].ticks \o files[2].ticks \in Seq(Nat)
    BY <1>1
  <2>2. files[3].ticks \o files[2].ticks \o files[1].ticks \in Seq(Nat)
    BY <1>1, <2>1
  <2> QED BY <2>2
<1>3. head \o files[0].ticks \in Seq(Nat) /\ Len(head \o files[0].ticks) = Len(head) + Len(files[0].ticks)
  BY <1>1
<1>4. PICK n \in Nat : n = Len(head)
  OBVIOUS
<1>5. PICK m \in Nat : m = Len(files[0].ticks)
  BY <1>1
<1>6. DiskOf(files) = head \o files[0].ticks
  BY <1>2 DEF DiskOf
<1>7. n + m >= m
  OBVIOUS
<1>8. DiskOf(files) \in Seq(Nat) /\ Len(DiskOf(files)) = n + m
  BY <1>3, <1>4, <1>5, <1>6
<1> QED BY <1>5, <1>7, <1>8

\* The files after one step of rotateFiles: a gap moves down, and nothing is lost
\* but the oldest file.
LEMMA MovedFiles ==
  ASSUME NEW files \in [0 .. 3 -> Files], NEW n \in {0, 1, 2}
  PROVE  /\ Moved(files, n) \in [0 .. 3 -> Files]
         /\ Moved(files, n)[n] = Absent
         /\ n # 0 => Moved(files, n)[0] = files[0]
         /\ \A k \in 0 .. 3 :
              Moved(files, n)[k] = Absent \/ \E j \in 0 .. 3 : Moved(files, n)[k] = files[j]
<1>1. CASE files[n] = Absent
  BY <1>1 DEF Moved
<1>2. CASE files[n] # Absent
  <2>1. Moved(files, n) = [files EXCEPT ![n + 1] = files[n], ![n] = Absent]
    BY <1>2 DEF Moved
  <2>2. n \in 0 .. 3 /\ n + 1 \in 0 .. 3 /\ n # n + 1 /\ (n # 0 => 0 # n /\ 0 # n + 1)
    OBVIOUS
  <2>3. Absent \in Files /\ files[n] \in Files
    BY <2>2, FileTypes
  <2>4. ASSUME NEW k \in 0 .. 3
        PROVE  Moved(files, n)[k] = IF k = n THEN Absent ELSE IF k = n + 1 THEN files[n] ELSE files[k]
    BY <2>1, <2>2
  <2>5. Moved(files, n) \in [0 .. 3 -> Files]
    BY <2>1, <2>2, <2>3
  <2> QED BY <2>2, <2>4, <2>5
<1> QED BY <1>1, <1>2

LEMMA MovedDisk ==
  ASSUME NEW files \in [0 .. 3 -> Files], NEW n \in {0, 1, 2},
         n # 2 => files[n + 1] = Absent
  PROVE  \/ DiskOf(Moved(files, n)) = DiskOf(files)
         \/ n = 2 /\ \E old \in Seq(Nat) : DiskOf(files) = old \o DiskOf(Moved(files, n))
<1>1. CASE files[n] = Absent
  BY <1>1 DEF Moved
<1>2. CASE files[n] # Absent
  <2> DEFINE moved == Moved(files, n)
  <2>1. moved = [files EXCEPT ![n + 1] = files[n], ![n] = Absent]
    BY <1>2 DEF Moved
  <2>2. PICK a \in Seq(Nat) : a = files[3].ticks
    BY FileTypes
  <2>3. PICK b \in Seq(Nat) : b = files[2].ticks
    BY FileTypes
  <2>4. PICK c \in Seq(Nat) : c = files[1].ticks
    BY FileTypes
  <2>5. PICK d \in Seq(Nat) : d = files[0].ticks
    BY FileTypes
  <2>6. DiskOf(files) = ((a \o b) \o c) \o d
    BY <2>2, <2>3, <2>4, <2>5 DEF DiskOf
  <2>7. CASE n = 2
    <3>1. moved[3] = files[2] /\ moved[2] = Absent /\ moved[1] = files[1] /\ moved[0] = files[0]
      BY <2>1, <2>7
    <3> HIDE DEF moved
    <3>2. DiskOf(moved) = ((b \o <<>>) \o c) \o d
      BY <2>3, <2>4, <2>5, <3>1, FileTypes DEF DiskOf
    <3>3. b \o <<>> = b
      BY ConcatEmptySeq
    <3>4. b \o c \in Seq(Nat) /\ (b \o c) \o d \in Seq(Nat)
      BY ConcatProperties
    <3>5. (a \o b) \o c = a \o (b \o c)
      BY SMTT(30), TicksAssociative
    <3>a. PICK e \in Seq(Nat) : e = b \o c
      BY <3>4
    <3>b. (a \o e) \o d = a \o (e \o d)
      BY ZenonT(30), TicksAssociative
    <3>6. (a \o (b \o c)) \o d = a \o ((b \o c) \o d)
      BY <3>a, <3>b
    <3> QED BY <2>6, <2>7, <3>2, <3>3, <3>5, <3>6 DEF moved
  <2>8. CASE n = 1
    <3>1. moved[3] = files[3] /\ moved[2] = files[1] /\ moved[1] = Absent /\ moved[0] = files[0]
      BY <2>1, <2>8
    <3> HIDE DEF moved
    <3>2. DiskOf(moved) = ((a \o c) \o <<>>) \o d
      BY <2>2, <2>4, <2>5, <3>1, FileTypes DEF DiskOf
    <3>3. b = <<>>
      BY <2>3, <2>8, FileTypes
    <3>4. a \o c \in Seq(Nat)
      BY ConcatProperties
    <3>5. (a \o c) \o <<>> = a \o c /\ a \o <<>> = a
      BY <3>4, ConcatEmptySeq
    <3> QED BY <2>6, <3>2, <3>3, <3>5 DEF moved
  <2>9. CASE n = 0
    <3>1. moved[3] = files[3] /\ moved[2] = files[2] /\ moved[1] = files[0] /\ moved[0] = Absent
      BY <2>1, <2>9
    <3> HIDE DEF moved
    <3>2. DiskOf(moved) = ((a \o b) \o d) \o <<>>
      BY <2>2, <2>3, <2>5, <3>1, FileTypes DEF DiskOf
    <3>3. c = <<>>
      BY <2>4, <2>9, FileTypes
    <3>4. a \o b \in Seq(Nat) /\ (a \o b) \o d \in Seq(Nat)
      BY ConcatProperties
    <3>5. ((a \o b) \o d) \o <<>> = (a \o b) \o d /\ (a \o b) \o <<>> = a \o b
      BY <3>4, ConcatEmptySeq
    <3> QED BY <2>6, <3>2, <3>3, <3>5 DEF moved
  <2> QED BY <2>7, <2>8, <2>9
<1> QED BY <1>1, <1>2

\* The trail is replaced: by itself with one tick more, or by a file cut short.
LEMMA RenamedDisk ==
  ASSUME NEW files \in [0 .. 3 -> Files], NEW tick \in Nat
  PROVE  /\ DiskOf([files EXCEPT ![0] = Stored(Append(files[0].ticks, tick))])
              = Append(DiskOf(files), tick)
         /\ \E cut \in Seq(Nat) :
              DiskOf(files) = DiskOf([files EXCEPT ![0] = Unreadable]) \o cut
<1>2. PICK head \in Seq(Nat) : head = files[3].ticks \o files[2].ticks \o files[1].ticks
  <2>1. files[3].ticks \in Seq(Nat) /\ files[2].ticks \in Seq(Nat) /\ files[1].ticks \in Seq(Nat)
    BY FileTypes
  <2>2. files[3].ticks \o files[2].ticks \in Seq(Nat)
    BY <2>1
  <2>3. files[3].ticks \o files[2].ticks \o files[1].ticks \in Seq(Nat)
    BY <2>1, <2>2
  <2> QED BY <2>3
<1>3. PICK d \in Seq(Nat) : d = files[0].ticks
  BY FileTypes
<1>4. DiskOf(files) = head \o d
  BY <1>2, <1>3 DEF DiskOf
<1>5. ASSUME NEW file
      PROVE  DiskOf([files EXCEPT ![0] = file]) = head \o file.ticks
  <2> DEFINE new == [files EXCEPT ![0] = file]
  <2>1. new[3] = files[3] /\ new[2] = files[2] /\ new[1] = files[1] /\ new[0] = file
    OBVIOUS
  <2> HIDE DEF new
  <2>2. DiskOf(new) = head \o file.ticks
    BY <1>2, <2>1 DEF DiskOf
  <2> QED BY <2>2 DEF new
<1>6. Append(d, tick) \in Seq(Nat) /\ Stored(Append(d, tick)).ticks = Append(d, tick)
  <2>1. Append(d, tick) \in Seq(Nat)
    OBVIOUS
  <2> QED BY <2>1, FileTypes
<1>7. head \o Append(d, tick) = Append(head \o d, tick)
  <2>1. <<tick>> \in Seq(Nat) /\ head \o d \in Seq(Nat)
    OBVIOUS
  <2>2. Append(d, tick) = d \o <<tick>> /\ Append(head \o d, tick) = (head \o d) \o <<tick>>
    BY <2>1, AppendIsConcat
  <2>3. (head \o d) \o <<tick>> = head \o (d \o <<tick>>)
    BY <2>1, TicksAssociative
  <2> QED BY <2>2, <2>3
<1>8. DiskOf([files EXCEPT ![0] = Unreadable]) = head
  <2>1. DiskOf([files EXCEPT ![0] = Unreadable]) = head \o <<>>
    BY <1>5, FileTypes
  <2> QED BY <2>1, ConcatEmptySeq
<1>9. DiskOf([files EXCEPT ![0] = Stored(Append(d, tick))]) = head \o Append(d, tick)
  BY <1>5, <1>6
<1> QED BY <1>3, <1>4, <1>7, <1>8, <1>9

LEMMA RotationInvNext ==
  ASSUME QueueInv, RotationInv, [AuditNext]_auditVars
  PROVE  RotationInv'
<1>1. CASE UNCHANGED <<auditFiles, spoilt>> /\ auditAt' \in {"wait", "ended", "size", "write"}
  BY <1>1 DEF RotationInv
<1>2. CASE UNCHANGED <<auditFiles, auditTmp, auditAt, auditTick, spoilt>>
  BY <1>2 DEF RotationInv
<1>3. CASE EnqueueTick \/ StopAudit \/ UNCHANGED auditVars
  BY <1>2, <1>3 DEF EnqueueTick, StopAudit, diskVars, auditVars
<1>4. CASE TakeTick \/ EndAudit \/ AuditCrash
  BY <1>1, <1>4 DEF TakeTick, EndAudit, AuditCrash, diskVars
<1>5. CASE TestSize
  <2>1. UNCHANGED <<auditFiles, spoilt>> /\ auditAt' \in {"move2", "write"}
    BY <1>5 DEF TestSize, diskVars
  <2>2. CASE auditAt' = "write"
    BY <1>1, <2>1, <2>2
  <2>3. CASE auditAt' = "move2"
    <3>1. TRUE \in FileSizes(auditFiles[0])
      BY <1>5, <2>3 DEF TestSize, FileSizes
    <3>2. auditFiles[0] # Unreadable => Len(auditFiles[0].ticks) >= AuditFileLimit
      BY <3>1 DEF FileSizes
    <3>3. auditFiles[0] = Unreadable => spoilt
      BY DEF RotationInv
    <3>4. ~spoilt => Len(auditFiles[0].ticks) >= AuditFileLimit
      BY <3>2, <3>3
    <3> QED BY <2>1, <2>3, <3>4 DEF RotationInv
  <2> QED BY <2>1, <2>2, <2>3
<1>6. CASE MoveFile
  <2>1. spoilt' = spoilt
    BY <1>6 DEF MoveFile
  <2>2. CASE auditFiles' = auditFiles /\ auditAt' = "write"
    BY <1>1, <2>1, <2>2
  <2>3. ASSUME NEW n \in {0, 1, 2}, auditFiles' = Moved(auditFiles, n)
        PROVE  /\ auditFiles' \in [0 .. 3 -> Files] /\ auditFiles'[n] = Absent
               /\ n # 0 => auditFiles'[0] = auditFiles[0]
               /\ \A k \in 0 .. 3 : auditFiles'[k] = Unreadable => spoilt
    <3>1. auditFiles \in [0 .. 3 -> Files]
      BY DEF RotationInv
    <3>2. /\ auditFiles' \in [0 .. 3 -> Files] /\ auditFiles'[n] = Absent
          /\ n # 0 => auditFiles'[0] = auditFiles[0]
          /\ \A k \in 0 .. 3 :
               auditFiles'[k] = Absent \/ \E j \in 0 .. 3 : auditFiles'[k] = auditFiles[j]
      BY <2>3, <3>1, MovedFiles
    <3> QED BY <3>2, FileTypes DEF RotationInv
  <2>4. CASE auditAt = "move2" /\ auditFiles' = Moved(auditFiles, 2) /\ auditAt' = "move1"
    BY <2>1, <2>3, <2>4 DEF RotationInv
  <2>5. CASE auditAt = "move1" /\ auditFiles' = Moved(auditFiles, 1) /\ auditAt' = "move0"
    BY <2>1, <2>3, <2>5 DEF RotationInv
  <2>6. CASE auditAt = "move0" /\ auditFiles' = Moved(auditFiles, 0) /\ auditAt' = "write"
    BY <2>1, <2>3, <2>6 DEF RotationInv
  <2>7. \/ auditFiles' = auditFiles /\ auditAt' = "write"
        \/ auditAt = "move2" /\ auditFiles' = Moved(auditFiles, 2) /\ auditAt' = "move1"
        \/ auditAt = "move1" /\ auditFiles' = Moved(auditFiles, 1) /\ auditAt' = "move0"
        \/ auditAt = "move0" /\ auditFiles' = Moved(auditFiles, 0) /\ auditAt' = "write"
    BY <1>6 DEF MoveFile, MoveOrder
  <2> QED BY <2>2, <2>4, <2>5, <2>6, <2>7
<1>7. CASE WriteTmp
  <2>1. /\ UNCHANGED <<auditFiles, spoilt, auditTick>>
        /\ \/ auditAt' = "wait"
           \/ /\ auditAt' = "rename"
              /\ auditTmp' \in {Unreadable, Stored(Append(auditFiles[0].ticks, auditTick))}
    BY <1>7 DEF WriteTmp
  <2> QED BY <2>1 DEF RotationInv
<1>8. CASE RenameTmp
  <2>1. auditAt = "rename" /\ auditAt' = "wait"
    BY <1>8 DEF RenameTmp
  <2>2. CASE UNCHANGED diskVars
    BY <1>1, <2>1, <2>2 DEF diskVars
  <2>3. CASE auditFiles' = [auditFiles EXCEPT ![0] = auditTmp] /\
             spoilt' = (spoilt \/ auditTmp = Unreadable)
    <3>1. auditFiles \in [0 .. 3 -> Files] /\ auditFiles[0].ticks \in Seq(Nat) /\ auditTick \in Nat
      BY FileTypes, AuditAssumption DEF RotationInv, QueueInv
    <3>2. Append(auditFiles[0].ticks, auditTick) \in Seq(Nat)
      BY <3>1
    <3>3. auditTmp \in Files
      BY <2>1, <3>2, FileTypes DEF RotationInv
    <3>4. auditFiles' \in [0 .. 3 -> Files]
      BY <2>3, <3>1, <3>3
    <3>5. ASSUME NEW n \in 0 .. 3, auditFiles'[n] = Unreadable PROVE spoilt'
      <4>1. CASE n = 0
        BY <2>3, <3>1, <3>5, <4>1
      <4>2. CASE n # 0
        BY <2>3, <3>1, <3>5, <4>2 DEF RotationInv
      <4> QED BY <4>1, <4>2
    <3> QED BY <2>1, <3>4, <3>5 DEF RotationInv
  <2> QED BY <1>8, <2>2, <2>3 DEF RenameTmp
<1> QED BY <1>3, <1>4, <1>5, <1>6, <1>7, <1>8 DEF AuditNext, WorkerStep

LEMMA OnDiskIs ==
  /\ OnDisk = DiskOf(auditFiles)
  /\ OnDisk' = DiskOf(auditFiles')
BY DEF OnDisk, DiskOf

\* What is to come only grows.
LEMMA ComingTypes ==
  ASSUME QueueInv
  PROVE  Coming \subseteq Nat
<1>1. ToSet(auditQueue) \subseteq Nat
  <2>1. \A i \in DOMAIN auditQueue : auditQueue[i] \in Nat
    BY AuditAssumption DEF QueueInv
  <2> QED BY <2>1 DEF ToSet
<1> QED BY <1>1, AuditAssumption DEF QueueInv, Coming

LEMMA QueuedElements ==
  ASSUME NEW queue \in Seq(1 .. MaxAuditTicks), NEW tick \in 1 .. MaxAuditTicks
  PROVE  ToSet(Append(queue, tick)) = ToSet(queue) \cup {tick}
<1>1. PICK S : S = 1 .. MaxAuditTicks
  OBVIOUS
<1>2. queue \in Seq(S) /\ tick \in S
  BY <1>1
<1> QED BY <1>2, AppendElements

LEMMA ComingNext ==
  ASSUME QueueInv, [AuditNext]_auditVars
  PROVE  \A bound \in Coming' : \E c \in Coming : c <= bound
<1>1. /\ auditQueue \in Seq(1 .. MaxAuditTicks) /\ ticksSeen \in Nat /\ auditTick \in Nat
      /\ ToSet(auditQueue) \subseteq Nat
  <2>1. \A i \in DOMAIN auditQueue : auditQueue[i] \in Nat
    BY AuditAssumption DEF QueueInv
  <2> QED BY <2>1, AuditAssumption DEF QueueInv, ToSet
<1>2. ticksSeen + 1 \in Coming /\ ToSet(auditQueue) \subseteq Coming /\ Coming \subseteq Nat
  BY ComingTypes DEF Coming
<1>3. ASSUME Coming' \subseteq Coming \cup {ticksSeen + 2}
      PROVE  \A bound \in Coming' : \E c \in Coming : c <= bound
  <2>1. ASSUME NEW bound \in Coming' PROVE \E c \in Coming : c <= bound
    <3>1. CASE bound = ticksSeen + 2
      BY <1>1, <1>2, <3>1
    <3>2. CASE bound \in Coming
      BY <1>2, <3>2
    <3> QED BY <1>3, <2>1, <3>1, <3>2
  <2> QED BY <2>1
<1>4. CASE EnqueueTick
  <2>1. /\ ticksSeen' + 1 = ticksSeen + 2 /\ (Busy' <=> Busy) /\ auditTick' = auditTick
        /\ auditQueue' \in {auditQueue, Append(auditQueue, ticksSeen + 1)}
        /\ ticksSeen + 1 \in 1 .. MaxAuditTicks
    BY <1>1, <1>4, AuditAssumption DEF EnqueueTick, Queued, Busy
  <2>2. ToSet(Append(auditQueue, ticksSeen + 1)) = ToSet(auditQueue) \cup {ticksSeen + 1}
    <3>1. PICK t \in 1 .. MaxAuditTicks : t = ticksSeen + 1
      BY <2>1
    <3>2. auditQueue \in Seq(1 .. MaxAuditTicks)
      BY <1>1
    <3>3. ToSet(Append(auditQueue, t)) = ToSet(auditQueue) \cup {t}
      BY <3>2, QueuedElements
    <3> QED BY <3>1, <3>3
  <2>3. ToSet(auditQueue') \subseteq ToSet(auditQueue) \cup {ticksSeen + 1}
    BY <2>1, <2>2
  <2>4. Coming' \subseteq Coming \cup {ticksSeen + 2}
    BY <2>1, <2>3 DEF Coming
  <2> QED BY <1>3, <2>4
<1>5. CASE TakeTick
  <2>1. /\ ticksSeen' = ticksSeen /\ auditQueue # <<>>
        /\ auditTick' = Head(auditQueue) /\ auditQueue' = Tail(auditQueue)
    BY <1>5 DEF TakeTick
  <2>2. auditTick' \in ToSet(auditQueue)
    <3>1. 1 \in DOMAIN auditQueue /\ auditTick' = auditQueue[1]
      BY <1>1, <2>1
    <3> QED BY <3>1 DEF ToSet
  <2>3. ToSet(auditQueue') \subseteq ToSet(auditQueue)
    <3>1. \A i \in DOMAIN auditQueue' : i + 1 \in DOMAIN auditQueue /\ auditQueue'[i] = auditQueue[i + 1]
      BY <1>1, <2>1
    <3> QED BY <3>1 DEF ToSet
  <2>4. Coming' \subseteq Coming
    BY <2>1, <2>2, <2>3 DEF Coming
  <2> QED BY <1>3, <2>4
<1>6. CASE AuditCrash
  <2>1. ticksSeen' = ticksSeen /\ auditQueue' = <<>> /\ ~Busy'
    BY <1>6 DEF AuditCrash, Busy
  <2>2. ToSet(auditQueue') = {}
    BY <2>1 DEF ToSet
  <2>3. Coming' \subseteq Coming
    BY <2>1, <2>2 DEF Coming
  <2> QED BY <1>3, <2>3
<1>7. CASE UNCHANGED <<auditQueue, auditTick, ticksSeen>> /\ (Busy' => Busy)
  <2>1. Coming' \subseteq Coming
    BY <1>7 DEF Coming
  <2> QED BY <1>3, <2>1
<1>8. CASE StopAudit \/ EndAudit \/ UNCHANGED auditVars
  BY <1>7, <1>8 DEF StopAudit, EndAudit, auditVars, Busy
<1>9. CASE TestSize \/ MoveFile \/ WriteTmp \/ RenameTmp
  <2>1. UNCHANGED <<auditQueue, auditTick, ticksSeen>> /\ Busy
    BY <1>9 DEF TestSize, MoveFile, WriteTmp, RenameTmp, MoveOrder, Busy
  <2> QED BY <1>7, <2>1
<1> QED BY <1>4, <1>5, <1>6, <1>8, <1>9 DEF AuditNext, WorkerStep

LEMMA BelowMore ==
  ASSUME NEW s \in Seq(Nat), NEW c \in Nat, NEW bound \in Nat, c <= bound, Below(s, c)
  PROVE  Below(s, bound)
<1>1. ASSUME NEW i \in 1 .. Len(s) PROVE s[i] < bound
  <2>1. s[i] \in Nat /\ s[i] < c
    BY DEF Below
  <2> QED BY <2>1
<1> QED BY <1>1 DEF Below

\* The disk after a step that keeps its content, or forgets the oldest part of it.
LEMMA DiskForgets ==
  ASSUME QueueInv, RotationInv, RotationInv', QueueInv', DiskInv, [AuditNext]_auditVars,
         UNCHANGED <<trail, spoilt>>,
         \/ OnDisk' = OnDisk
         \/ /\ \E old \in Seq(Nat) : OnDisk = old \o OnDisk'
            /\ ~spoilt => Len(OnDisk') >= AuditFileLimit
  PROVE  DiskInv'
<1>1. OnDisk \in Seq(Nat) /\ OnDisk' \in Seq(Nat)
  BY OnDiskIs, DiskOfType DEF RotationInv
<1>2. PICK d \in Seq(Nat) : d = OnDisk
  BY <1>1
<1>3. PICK e \in Seq(Nat) : e = OnDisk'
  BY <1>1
<1>4. Rising(d) /\ (\A c \in Coming : Below(d, c)) /\ (spoilt \/ EndOf(d, trail)) /\ trail \in Seq(Nat)
  BY <1>2 DEF DiskInv
<1>5. \/ e = d
      \/ (\E old \in Seq(Nat) : d = old \o e) /\ (~spoilt => Len(e) >= AuditFileLimit)
  BY <1>2, <1>3
<1>6. Rising(e) /\ \A c \in Coming : Below(e, c)
  <2>1. CASE e = d
    BY <1>4, <2>1
  <2>2. ASSUME NEW old \in Seq(Nat), d = old \o e PROVE Rising(e) /\ \A c \in Coming : Below(e, c)
    <3>1. Rising(e)
      BY <1>4, <2>2, RisingParts
    <3>2. ASSUME NEW c \in Coming PROVE Below(e, c)
      <4>1. Below(old \o e, c)
        BY <1>4, <2>2
      <4> QED BY <4>1, BelowParts
    <3> QED BY <3>1, <3>2
  <2> QED BY <1>5, <2>1, <2>2
<1>7. spoilt \/ EndOf(e, trail)
  <2>1. CASE e = d
    BY <1>4, <2>1
  <2>2. ASSUME NEW old \in Seq(Nat), d = old \o e, ~spoilt, Len(e) >= AuditFileLimit
        PROVE  EndOf(e, trail)
    <3>1. PICK older \in Seq(Nat) : trail = older \o d
      BY <1>4, <2>2 DEF EndOf
    <3>2. older \o (old \o e) = (older \o old) \o e
      BY TicksAssociative
    <3>3. older \o old \in Seq(Nat)
      OBVIOUS
    <3>4. trail = (older \o old) \o e
      BY <2>2, <3>1, <3>2
    <3> QED BY <2>2, <3>3, <3>4 DEF EndOf
  <2> QED BY <1>5, <2>1, <2>2
<1>8. \A bound \in Coming' : Below(e, bound)
  <2>1. Coming \subseteq Nat /\ Coming' \subseteq Nat
    <3>1. Coming \subseteq Nat
      BY ComingTypes
    <3>2. ToSet(auditQueue') \subseteq Nat
      <4>1. \A i \in DOMAIN auditQueue' : auditQueue'[i] \in Nat
        BY AuditAssumption DEF QueueInv
      <4> QED BY <4>1 DEF ToSet
    <3>3. Coming' \subseteq Nat
      BY <3>2, AuditAssumption DEF QueueInv, Coming
    <3> QED BY <3>1, <3>3
  <2>2. ASSUME NEW bound \in Coming' PROVE Below(e, bound)
    <3>1. PICK c \in Coming : c <= bound
      BY ComingNext
    <3> QED BY <1>6, <2>1, <3>1, BelowMore
  <2> QED BY <2>2
<1>9. Rising(OnDisk') /\ (\A bound \in Coming' : Below(OnDisk', bound)) /\ (spoilt \/ EndOf(OnDisk', trail))
  BY <1>3, <1>6, <1>7, <1>8
<1>10. (spoilt \/ EndOf(OnDisk', trail)) <=> (spoilt' \/ EndOf(OnDisk', trail'))
  OBVIOUS
<1> QED BY <1>4, <1>9, <1>10 DEF DiskInv

LEMMA DiskMoves ==
  ASSUME QueueInv, RotationInv, RotationInv', QueueInv', DiskInv, MoveFile
  PROVE  DiskInv'
<1>1. UNCHANGED <<trail, spoilt>> /\ [AuditNext]_auditVars
  BY DEF MoveFile, AuditNext, WorkerStep
<1>2. auditFiles \in [0 .. 3 -> Files] /\ auditFiles' \in [0 .. 3 -> Files]
  BY DEF RotationInv
<1>3. CASE auditFiles' = auditFiles
  <2>1. OnDisk' = OnDisk
    BY <1>3, OnDiskIs
  <2> QED BY <1>1, <2>1, DiskForgets
<1>4. ASSUME NEW n \in {0, 1, 2}, auditFiles' = Moved(auditFiles, n),
             n # 2 => auditFiles[n + 1] = Absent,
             auditAt \in {"move2", "move1", "move0"}
      PROVE  DiskInv'
  <2>1. \/ OnDisk' = OnDisk
        \/ n = 2 /\ \E old \in Seq(Nat) : OnDisk = old \o OnDisk'
    BY <1>2, <1>4, MovedDisk, OnDiskIs
  <2>2. n = 2 => (~spoilt => Len(OnDisk') >= AuditFileLimit)
    <3> SUFFICES ASSUME n = 2, ~spoilt PROVE Len(OnDisk') >= AuditFileLimit
      OBVIOUS
    <3>1. auditFiles'[0] = auditFiles[0]
      BY <1>2, <1>4, MovedFiles
    <3>2. PICK m \in Nat : m = Len(auditFiles'[0].ticks)
      BY <1>2, DiskOfType
    <3>3. m >= AuditFileLimit
      BY <1>4, <3>1, <3>2 DEF RotationInv
    <3>4. OnDisk' \in Seq(Nat) /\ Len(OnDisk') >= m
      BY <1>2, <3>2, DiskOfType, OnDiskIs
    <3>5. PICK k \in Nat : k = Len(OnDisk')
      BY <3>4
    <3> QED BY <3>3, <3>4, <3>5, AuditAssumption
  <2> QED BY <1>1, <2>1, <2>2, DiskForgets
<1>5. \/ auditFiles' = auditFiles
      \/ auditAt = "move2" /\ auditFiles' = Moved(auditFiles, 2)
      \/ auditAt = "move1" /\ auditFiles' = Moved(auditFiles, 1)
      \/ auditAt = "move0" /\ auditFiles' = Moved(auditFiles, 0)
  BY DEF MoveFile, MoveOrder
<1>6. CASE auditAt = "move2" /\ auditFiles' = Moved(auditFiles, 2)
  BY <1>4, <1>6
<1>7. CASE auditAt = "move1" /\ auditFiles' = Moved(auditFiles, 1)
  <2>1. auditFiles[1 + 1] = Absent
    BY <1>7 DEF RotationInv
  <2> QED BY <1>4, <1>7, <2>1
<1>8. CASE auditAt = "move0" /\ auditFiles' = Moved(auditFiles, 0)
  <2>1. auditFiles[0 + 1] = Absent
    BY <1>8 DEF RotationInv
  <2> QED BY <1>4, <1>8, <2>1
<1> QED BY <1>3, <1>5, <1>6, <1>7, <1>8

LEMMA DiskRenamed ==
  ASSUME QueueInv, RotationInv, RotationInv', QueueInv', DiskInv, RenameTmp
  PROVE  DiskInv'
<1>1. /\ auditAt = "rename" /\ auditAt' = "wait"
      /\ UNCHANGED <<auditQueue, auditTick, ticksSeen>> /\ [AuditNext]_auditVars
  BY DEF RenameTmp, AuditNext, WorkerStep
<1>2. CASE UNCHANGED diskVars
  <2>1. OnDisk' = OnDisk /\ UNCHANGED <<trail, spoilt>>
    BY <1>2, OnDiskIs DEF diskVars
  <2> QED BY <1>1, <2>1, DiskForgets
<1>3. CASE /\ auditFiles' = [auditFiles EXCEPT ![0] = auditTmp]
           /\ spoilt' = (spoilt \/ auditTmp = Unreadable)
           /\ trail' = IF auditTmp = Unreadable THEN trail ELSE Append(trail, auditTick)
  <2>1. /\ auditFiles \in [0 .. 3 -> Files] /\ auditTick \in Nat
        /\ auditFiles[0].ticks \in Seq(Nat)
    BY FileTypes, AuditAssumption DEF RotationInv, QueueInv
  <2>2. PICK d \in Seq(Nat) : d = OnDisk
    BY <2>1, OnDiskIs, DiskOfType
  <2>3. /\ Rising(d) /\ (\A c \in Coming : Below(d, c)) /\ (spoilt \/ EndOf(d, trail))
        /\ trail \in Seq(Nat) /\ spoilt \in BOOLEAN
    BY <2>2 DEF DiskInv
  <2>4. /\ Coming' \subseteq Coming /\ Coming \subseteq Nat /\ auditTick \in Coming
        /\ \A bound \in Coming' : auditTick < bound
    <3>1. Busy /\ ~Busy'
      BY <1>1 DEF Busy
    <3>2. /\ Coming = {ticksSeen + 1} \cup ToSet(auditQueue) \cup {auditTick}
          /\ Coming' = {ticksSeen + 1} \cup ToSet(auditQueue)
      BY <1>1, <3>1 DEF Coming
    <3>3. ASSUME NEW bound \in ToSet(auditQueue) PROVE auditTick < bound
      BY <3>1 DEF QueueInv, ToSet
    <3>4. auditTick < ticksSeen + 1
      BY AuditAssumption DEF QueueInv
    <3> QED BY <3>2, <3>3, <3>4, ComingTypes
  <2>5. CASE auditTmp = Unreadable
    <3>1. PICK e \in Seq(Nat) : e = OnDisk'
      <4>1. auditFiles' \in [0 .. 3 -> Files]
        BY DEF RotationInv
      <4> QED BY <4>1, OnDiskIs, DiskOfType
    <3>2. PICK cut \in Seq(Nat) : d = e \o cut
      BY <1>3, <2>1, <2>2, <2>5, <3>1, RenamedDisk, OnDiskIs
    <3>3. Rising(e)
      BY <2>3, <3>2, RisingParts
    <3>4. ASSUME NEW c \in Coming PROVE Below(e, c)
      <4>1. Below(e \o cut, c)
        BY <2>3, <3>2
      <4> QED BY <4>1, BelowParts
    <3>5. /\ Rising(OnDisk') /\ \A bound \in Coming' : Below(OnDisk', bound)
      BY <2>4, <3>1, <3>3, <3>4
    <3> QED BY <1>3, <2>3, <2>5, <3>5 DEF DiskInv
  <2>6. CASE auditTmp # Unreadable
    <3>1. auditTmp = Stored(Append(auditFiles[0].ticks, auditTick))
      BY <1>1, <2>6 DEF RotationInv
    <3>2. OnDisk' = Append(d, auditTick)
      BY <1>3, <2>1, <2>2, <3>1, RenamedDisk, OnDiskIs
    <3>3. /\ Rising(Append(d, auditTick))
          /\ \A bound \in Coming' : Below(Append(d, auditTick), bound)
      BY <2>1, <2>3, <2>4, RisingAppend
    <3>4. Rising(OnDisk') /\ \A bound \in Coming' : Below(OnDisk', bound)
      BY <3>2, <3>3
    <3>5. (spoilt' <=> spoilt) /\ trail' = Append(trail, auditTick)
      BY <1>3, <2>3, <2>6
    <3>6. ASSUME ~spoilt PROVE EndOf(Append(d, auditTick), Append(trail, auditTick))
      <4>1. PICK old \in Seq(Nat) : trail = old \o d
        BY <2>3, <3>6 DEF EndOf
      <4>2. Append(trail, auditTick) = old \o Append(d, auditTick)
        <5>a. <<auditTick>> \in Seq(Nat)
          BY <2>1
        <5>1. PICK one \in Seq(Nat) : one = <<auditTick>>
          BY <5>a
        <5>2. Append(trail, auditTick) = trail \o one /\ Append(d, auditTick) = d \o one
          BY <2>1, <2>3, <5>1, AppendIsConcat
        <5>3. (old \o d) \o one = old \o (d \o one)
          BY TicksAssociative
        <5> QED BY <4>1, <5>2, <5>3
      <4>3. Len(Append(d, auditTick)) = Len(d) + 1 /\ Len(d) \in Nat
        BY <2>1
      <4>4. Len(d) >= AuditFileLimit \/ d = trail
        BY <2>3, <3>6 DEF EndOf
      <4>5. Len(Append(d, auditTick)) >= AuditFileLimit \/ Append(d, auditTick) = Append(trail, auditTick)
        BY <4>3, <4>4, AuditAssumption
      <4> QED BY <4>2, <4>5 DEF EndOf
    <3>7. spoilt' \/ EndOf(OnDisk', trail')
      BY <3>2, <3>5, <3>6
    <3>8. trail' \in Seq(Nat) /\ spoilt' \in BOOLEAN
      BY <1>3, <2>1, <2>3, <3>5
    <3> QED BY <3>4, <3>7, <3>8 DEF DiskInv
  <2> QED BY <2>5, <2>6
<1> QED BY <1>2, <1>3 DEF RenameTmp

LEMMA AuditInvNext == AuditInv /\ [AuditNext]_auditVars => AuditInv'
<1> SUFFICES ASSUME AuditInv, [AuditNext]_auditVars PROVE AuditInv'
  OBVIOUS
<1>1. QueueInv /\ RotationInv /\ DiskInv
  BY DEF AuditInv
<1>2. QueueInv' /\ RotationInv'
  BY <1>1, QueueInvNext, RotationInvNext
<1>3. CASE UNCHANGED <<auditFiles, trail, spoilt>>
  <2>1. OnDisk' = OnDisk
    BY <1>3, OnDiskIs
  <2>2. DiskInv'
    BY <1>1, <1>2, <1>3, <2>1, DiskForgets
  <2> QED BY <1>2, <2>2 DEF AuditInv
<1>4. CASE MoveFile
  BY <1>1, <1>2, <1>4, DiskMoves DEF AuditInv
<1>5. CASE RenameTmp
  BY <1>1, <1>2, <1>5, DiskRenamed DEF AuditInv
<1>6. CASE EnqueueTick \/ StopAudit \/ TakeTick \/ EndAudit \/ TestSize \/ WriteTmp
           \/ AuditCrash \/ UNCHANGED auditVars
  BY <1>3, <1>6 DEF EnqueueTick, StopAudit, TakeTick, EndAudit, TestSize, WriteTmp, AuditCrash,
                    diskVars, auditVars
<1> QED BY <1>4, <1>5, <1>6 DEF AuditNext, WorkerStep

\* Every variable of the worker has its type, and the queue its limit.
THEOREM AuditTypeCorrect == AuditSpec => []AuditTypeOK
<1>1. AuditInv => AuditTypeOK
  BY AuditAssumption DEF AuditInv, QueueInv, AuditTypeOK, MoveOrder
<1> QED BY <1>1, AuditInvInit, AuditInvNext, PTL DEF AuditSpec

\* AuditTrailWorker, for every limit of the queue and of the files and any number of
\* crashes, failing renames and failing writes: the files are an uninterrupted record
\* of the newest ticks, and none that was accepted before stop() is left unwritten.
THEOREM AuditIsSound == AuditSpec => []AuditSound
<1>1. AuditInv => AuditSound
  <2> SUFFICES ASSUME AuditInv PROVE AuditSound
    OBVIOUS
  <2>1. PICK d \in Seq(Nat) : d = OnDisk
    BY OnDiskIs, DiskOfType DEF AuditInv, RotationInv
  <2>2. TrailInOrder
    BY DEF AuditInv, DiskInv, Rising, TrailInOrder
  <2>3. OnlyOldTicksGo
    <3>1. ASSUME ~spoilt PROVE IsSuffix(d, trail) /\ (Len(d) >= AuditFileLimit \/ d = trail)
      <4>1. EndOf(d, trail)
        BY <2>1, <3>1 DEF AuditInv, DiskInv
      <4> QED BY <4>1, EndIsSuffix DEF EndOf
    <3> QED BY <2>1, <3>1 DEF OnlyOldTicksGo
  <2>4. AuditDrained
    BY DEF AuditInv, QueueInv, AuditDrained
  <2> QED BY <2>2, <2>3, <2>4 DEF AuditSound
<1> QED BY <1>1, AuditInvInit, AuditInvNext, PTL DEF AuditSpec

-----------------------------------------------------------------------------
(* The header window and its replay.  A run of the replay is the states    *)
(* after each of its events; the recursive function in Replayed is one.    *)

SyncEvents ==
  [type : {"HeaderApplied", "MempoolDeltaApplied"}, height : Nat]
    \cup [type : {"ReorgDetected"}, height : Nat, target : Nat]
ReplayStates == [height : Nat, reorg : Nat, applied : Nat]

IsRun(run, state, log) ==
  /\ run \in [0 .. Len(log) -> ReplayStates] /\ run[0] = state
  /\ \A n \in 1 .. Len(log) : run[n] = AfterEvent(run[n - 1], log[n])

LEMMA AfterEventType ==
  ASSUME NEW state \in ReplayStates, NEW ev \in SyncEvents
  PROVE  AfterEvent(state, ev) \in ReplayStates
<1>1. ev.type = "ReorgDetected" => ev.target \in Nat
  BY DEF SyncEvents
<1>2. ev.type = "HeaderApplied" => ev.height \in Nat
  BY DEF SyncEvents
<1>3. HeightAfter(state.height, ev) \in Nat
  BY <1>1, <1>2 DEF HeightAfter, ReplayStates
<1>4. (IF ev.type = "ReorgDetected" THEN ev.target ELSE state.reorg) \in Nat
  BY <1>1 DEF ReplayStates
<1>5. state.applied + 1 \in Nat
  BY DEF ReplayStates
<1> QED BY <1>3, <1>4, <1>5 DEF AfterEvent, ReplayStates

LEMMA RunExists ==
  ASSUME NEW state \in ReplayStates, NEW log \in Seq(SyncEvents)
  PROVE  \E run : IsRun(run, state, log)
<1> DEFINE f == [pair \in ReplayStates \X SyncEvents |-> AfterEvent(pair[1], pair[2])]
<1>1. f \in [ReplayStates \X SyncEvents -> ReplayStates]
  BY AfterEventType
<1>2. \A r \in ReplayStates : \A ev \in SyncEvents : f[<<r, ev>>] = AfterEvent(r, ev)
  OBVIOUS
<1> HIDE DEF f
<1>3. PICK run : RunsThrough(run, f, ReplayStates, state, log)
  BY <1>1, RunThroughExists
<1>4. ASSUME NEW n \in 1 .. Len(log) PROVE run[n] = AfterEvent(run[n - 1], log[n])
  <2>1. n - 1 \in 0 .. Len(log) /\ log[n] \in SyncEvents
    OBVIOUS
  <2>2. run[n - 1] \in ReplayStates /\ run[n] = f[<<run[n - 1], log[n]>>]
    BY <1>3, <2>1 DEF RunsThrough
  <2> QED BY <1>2, <2>1, <2>2
<1>5. IsRun(run, state, log)
  BY <1>3, <1>4 DEF IsRun, RunsThrough
<1> QED BY <1>5

LEMMA RunIsReplayed ==
  ASSUME NEW state, NEW log \in Seq(SyncEvents), NEW run, IsRun(run, state, log)
  PROVE  Replayed(state, log) = run[Len(log)]
<1> DEFINE Body(g, n) == IF n = 0 THEN state ELSE AfterEvent(g[n - 1], log[n])
           g == CHOOSE g : g = [n \in 0 .. Len(log) |-> Body(g, n)]
<1>1. Replayed(state, log) = g[Len(log)]
  BY DEF Replayed
<1>2. g = [n \in 0 .. Len(log) |-> Body(g, n)]
  <2>1. ASSUME NEW n \in 0 .. Len(log) PROVE run[n] = Body(run, n)
    BY DEF IsRun
  <2>2. run = [n \in 0 .. Len(log) |-> Body(run, n)]
    BY <2>1 DEF IsRun
  <2> QED BY <2>2
<1> HIDE DEF g
<1> DEFINE Same == {n \in Nat : n <= Len(log) => g[n] = run[n]}
<1>3. 0 \in Same
  BY <1>2 DEF IsRun
<1>4. ASSUME NEW n \in Same PROVE n + 1 \in Same
  <2> SUFFICES ASSUME n + 1 <= Len(log) PROVE g[n + 1] = run[n + 1]
    OBVIOUS
  <2>1. /\ n \in Nat /\ g[n] = run[n] /\ n + 1 \in 0 .. Len(log) /\ n + 1 \in 1 .. Len(log)
        /\ n + 1 # 0 /\ (n + 1) - 1 = n
    OBVIOUS
  <2>2. g[n + 1] = AfterEvent(g[n], log[n + 1])
    BY <1>2, <2>1
  <2>3. run[n + 1] = AfterEvent(run[n], log[n + 1])
    BY <2>1 DEF IsRun
  <2> QED BY <2>1, <2>2, <2>3
<1>5. Same = Nat
  <2>1. Same \in SUBSET Nat
    OBVIOUS
  <2> HIDE DEF Same
  <2> QED BY <1>3, <1>4, <2>1, ClosedSetIsNat
<1> QED BY <1>1, <1>5

\* What replaying nothing, and one event more, gives.
LEMMA ReplayedSteps ==
  ASSUME NEW state \in ReplayStates, NEW log \in Seq(SyncEvents)
  PROVE  /\ Replayed(state, log) \in ReplayStates
         /\ log = <<>> => Replayed(state, log) = state
         /\ \A ev \in SyncEvents :
              Replayed(state, Append(log, ev)) = AfterEvent(Replayed(state, log), ev)
<1>1. PICK run : IsRun(run, state, log)
  BY RunExists
<1>2. Replayed(state, log) = run[Len(log)]
  BY <1>1, RunIsReplayed
<1>3. Len(log) \in Nat /\ Len(log) \in 0 .. Len(log) /\ run[Len(log)] \in ReplayStates
  BY <1>1 DEF IsRun
<1>4. ASSUME NEW ev \in SyncEvents
      PROVE  Replayed(state, Append(log, ev)) = AfterEvent(Replayed(state, log), ev)
  <2>1. PICK longer : longer = Append(log, ev)
    OBVIOUS
  <2>2. /\ longer \in Seq(SyncEvents) /\ Len(longer) = Len(log) + 1
        /\ longer[Len(log) + 1] = ev
        /\ \A n \in 1 .. Len(log) : longer[n] = log[n]
    BY <2>1
  <2>3. PICK next : IsRun(next, state, longer)
    BY <2>2, RunExists
  <2>4. IsRun([n \in 0 .. Len(log) |-> next[n]], state, log)
    <3> DEFINE short == [n \in 0 .. Len(log) |-> next[n]]
    <3>1. short \in [0 .. Len(log) -> ReplayStates] /\ short[0] = state
      BY <1>3, <2>2, <2>3 DEF IsRun
    <3>2. ASSUME NEW n \in 1 .. Len(log) PROVE short[n] = AfterEvent(short[n - 1], log[n])
      <4>1. n \in 1 .. Len(longer) /\ n \in 0 .. Len(log) /\ n - 1 \in 0 .. Len(log)
        BY <1>3, <2>2
      <4>2. next[n] = AfterEvent(next[n - 1], longer[n])
        BY <2>3, <4>1 DEF IsRun
      <4> QED BY <2>2, <4>1, <4>2
    <3> QED BY <3>1, <3>2 DEF IsRun
  <2>5. Replayed(state, log) = next[Len(log)]
    <3>1. Replayed(state, log) = [n \in 0 .. Len(log) |-> next[n]][Len(log)]
      BY <2>4, RunIsReplayed
    <3> QED BY <1>3, <3>1
  <2>6. Replayed(state, longer) = next[Len(log) + 1]
    BY <2>2, <2>3, RunIsReplayed
  <2>7. next[Len(log) + 1] = AfterEvent(next[Len(log)], ev)
    <3>1. Len(log) + 1 \in 1 .. Len(longer) /\ (Len(log) + 1) - 1 = Len(log)
      BY <1>3, <2>2
    <3> QED BY <2>2, <2>3, <3>1 DEF IsRun
  <2> QED BY <2>1, <2>5, <2>6, <2>7
<1>5. log = <<>> => run[Len(log)] = state
  BY <1>1 DEF IsRun
<1> QED BY <1>2, <1>3, <1>4, <1>5

-----------------------------------------------------------------------------
(* The window stays linked: what is left of it after a header that does    *)
(* not extend it is empty, or the oldest header, come again.               *)

Linked(buffer) ==
  \A i \in 1 .. Len(buffer) - 1 :
    \/ buffer[i + 1].prev = buffer[i].hash /\ buffer[i + 1].height > buffer[i].height
    \/ buffer[i + 1].hash = buffer[i].hash

Joins(buffer, header) ==
  buffer = <<>> \/
    LET last == buffer[Len(buffer)]
    IN  \/ header.prev = last.hash /\ header.height > last.height
        \/ header.hash = last.hash

LEMMA HeaderFields ==
  ASSUME NEW header \in Headers
  PROVE  header.height \in Nat /\ header.version \in Nat /\ header.timestamp \in Nat
BY SyncAssumption

LEMMA LastElement ==
  ASSUME NEW S, NEW buffer \in Seq(S), buffer # <<>>
  PROVE  /\ Len(buffer) \in Nat /\ Len(buffer) >= 1
         /\ Last(buffer) = buffer[Len(buffer)] /\ Last(buffer) \in S
BY DEF Last

LEMMA RewoundJoins ==
  ASSUME headerBuffer \in Seq(Headers), Linked(headerBuffer), NEW header \in Headers
  PROVE  /\ Rewound(header) \in Seq(Headers)
         /\ Len(Rewound(header)) <= Len(headerBuffer)
         /\ Linked(Rewound(header)) /\ Joins(Rewound(header), header)
         /\ ~Forks(header) => Rewound(header) = headerBuffer
<1>1. CASE ~Forks(header)
  <2>1. Rewound(header) = headerBuffer
    BY <1>1 DEF Rewound
  <2>2. Joins(headerBuffer, header)
    <3>1. CASE headerBuffer = <<>>
      BY <3>1 DEF Joins
    <3>2. CASE headerBuffer # <<>>
      <4>1. Last(headerBuffer) \in Headers /\ Last(headerBuffer) = headerBuffer[Len(headerBuffer)]
        BY <3>2, LastElement
      <4>2. Last(headerBuffer).hash = header.prev /\ ~(header.height <= Last(headerBuffer).height)
        BY <1>1, <3>2 DEF Forks
      <4>3. header.height > Last(headerBuffer).height
        BY <4>1, <4>2, HeaderFields
      <4> QED BY <4>1, <4>2, <4>3 DEF Joins
    <3> QED BY <3>1, <3>2
  <2> QED BY <2>1, <2>2
<1>2. CASE Forks(header)
  <2>1. headerBuffer # <<>> /\ Len(headerBuffer) \in Nat /\ Len(headerBuffer) >= 1
    BY <1>2, LastElement DEF Forks
  <2>2. \/ RollbackIndex(header) \in {-1, 0}
        \/ RollbackIndex(header) = 1 /\ headerBuffer[1].hash = header.hash
    BY <2>1 DEF RollbackIndex
  <2>3. CASE RollbackIndex(header) \in {-1, 0}
    <3>1. Rewound(header) = <<>>
      BY <1>2, <2>1, <2>3 DEF Rewound
    <3> QED BY <1>2, <2>1, <3>1 DEF Linked, Joins
  <2>4. CASE RollbackIndex(header) = 1 /\ headerBuffer[1].hash = header.hash
    <3>1. Rewound(header) = SubSeq(headerBuffer, 1, 1)
      BY <1>2, <2>4 DEF Rewound
    <3>2. /\ Rewound(header) \in Seq(Headers) /\ Len(Rewound(header)) = 1
          /\ Rewound(header)[1] = headerBuffer[1]
      BY <2>1, <3>1
    <3> QED BY <1>2, <2>1, <2>4, <3>2 DEF Linked, Joins
  <2> QED BY <2>2, <2>3, <2>4
<1> QED BY <1>1, <1>2

LEMMA PushedLinks ==
  ASSUME NEW buffer \in Seq(Headers), Len(buffer) <= MaxBuffer, Linked(buffer),
         NEW header \in Headers, Joins(buffer, header)
  PROVE  /\ Pushed(buffer, header) \in Seq(Headers) /\ Pushed(buffer, header) # <<>>
         /\ Len(Pushed(buffer, header)) <= MaxBuffer
         /\ Last(Pushed(buffer, header)) = header /\ Linked(Pushed(buffer, header))
<1>1. PICK longer : longer = Append(buffer, header)
  OBVIOUS
<1>2. /\ longer \in Seq(Headers) /\ Len(longer) = Len(buffer) + 1 /\ Len(buffer) \in Nat
      /\ longer[Len(longer)] = header
      /\ \A i \in 1 .. Len(buffer) : longer[i] = buffer[i]
  BY <1>1
<1>3. Linked(longer)
  <2> SUFFICES ASSUME NEW i \in 1 .. Len(buffer)
               PROVE  \/ /\ longer[i + 1].prev = longer[i].hash
                         /\ longer[i + 1].height > longer[i].height
                      \/ longer[i + 1].hash = longer[i].hash
    BY <1>2 DEF Linked
  <2>1. CASE i < Len(buffer)
    <3>1. i \in 1 .. Len(buffer) - 1 /\ i + 1 \in 1 .. Len(buffer)
      BY <1>2, <2>1
    <3> QED BY <1>2, <3>1 DEF Linked
  <2>2. CASE i = Len(buffer)
    <3>1. longer[i + 1] = header /\ longer[i] = buffer[Len(buffer)] /\ buffer # <<>>
      BY <1>2, <2>2
    <3> QED BY <3>1 DEF Joins
  <2> QED BY <1>2, <2>1, <2>2
<1>4. CASE Len(longer) > MaxBuffer
  <2>1. Pushed(buffer, header) = Tail(longer)
    BY <1>1, <1>4 DEF Pushed
  <2>2. MaxBuffer \in Nat /\ MaxBuffer >= 1 /\ Len(longer) >= 2
    BY <1>2, <1>4, SyncAssumption
  <2>3. PICK tail : tail = Tail(longer)
    OBVIOUS
  <2>4. /\ tail \in Seq(Headers) /\ Len(tail) = Len(buffer)
        /\ \A i \in 1 .. Len(buffer) : tail[i] = longer[i + 1]
    BY <1>2, <2>2, <2>3
  <2>5. Last(tail) = header /\ tail # <<>>
    BY <1>2, <2>2, <2>4 DEF Last
  <2>6. Linked(tail)
    <3> SUFFICES ASSUME NEW i \in 1 .. Len(buffer) - 1
                 PROVE  \/ tail[i + 1].prev = tail[i].hash /\ tail[i + 1].height > tail[i].height
                        \/ tail[i + 1].hash = tail[i].hash
      BY <2>4 DEF Linked
    <3>1. i + 1 \in 1 .. Len(longer) - 1 /\ i + 1 \in 1 .. Len(buffer) /\ i \in 1 .. Len(buffer)
      BY <1>2
    <3>2. tail[i + 1] = longer[(i + 1) + 1] /\ tail[i] = longer[i + 1]
      BY <2>4, <3>1
    <3> QED BY <1>3, <3>1, <3>2 DEF Linked
  <2> QED BY <2>1, <2>3, <2>4, <2>5, <2>6
<1>5. CASE ~(Len(longer) > MaxBuffer)
  <2>1. Pushed(buffer, header) = longer
    BY <1>1, <1>5 DEF Pushed
  <2>2. longer # <<>> /\ Last(longer) = header /\ Len(longer) <= MaxBuffer
    BY <1>2, <1>5, SyncAssumption DEF Last
  <2> QED BY <1>2, <1>3, <2>1, <2>2
<1> QED BY <1>4, <1>5

-----------------------------------------------------------------------------
(* The replay of a log follows the clock: it ends at the clock's height,   *)
(* and a mempool event at the end of it was put where the clock was.       *)

Follows(state, log, height) ==
  /\ Replayed(state, SubSeq(log, 1, Len(log))).height = height
  /\ log # <<>> /\ Last(log).type = "MempoolDeltaApplied" =>
       Replayed(state, SubSeq(log, 1, Len(log) - 1)).height = Last(log).height

LEMMA EventTypes ==
  ASSUME NEW height \in Nat
  PROVE  /\ HeaderApplied(height) \in SyncEvents
         /\ MempoolDeltaApplied(height) \in SyncEvents
         /\ \A target \in Nat : ReorgDetected(height, target) \in SyncEvents
BY DEF HeaderApplied, MempoolDeltaApplied, ReorgDetected, SyncEvents

LEMMA AppendPrefixes ==
  ASSUME NEW S, NEW log \in Seq(S), NEW e \in S
  PROVE  /\ SubSeq(log, 1, Len(log)) = log
         /\ Append(log, e) \in Seq(S) /\ Append(log, e) # <<>> /\ Last(Append(log, e)) = e
         /\ SubSeq(Append(log, e), 1, Len(Append(log, e))) = Append(log, e)
         /\ SubSeq(Append(log, e), 1, Len(Append(log, e)) - 1) = log
BY DEF Last

LEMMA WholePrefix ==
  ASSUME NEW S, NEW log \in Seq(S)
  PROVE  SubSeq(log, 1, Len(log)) = log
OBVIOUS

LEMMA HeaderFollows ==
  ASSUME NEW state \in ReplayStates, NEW log \in Seq(SyncEvents), NEW height \in Nat
  PROVE  Follows(state, Append(log, HeaderApplied(height)), height)
<1>1. PICK ev : ev = HeaderApplied(height)
  OBVIOUS
<1>2. ev \in SyncEvents /\ ev.type = "HeaderApplied" /\ ev.height = height
  BY <1>1, EventTypes DEF HeaderApplied
<1>3. Replayed(state, Append(log, ev)) = AfterEvent(Replayed(state, log), ev)
  BY <1>2, ReplayedSteps
<1>4. Replayed(state, Append(log, ev)).height = height
  BY <1>2, <1>3 DEF AfterEvent, HeightAfter
<1>5. /\ Last(Append(log, ev)) = ev
      /\ SubSeq(Append(log, ev), 1, Len(Append(log, ev))) = Append(log, ev)
  BY <1>2, AppendPrefixes
<1> QED BY <1>1, <1>2, <1>4, <1>5 DEF Follows

LEMMA DeltaFollows ==
  ASSUME NEW state \in ReplayStates, NEW log \in Seq(SyncEvents), NEW height \in Nat,
         Follows(state, log, height)
  PROVE  Follows(state, Append(log, MempoolDeltaApplied(height)), height)
<1>1. PICK ev : ev = MempoolDeltaApplied(height)
  OBVIOUS
<1>2. ev \in SyncEvents /\ ev.type = "MempoolDeltaApplied" /\ ev.height = height
  BY <1>1, EventTypes DEF MempoolDeltaApplied
<1>3. Replayed(state, Append(log, ev)) = AfterEvent(Replayed(state, log), ev)
  BY <1>2, ReplayedSteps
<1>4. Replayed(state, log).height = height
  BY WholePrefix DEF Follows
<1>5. Replayed(state, Append(log, ev)).height = height
  BY <1>2, <1>3, <1>4 DEF AfterEvent, HeightAfter
<1>6. /\ Last(Append(log, ev)) = ev
      /\ SubSeq(Append(log, ev), 1, Len(Append(log, ev))) = Append(log, ev)
      /\ SubSeq(Append(log, ev), 1, Len(Append(log, ev)) - 1) = log
  BY <1>2, AppendPrefixes
<1> QED BY <1>1, <1>2, <1>4, <1>5, <1>6 DEF Follows

LEMMA ReplayedFollows ==
  ASSUME NEW state \in ReplayStates, NEW log \in Seq(SyncEvents), NEW height \in Nat,
         Follows(state, log, height)
  PROVE  Follows(Replayed(state, log), <<>>, height)
<1>1. Replayed(state, log) \in ReplayStates /\ Replayed(state, log).height = height
  BY ReplayedSteps, WholePrefix DEF Follows
<1>2. <<>> \in Seq(SyncEvents) /\ SubSeq(<<>>, 1, Len(<<>>)) = <<>>
  OBVIOUS
<1>3. Replayed(Replayed(state, log), <<>>) = Replayed(state, log)
  BY <1>1, <1>2, ReplayedSteps
<1> QED BY <1>1, <1>2, <1>3 DEF Follows

-----------------------------------------------------------------------------
(* The clock's time is a timestamp of the window: some timestamp has more  *)
(* than half of the last ones not after it, and there is a first such one. *)

LEMMA LatestExists ==
  ASSUME NEW buffer \in Seq(Headers), NEW low \in 1 .. Len(buffer)
  PROVE  \E j \in low .. Len(buffer) :
           \A i \in low .. Len(buffer) : buffer[i].timestamp <= buffer[j].timestamp
<1>1. \A i \in 1 .. Len(buffer) : buffer[i].timestamp \in Nat
  BY HeaderFields
<1> DEFINE Upto(k) == \E j \in low .. k : \A i \in low .. k :
                        buffer[i].timestamp <= buffer[j].timestamp
           Good == {n \in Nat : low + n <= Len(buffer) => Upto(low + n)}
<1>2. 0 \in Good
  <2>1. low \in low .. (low + 0) /\ \A i \in low .. (low + 0) : i = low
    OBVIOUS
  <2> QED BY <1>1, <2>1
<1>3. ASSUME NEW n \in Good PROVE n + 1 \in Good
  <2> SUFFICES ASSUME low + (n + 1) <= Len(buffer) PROVE Upto(low + (n + 1))
    OBVIOUS
  <2>1. PICK k : k = low + n
    OBVIOUS
  <2>2. k \in 1 .. Len(buffer) /\ k + 1 \in 1 .. Len(buffer) /\ low + (n + 1) = k + 1 /\ low <= k
    BY <2>1
  <2>3. PICK j \in low .. k : \A i \in low .. k : buffer[i].timestamp <= buffer[j].timestamp
    BY <2>1, <2>2
  <2>4. CASE buffer[k + 1].timestamp <= buffer[j].timestamp
    <3>1. j \in low .. (k + 1)
      BY <2>2
    <3>2. \A i \in low .. (k + 1) : buffer[i].timestamp <= buffer[j].timestamp
      <4> TAKE i \in low .. (k + 1)
      <4>1. i \in low .. k \/ i = k + 1
        BY <2>2
      <4> QED BY <2>3, <2>4, <4>1
    <3>3. Upto(k + 1)
      BY <3>1, <3>2
    <3> QED BY <2>2, <3>3
  <2>5. CASE ~(buffer[k + 1].timestamp <= buffer[j].timestamp)
    <3>1. k + 1 \in low .. (k + 1) /\ j \in 1 .. Len(buffer)
      BY <2>2
    <3>2. \A i \in low .. (k + 1) : buffer[i].timestamp <= buffer[k + 1].timestamp
      <4> TAKE i \in low .. (k + 1)
      <4>1. (i \in low .. k \/ i = k + 1) /\ i \in 1 .. Len(buffer)
        BY <2>2
      <4>2. CASE i \in low .. k
        <5>1. buffer[i].timestamp <= buffer[j].timestamp
          BY <2>3, <4>2
        <5> QED BY <1>1, <2>2, <2>5, <3>1, <4>1, <5>1
      <4>3. CASE i = k + 1
        BY <1>1, <4>1, <4>3
      <4> QED BY <4>1, <4>2, <4>3
    <3>3. Upto(k + 1)
      BY <3>1, <3>2
    <3> QED BY <2>2, <3>3
  <2> QED BY <2>4, <2>5
<1>4. Good = Nat
  <2>1. Good \in SUBSET Nat
    OBVIOUS
  <2> HIDE DEF Good
  <2> QED BY <1>2, <1>3, <2>1, ClosedSetIsNat
<1>5. Len(buffer) - low \in Nat /\ low + (Len(buffer) - low) = Len(buffer)
  OBVIOUS
<1>6. Upto(low + (Len(buffer) - low))
  <2>1. Len(buffer) - low \in Good
    BY <1>4, <1>5
  <2> QED BY <1>5, <2>1
<1>7. Upto(Len(buffer))
  <2> HIDE DEF Upto
  <2> QED BY <1>5, <1>6
<1> QED BY <1>7

LEMMA MedianIsTimestamp ==
  ASSUME NEW buffer \in Seq(Headers), buffer # <<>>
  PROVE  MedianTime(buffer) \in Nat
<1> DEFINE low == IF Len(buffer) > 11 THEN Len(buffer) - 10 ELSE 1
           recent == low .. Len(buffer)
           times == {buffer[i].timestamp : i \in recent}
           NotAfter(t) == {i \in recent : buffer[i].timestamp <= t}
           majority == {t \in times : Cardinality(NotAfter(t)) > Cardinality(recent) \div 2}
<1>1. Len(buffer) \in Nat /\ Len(buffer) >= 1 /\ low \in 1 .. Len(buffer)
  OBVIOUS
<1>2. MedianTime(buffer) = CHOOSE t \in majority : \A u \in majority : t <= u
  BY DEF MedianTime
<1>3. majority \in SUBSET Nat
  <2>1. \A i \in recent : buffer[i].timestamp \in Nat
    BY <1>1, HeaderFields
  <2> QED BY <2>1
<1>4. majority # {}
  <2> HIDE DEF low
  <2>1. PICK j \in recent : \A i \in recent : buffer[i].timestamp <= buffer[j].timestamp
    BY <1>1, LatestExists
  <2>2. NotAfter(buffer[j].timestamp) = recent /\ buffer[j].timestamp \in times
    BY <2>1
  <2>3. Cardinality(recent) = Len(buffer) - low + 1
    BY <1>1, FS_Interval
  <2>4. Cardinality(recent) > Cardinality(recent) \div 2
    BY <1>1, <2>3
  <2> QED BY <2>2, <2>4
<1> HIDE DEF majority
<1>5. \E t \in majority : \A u \in majority : t <= u
  BY <1>3, <1>4, LeastNatural
<1> QED BY <1>2, <1>3, <1>5

-----------------------------------------------------------------------------
(* The invariant: while there is a window the clock is at its last header, *)
(* so that a header that is skipped without a rollback changes nothing.    *)

SyncTyped ==
  /\ headerBuffer \in Seq(Headers) /\ Len(headerBuffer) <= MaxBuffer
  /\ syncMempool \in [SyncTxs -> Nat]
  /\ syncClock.height \in Nat /\ syncClock.time \in Nat
  /\ pendingEvents \in Seq(SyncEvents)
  /\ replay \in ReplayStates /\ skipped \in BOOLEAN

ClockAtTip == headerBuffer # <<>> => syncClock.height = Last(headerBuffer).height

SyncInv ==
  /\ SyncTyped /\ ClockAtTip /\ Linked(headerBuffer)
  /\ skipped \/ Follows(replay, pendingEvents, syncClock.height)

LEMMA SyncInvImplies == SyncInv => SyncTypeOK /\ HeadersSound
<1> SUFFICES ASSUME SyncInv PROVE SyncTypeOK /\ HeadersSound
  OBVIOUS
<1>1. SyncTypeOK
  <2>1. \A ev \in SyncEvents : ev.type \in {"HeaderApplied", "ReorgDetected", "MempoolDeltaApplied"}
    BY DEF SyncEvents
  <2>2. \A i \in DOMAIN pendingEvents : pendingEvents[i] \in SyncEvents
    BY DEF SyncInv, SyncTyped
  <2>3. replay.height \in Nat /\ replay.reorg \in Nat /\ replay.applied \in Nat
    BY DEF SyncInv, SyncTyped, ReplayStates
  <2>4. \A i \in 1 .. Len(headerBuffer) : headerBuffer[i] \in Headers
    BY DEF SyncInv, SyncTyped
  <2> QED BY <2>1, <2>2, <2>3, <2>4 DEF SyncInv, SyncTyped, SyncTypeOK
<1>2. WindowLinked
  BY DEF SyncInv, Linked, WindowLinked
<1>3. ReplayFollowsClock
  BY DEF SyncInv, Follows, ReplayFollowsClock, HeightBefore
<1> QED BY <1>1, <1>2, <1>3 DEF HeadersSound

LEMMA SyncInvInit == SyncInit => SyncInv
<1> SUFFICES ASSUME SyncInit PROVE SyncInv
  OBVIOUS
<1>1. /\ headerBuffer = <<>> /\ pendingEvents = <<>> /\ skipped = FALSE
      /\ replay \in ReplayStates /\ replay.height = 0
      /\ syncClock.height = 0 /\ syncClock.time = 0
      /\ syncMempool \in [SyncTxs -> Nat]
  BY DEF SyncInit, ReplayStates
<1>2. <<>> \in Seq(SyncEvents) /\ SubSeq(<<>>, 1, Len(<<>>)) = <<>>
  OBVIOUS
<1>3. Follows(replay, pendingEvents, syncClock.height)
  <2>1. Replayed(replay, <<>>) = replay
    BY <1>1, <1>2, ReplayedSteps
  <2> QED BY <1>1, <1>2, <2>1 DEF Follows
<1>4. SyncTyped
  <2>1. headerBuffer \in Seq(Headers) /\ Len(headerBuffer) = 0 /\ 0 <= MaxBuffer
    BY <1>1, SyncAssumption
  <2>2. skipped \in BOOLEAN
    BY <1>1
  <2> QED BY <1>1, <1>2, <2>1, <2>2 DEF SyncTyped
<1> QED BY <1>1, <1>3, <1>4 DEF SyncInv, ClockAtTip, Linked

LEMMA IngestHeaderKeeps ==
  ASSUME SyncInv, NEW header \in Headers, IngestHeader(header)
  PROVE  SyncInv'
<1> USE DEF SyncInv, SyncTyped
<1>1. /\ Rewound(header) \in Seq(Headers) /\ Len(Rewound(header)) <= MaxBuffer
      /\ Linked(Rewound(header)) /\ Joins(Rewound(header), header)
      /\ ~Forks(header) => Rewound(header) = headerBuffer
  <2>1. Len(Rewound(header)) <= Len(headerBuffer) /\ Rewound(header) \in Seq(Headers)
    BY RewoundJoins
  <2>2. Len(Rewound(header)) <= MaxBuffer
    BY <2>1, SyncAssumption
  <2> QED BY <2>1, <2>2, RewoundJoins
<1>2. ReorgEvents(header) \in Seq(SyncEvents) /\ (~Forks(header) => ReorgEvents(header) = <<>>)
  <2>1. CASE Forks(header) /\ RollbackIndex(header) # -1
    <3>1. headerBuffer # <<>>
      BY <2>1 DEF Forks
    <3>2. Last(headerBuffer).height \in Nat
      BY <3>1, LastElement, HeaderFields
    <3>3. RollbackIndex(header) \in Nat
      BY <2>1 DEF RollbackIndex
    <3>4. ReorgDetected(Last(headerBuffer).height, RollbackIndex(header)) \in SyncEvents
      BY <3>2, <3>3, EventTypes
    <3> QED BY <2>1, <3>4 DEF ReorgEvents
  <2>2. CASE ~(Forks(header) /\ RollbackIndex(header) # -1)
    BY <2>2 DEF ReorgEvents
  <2> QED BY <2>1, <2>2
<1>3. PICK log : log = pendingEvents \o ReorgEvents(header)
  OBVIOUS
<1>4. log \in Seq(SyncEvents) /\ (~Forks(header) => log = pendingEvents)
  BY <1>2, <1>3
<1>5. /\ syncMempool' = syncMempool /\ replay' = replay /\ syncClock' = ClockOf(headerBuffer')
  BY DEF IngestHeader
<1>6. ASSUME headerBuffer' \in Seq(Headers)
      PROVE  /\ syncClock'.height \in Nat /\ syncClock'.time \in Nat /\ ClockAtTip'
             /\ headerBuffer' = <<>> => syncClock' = syncClock
  <2>1. CASE headerBuffer' = <<>>
    BY <1>5, <2>1 DEF ClockOf, ClockAtTip
  <2>2. CASE headerBuffer' # <<>>
    <3>1. syncClock' = [height |-> Last(headerBuffer').height, time |-> MedianTime(headerBuffer')]
      BY <1>5, <2>2 DEF ClockOf
    <3>2. MedianTime(headerBuffer') \in Nat
      BY <1>6, <2>2, MedianIsTimestamp
    <3>3. Last(headerBuffer').height \in Nat
      BY <1>6, <2>2, LastElement, HeaderFields
    <3> QED BY <2>2, <3>1, <3>2, <3>3 DEF ClockAtTip
  <2> QED BY <2>1, <2>2
<1>7. CASE header.version >= 1
  <2>1. headerBuffer' = Pushed(Rewound(header), header) /\ skipped' = FALSE
    BY <1>7 DEF IngestHeader
  <2>2. pendingEvents' = log \o <<HeaderApplied(header.height)>>
    BY <1>3, <1>7 DEF IngestHeader
  <2>3. header.height \in Nat /\ HeaderApplied(header.height) \in SyncEvents
    BY HeaderFields, EventTypes
  <2>4. pendingEvents' = Append(log, HeaderApplied(header.height))
    BY <1>4, <2>2, <2>3
  <2>5. pendingEvents' \in Seq(SyncEvents)
    BY <1>4, <2>3, <2>4
  <2>6. /\ headerBuffer' \in Seq(Headers) /\ headerBuffer' # <<>> /\ Len(headerBuffer') <= MaxBuffer
        /\ Last(headerBuffer') = header /\ Linked(headerBuffer')
    BY <1>1, <2>1, PushedLinks
  <2>7. syncClock'.height = header.height
    BY <1>6, <2>6 DEF ClockAtTip
  <2>8. Follows(replay', pendingEvents', syncClock'.height)
    BY <1>4, <1>5, <2>3, <2>4, <2>7, HeaderFollows
  <2> QED BY <1>5, <1>6, <2>1, <2>5, <2>6, <2>8
<1>8. CASE ~(header.version >= 1)
  <2>1. headerBuffer' = Rewound(header) /\ skipped' = (skipped \/ Forks(header))
    BY <1>8 DEF IngestHeader
  <2>2. pendingEvents' = log \o <<>>
    BY <1>3, <1>8 DEF IngestHeader
  <2>3. pendingEvents' = log
    BY <1>4, <2>2
  <2>4. skipped' \in BOOLEAN /\ Linked(headerBuffer)'
    BY <1>1, <2>1 DEF Linked
  <2>5. SyncTyped' /\ ClockAtTip'
    BY <1>1, <1>4, <1>5, <1>6, <2>1, <2>3, <2>4
  <2>6. skipped' \/ Follows(replay', pendingEvents', syncClock'.height)
    <3>1. CASE skipped \/ Forks(header)
      BY <2>1, <3>1
    <3>2. CASE ~skipped /\ ~Forks(header)
      <4>1. headerBuffer' = headerBuffer /\ pendingEvents' = pendingEvents
        BY <1>1, <1>4, <2>1, <2>3, <3>2
      <4>2. syncClock'.height = syncClock.height
        BY <1>1, <1>6, <2>1, <4>1 DEF ClockAtTip
      <4> QED BY <1>5, <3>2, <4>1, <4>2
    <3> QED BY <3>1, <3>2
  <2> QED BY <2>4, <2>5, <2>6
<1> QED BY <1>7, <1>8

LEMMA MempoolKeeps ==
  ASSUME SyncInv, NEW tx \in SyncTxs, AddToMempool(tx) \/ RemoveFromMempool(tx)
  PROVE  SyncInv'
<1>1. /\ headerBuffer' = headerBuffer /\ syncClock' = syncClock
      /\ replay' = replay /\ skipped' = skipped
      /\ pendingEvents' = Append(pendingEvents, MempoolDeltaApplied(syncClock.height))
  BY DEF AddToMempool, RemoveFromMempool
<1>2. syncMempool' \in [SyncTxs -> Nat]
  BY DEF AddToMempool, RemoveFromMempool, SyncInv, SyncTyped
<1>3. MempoolDeltaApplied(syncClock.height) \in SyncEvents
  BY EventTypes DEF SyncInv, SyncTyped
<1>4. pendingEvents' \in Seq(SyncEvents)
  BY <1>1, <1>3 DEF SyncInv, SyncTyped
<1>5. skipped \/ Follows(replay', pendingEvents', syncClock'.height)
  BY <1>1, DeltaFollows DEF SyncInv, SyncTyped
<1>6. SyncTyped' /\ ClockAtTip' /\ Linked(headerBuffer')
  BY <1>1, <1>2, <1>4 DEF SyncInv, SyncTyped, ClockAtTip
<1> QED BY <1>1, <1>5, <1>6 DEF SyncInv

LEMMA ReplayPendingKeeps ==
  ASSUME SyncInv, ReplayPending
  PROVE  SyncInv'
<1>1. /\ headerBuffer' = headerBuffer /\ syncClock' = syncClock /\ syncMempool' = syncMempool
      /\ skipped' = skipped /\ pendingEvents' = <<>> /\ replay' = Replayed(replay, pendingEvents)
  BY DEF ReplayPending
<1>2. replay' \in ReplayStates
  BY <1>1, ReplayedSteps DEF SyncInv, SyncTyped
<1>3. skipped \/ Follows(replay', pendingEvents', syncClock'.height)
  BY <1>1, ReplayedFollows DEF SyncInv, SyncTyped
<1>4. SyncTyped' /\ ClockAtTip' /\ Linked(headerBuffer')
  BY <1>1, <1>2 DEF SyncInv, SyncTyped, ClockAtTip
<1> QED BY <1>1, <1>3, <1>4 DEF SyncInv

LEMMA SyncInvNext == SyncInv /\ [SyncNext]_syncVars => SyncInv'
<1> SUFFICES ASSUME SyncInv, [SyncNext]_syncVars PROVE SyncInv'
  OBVIOUS
<1>1. CASE UNCHANGED syncVars
  BY <1>1 DEF syncVars, SyncInv, SyncTyped, ClockAtTip
<1>2. CASE \E header \in Headers : IngestHeader(header)
  BY <1>2, IngestHeaderKeeps
<1>3. CASE \E tx \in SyncTxs : AddToMempool(tx) \/ RemoveFromMempool(tx)
  BY <1>3, MempoolKeeps
<1>4. CASE ReplayPending
  BY <1>4, ReplayPendingKeeps
<1> QED BY <1>1, <1>2, <1>3, <1>4 DEF SyncNext, SyncStep

\* The window has its bound (max_buffer_size), and what it keeps has its type.
THEOREM SyncTypeCorrect == SyncSpec => []SyncTypeOK
BY SyncInvInit, SyncInvNext, SyncInvImplies, PTL DEF SyncSpec

\* ingest_header and ReplayEngine::step: whatever headers come, in whatever order and
\* however often, and whenever they are replayed, the window is a chain and the
\* replay follows the clock.
THEOREM HeadersAreSound == SyncSpec => []HeadersSound
BY SyncInvInit, SyncInvNext, SyncInvImplies, PTL DEF SyncSpec

-----------------------------------------------------------------------------
(* The gossip of the cluster.  An exchange adds to what one node has heard *)
(* and changes no height and no root, so that each is judged by the nodes  *)
(* as the phase found them.                                                *)

PeerSyncs == [status : SyncStatuses, local : Nat, remote : Nat]
Views == [Ids -> NodeStates]
Meets(pair) == {pair[1], pair[2]} \subseteq Ids
HeardInSync(node) == node.syncs # <<>> /\ Last(node.syncs).status = "IN_SYNC"
SameChain(view, other) ==
  \A i \in Ids : view[i].height = other[i].height /\ view[i].root = other[i].root

LEMMA PeerSyncType ==
  ASSUME NEW receiver \in NodeStates, NEW sender \in NodeStates
  PROVE  /\ PeerSync(receiver, sender) \in PeerSyncs
         /\ receiver.height = sender.height /\ receiver.root = sender.root =>
              PeerSync(receiver, sender).status = "IN_SYNC"
<1>1. receiver.height \in Nat /\ sender.height \in Nat
  BY DEF NodeStates
<1>2. PeerSync(receiver, sender).status \in SyncStatuses
  BY DEF PeerSync, SyncStatuses
<1>3. PeerSync(receiver, sender) \in PeerSyncs
  BY <1>1, <1>2 DEF PeerSync, PeerSyncs
<1>4. receiver.height = sender.height /\ receiver.root = sender.root =>
        PeerSync(receiver, sender).status = "IN_SYNC"
  BY <1>1 DEF PeerSync, StaleThreshold
<1> QED BY <1>3, <1>4

LEMMA HearsOne ==
  ASSUME NEW view \in Views, NEW pair \in Nat \X Nat
  PROVE  /\ Hears(view, pair) \in Views /\ SameChain(Hears(view, pair), view)
         /\ \A i \in Ids : ~(Meets(pair) /\ i = pair[2]) => Hears(view, pair)[i] = view[i]
         /\ Meets(pair) => Hears(view, pair)[pair[2]].syncs =
              Append(view[pair[2]].syncs, PeerSync(view[pair[2]], view[pair[1]]))
<1>1. CASE ~Meets(pair)
  <2>1. Hears(view, pair) = view
    BY <1>1 DEF Hears, Meets
  <2> QED BY <1>1, <2>1 DEF SameChain
<1>2. CASE Meets(pair)
  <2>1. PICK p, q : p = pair[2] /\ q = pair[1]
    OBVIOUS
  <2>2. p \in Ids /\ q \in Ids /\ view[p] \in NodeStates /\ view[q] \in NodeStates
    BY <1>2, <2>1 DEF Meets, Views
  <2>3. PICK sync : sync = PeerSync(view[p], view[q])
    OBVIOUS
  <2>4. sync \in PeerSyncs
    BY <2>2, <2>3, PeerSyncType
  <2>5. PICK node : node = [view[p] EXCEPT !.syncs = Append(view[p].syncs, sync)]
    OBVIOUS
  <2>6. /\ node \in NodeStates /\ node.syncs = Append(view[p].syncs, sync)
        /\ node.height = view[p].height /\ node.root = view[p].root
    <3>1. Append(view[p].syncs, sync) \in Seq(PeerSyncs)
      BY <2>2, <2>4 DEF NodeStates, PeerSyncs
    <3> QED BY <2>2, <2>5, <3>1 DEF NodeStates, PeerSyncs
  <2>7. Hears(view, pair) = [view EXCEPT ![p] = node]
    BY <1>2, <2>1, <2>3, <2>5 DEF Hears, Meets
  <2>8. [view EXCEPT ![p] = node] \in Views
    BY <2>2, <2>6 DEF Views
  <2>9. \A i \in Ids : [view EXCEPT ![p] = node][i] = IF i = p THEN node ELSE view[i]
    BY <2>2 DEF Views
  <2>10. SameChain(Hears(view, pair), view)
    BY <2>6, <2>7, <2>9 DEF SameChain
  <2>11. \A i \in Ids : i # p => Hears(view, pair)[i] = view[i]
    BY <2>7, <2>9
  <2>12. Hears(view, pair)[p].syncs = Append(view[p].syncs, PeerSync(view[p], view[q]))
    BY <2>2, <2>3, <2>6, <2>7, <2>9
  <2> QED BY <1>2, <2>1, <2>7, <2>8, <2>10, <2>11, <2>12
<1> QED BY <1>1, <1>2

\* The nodes after each exchange.
IsGossip(run) ==
  /\ run \in [0 .. Len(schedule) -> Views] /\ run[0] = nodes
  /\ \A n \in 1 .. Len(schedule) : run[n] = Hears(run[n - 1], schedule[n])

LEMMA GossipRuns ==
  ASSUME nodes \in Views, schedule \in Seq(Nat \X Nat)
  PROVE  \E run : IsGossip(run) /\ Gossiped = run[Len(schedule)]
<1> DEFINE f == [entry \in Views \X (Nat \X Nat) |-> Hears(entry[1], entry[2])]
<1>1. f \in [Views \X (Nat \X Nat) -> Views]
  BY HearsOne
<1>2. \A view \in Views : \A pair \in Nat \X Nat : f[<<view, pair>>] = Hears(view, pair)
  OBVIOUS
<1> HIDE DEF f
<1>3. PICK run : RunsThrough(run, f, Views, nodes, schedule)
  BY <1>1, RunThroughExists
<1>4. IsGossip(run)
  <2>1. ASSUME NEW n \in 1 .. Len(schedule) PROVE run[n] = Hears(run[n - 1], schedule[n])
    <3>1. n - 1 \in 0 .. Len(schedule) /\ schedule[n] \in Nat \X Nat
      OBVIOUS
    <3>2. run[n - 1] \in Views /\ run[n] = f[<<run[n - 1], schedule[n]>>]
      BY <1>3, <3>1 DEF RunsThrough
    <3> QED BY <1>2, <3>1, <3>2
  <2> QED BY <1>3, <2>1 DEF IsGossip, RunsThrough
<1> DEFINE Body(g, n) == IF n = 0 THEN nodes ELSE Hears(g[n - 1], schedule[n])
           g == CHOOSE g : g = [n \in 0 .. Len(schedule) |-> Body(g, n)]
<1>5. Gossiped = g[Len(schedule)]
  BY DEF Gossiped
<1>6. g = [n \in 0 .. Len(schedule) |-> Body(g, n)]
  <2>1. ASSUME NEW n \in 0 .. Len(schedule) PROVE run[n] = Body(run, n)
    BY <1>4 DEF IsGossip
  <2>2. run = [n \in 0 .. Len(schedule) |-> Body(run, n)]
    BY <1>4, <2>1 DEF IsGossip
  <2> QED BY <2>2
<1> HIDE DEF g
<1> DEFINE Same == {n \in Nat : n <= Len(schedule) => g[n] = run[n]}
<1>7. 0 \in Same
  BY <1>4, <1>6 DEF IsGossip
<1>8. ASSUME NEW n \in Same PROVE n + 1 \in Same
  <2> SUFFICES ASSUME n + 1 <= Len(schedule) PROVE g[n + 1] = run[n + 1]
    OBVIOUS
  <2>1. /\ n \in Nat /\ g[n] = run[n] /\ n + 1 \in 0 .. Len(schedule)
        /\ n + 1 \in 1 .. Len(schedule) /\ n + 1 # 0 /\ (n + 1) - 1 = n
    OBVIOUS
  <2>2. g[n + 1] = Hears(g[n], schedule[n + 1])
    BY <1>6, <2>1
  <2>3. run[n + 1] = Hears(run[n], schedule[n + 1])
    BY <1>4, <2>1 DEF IsGossip
  <2> QED BY <2>1, <2>2, <2>3
<1>9. Same = Nat
  <2>1. Same \in SUBSET Nat
    OBVIOUS
  <2> HIDE DEF Same
  <2> QED BY <1>7, <1>8, <2>1, ClosedSetIsNat
<1>10. Gossiped = run[Len(schedule)]
  BY <1>5, <1>9
<1> QED BY <1>4, <1>10

\* The gossip of nodes that agree leaves every receiver of the schedule in sync.
LEMMA GossipedInSync ==
  ASSUME nodes \in Views, schedule \in Seq(Nat \X Nat),
         \A i \in Ids : nodes[i].height = 0 /\ nodes[i].root = EngineRoot
  PROVE  /\ Gossiped \in Views
         /\ \A i \in Receivers : HeardInSync(Gossiped[i])
<1>1. PICK run : IsGossip(run) /\ Gossiped = run[Len(schedule)]
  BY GossipRuns
<1> DEFINE Fresh(view) == \A i \in Ids : view[i].height = 0 /\ view[i].root = EngineRoot
           Told(n) == \A k \in 1 .. n : Meets(schedule[k]) => HeardInSync(run[n][schedule[k][2]])
           Good == {n \in Nat : n <= Len(schedule) => Fresh(run[n]) /\ Told(n)}
<1>2. 0 \in Good
  BY <1>1 DEF IsGossip
<1> HIDE DEF Fresh, Told
<1>3. ASSUME NEW n \in Good PROVE n + 1 \in Good
  <2> SUFFICES ASSUME n + 1 <= Len(schedule) PROVE Fresh(run[n + 1]) /\ Told(n + 1)
    OBVIOUS
  <2>1. /\ n \in Nat /\ Fresh(run[n]) /\ Told(n) /\ n + 1 \in 1 .. Len(schedule)
        /\ n \in 0 .. Len(schedule) /\ (n + 1) - 1 = n
    OBVIOUS
  <2>2. PICK view : view = run[n]
    OBVIOUS
  <2>3. PICK pair : pair = schedule[n + 1]
    OBVIOUS
  <2>4. view \in Views /\ pair \in Nat \X Nat /\ run[n + 1] = Hears(view, pair)
    <3>1. run[n] \in Views
      BY <1>1, <2>1 DEF IsGossip
    <3>2. run[n + 1] = Hears(run[n], schedule[n + 1])
      BY <1>1, <2>1 DEF IsGossip
    <3>3. schedule[n + 1] \in Nat \X Nat
      BY <2>1
    <3> QED BY <2>2, <2>3, <3>1, <3>2, <3>3
  <2>5. Fresh(run[n + 1])
    <3>1. SameChain(run[n + 1], view)
      BY <2>4, HearsOne
    <3> QED BY <2>1, <2>2, <3>1 DEF SameChain, Fresh
  <2>6. Meets(pair) => HeardInSync(run[n + 1][pair[2]])
    <3> SUFFICES ASSUME Meets(pair) PROVE HeardInSync(run[n + 1][pair[2]])
      OBVIOUS
    <3>1. PICK p, q : p = pair[2] /\ q = pair[1]
      OBVIOUS
    <3>2. p \in Ids /\ q \in Ids /\ view[p] \in NodeStates /\ view[q] \in NodeStates
      BY <2>4, <3>1 DEF Meets, Views
    <3>3. PICK sync : sync = PeerSync(view[p], view[q])
      OBVIOUS
    <3>4. sync \in PeerSyncs /\ sync.status = "IN_SYNC"
      <4>1. view[p].height = view[q].height /\ view[p].root = view[q].root
        BY <2>1, <2>2, <3>2 DEF Fresh
      <4> QED BY <3>2, <3>3, <4>1, PeerSyncType
    <3>5. run[n + 1][p].syncs = Append(view[p].syncs, sync)
      <4>1. Hears(view, pair)[pair[2]].syncs =
              Append(view[pair[2]].syncs, PeerSync(view[pair[2]], view[pair[1]]))
        BY <2>4, HearsOne
      <4> QED BY <2>4, <3>1, <3>3, <4>1
    <3>6. view[p].syncs \in Seq(PeerSyncs)
      BY <3>2 DEF NodeStates, PeerSyncs
    <3>7. run[n + 1][p].syncs # <<>> /\ Last(run[n + 1][p].syncs) = sync
      <4>1. PICK heard : heard = view[p].syncs
        OBVIOUS
      <4>2. Append(heard, sync) # <<>> /\ Last(Append(heard, sync)) = sync
        BY SMTT(30), <3>4, <3>6, <4>1, AppendPrefixes
      <4> QED BY <3>5, <4>1, <4>2
    <3> QED BY <3>1, <3>4, <3>7 DEF HeardInSync
  <2>7. ASSUME NEW k \in 1 .. n + 1, Meets(schedule[k])
        PROVE  HeardInSync(run[n + 1][schedule[k][2]])
    <3>1. PICK i : i = schedule[k][2]
      OBVIOUS
    <3>2. i \in Ids
      BY <2>7, <3>1 DEF Meets
    <3>3. CASE Meets(pair) /\ i = pair[2]
      BY <2>6, <3>1, <3>3
    <3>4. CASE ~(Meets(pair) /\ i = pair[2])
      <4>1. run[n + 1][i] = view[i]
        BY <2>4, <3>2, <3>4, HearsOne
      <4>2. k \in 1 .. n
        <5>1. k # n + 1
          BY <2>3, <2>7, <3>1, <3>4
        <5> QED BY <2>1, <5>1
      <4>3. HeardInSync(view[i])
        BY <2>1, <2>2, <2>7, <3>1, <4>2 DEF Told
      <4> QED BY <3>1, <4>1, <4>3
    <3> QED BY <3>3, <3>4
  <2>8. Told(n + 1)
    BY <2>7 DEF Told
  <2> QED BY <2>5, <2>8
<1>4. Good = Nat
  <2>1. Good \in SUBSET Nat
    OBVIOUS
  <2> HIDE DEF Good
  <2> QED BY <1>2, <1>3, <2>1, ClosedSetIsNat
<1>5. Len(schedule) \in Nat /\ Len(schedule) \in 0 .. Len(schedule)
  OBVIOUS
<1>6. Told(Len(schedule))
  BY <1>4, <1>5
<1>7. Gossiped \in Views
  BY <1>1, <1>5 DEF IsGossip
<1>8. ASSUME NEW i \in Receivers PROVE HeardInSync(Gossiped[i])
  <2>1. PICK k \in DOMAIN schedule : Meets(schedule[k]) /\ i = schedule[k][2]
    BY DEF Receivers, Meets
  <2>2. k \in 1 .. Len(schedule)
    OBVIOUS
  <2> QED BY <1>1, <1>6, <2>1, <2>2 DEF Told
<1> QED BY <1>7, <1>8

-----------------------------------------------------------------------------
(* The score is 100 exactly when every node is in sync.                    *)

LEMMA Percentage ==
  ASSUME NEW n \in Nat, NEW c \in Nat \ {0}, n <= c
  PROVE  /\ (n * 100) \div c \in 0 .. 100
         /\ (n * 100) \div c = 100 <=> n = c
<1>1. PICK q : q = (n * 100) \div c
  OBVIOUS
<1>2. q \in Nat /\ c * q <= n * 100 /\ n * 100 < c * q + c
  BY <1>1, Z3
<1>3. q <= 100
  <2> SUFFICES ASSUME q >= 101 PROVE FALSE
    BY <1>2
  <2>1. q - 101 \in Nat /\ q = 101 + (q - 101)
    BY <1>2
  <2>2. PICK d \in Nat : q = 101 + d
    BY <2>1
  <2>3. c * q = c * 101 + c * d /\ c * d \in Nat
    BY <2>2
  <2> QED BY <1>2, <2>3
<1>4. n = c => q = 100
  <2> SUFFICES ASSUME n = c, q <= 99 PROVE FALSE
    BY <1>2, <1>3
  <2>1. 99 - q \in Nat /\ 99 = q + (99 - q)
    BY <1>2
  <2>2. PICK d \in Nat : 99 = q + d
    BY <2>1
  <2>3. c * 99 = c * q + c * d /\ c * d \in Nat
    BY <1>2, <2>2
  <2> QED BY <1>2, <2>3
<1>5. q = 100 => n = c
  BY <1>2
<1> QED BY <1>1, <1>2, <1>3, <1>4, <1>5

LEMMA CoherenceFields ==
  /\ Coherence.inSync = Cardinality(InSync)
  /\ Coherence.score = (Cardinality(InSync) * 100) \div ClusterSize
BY DEF Coherence

LEMMA ScoreOfInSync ==
  /\ Coherence.score \in 0 .. 100
  /\ Coherence.score = 100 <=> InSync = Ids
<1>1. IsFiniteSet(Ids) /\ Cardinality(Ids) = ClusterSize
  BY ClusterAssumption, FS_Interval DEF Ids
<1>2. InSync \subseteq Ids
  BY DEF InSync
<1>3. /\ Cardinality(InSync) \in Nat /\ Cardinality(InSync) <= ClusterSize
      /\ Cardinality(InSync) = ClusterSize <=> InSync = Ids
  BY <1>1, <1>2, FS_Subset, FS_CardinalityType
<1>4. ClusterSize \in Nat \ {0}
  BY ClusterAssumption
<1> HIDE DEF InSync
<1> QED BY SMTT(30), <1>3, <1>4, Percentage, CoherenceFields

-----------------------------------------------------------------------------
(* The invariant of a cycle says what each phase finds.                    *)

RootsOf(view) == <<"mesh_root", [i \in Ids |-> view[i].root]>>

ClusterTyped ==
  /\ nodes \in Views /\ schedule \in Seq(Nat \X Nat) /\ ticks \in 0 .. 9 * MaxCycles
  /\ coherence.score \in 0 .. 100 /\ clusterStable \in BOOLEAN

FreshAfterEngines ==
  Phase(1) => \A i \in Ids : nodes[i].height = 0 /\ nodes[i].root = EngineRoot

ReceiversInSync ==
  ticks % 9 \in 2 .. 8 \/ (ticks > 0 /\ Phase(0)) => \A i \in Receivers : HeardInSync(nodes[i])

EpochOfNodes == ticks % 9 \in 4 .. 8 => meshEpoch.root = RootsOf(nodes)

AnchorOfNodes ==
  ticks % 9 \in 5 .. 8 =>
    meshAnchor.epoch.root = RootsOf(nodes) /\ meshAnchor.inSync = Cardinality(InSync)

StableIsInSync == ticks > 0 /\ Phase(0) => (clusterStable <=> InSync = Ids)

ClusterInv ==
  /\ ClusterTyped /\ FreshAfterEngines /\ ReceiversInSync
  /\ EpochOfNodes /\ AnchorOfNodes /\ StableIsInSync

LEMMA ReceiversAreNodes == Receivers \subseteq Ids
BY DEF Receivers

LEMMA ClusterInvImplies == ClusterInv => ClusterTypeOK /\ CycleSound
<1> SUFFICES ASSUME ClusterInv PROVE ClusterTypeOK /\ CycleSound
  OBVIOUS
<1>1. ClusterTypeOK
  <2>1. ASSUME NEW i \in Ids
        PROVE  /\ nodes[i].height \in Nat
               /\ \A k \in DOMAIN nodes[i].syncs : nodes[i].syncs[k].status \in SyncStatuses
               /\ nodes[i].status \in {"UNKNOWN", "CONSISTENT", "INCONSISTENT"}
    <3>1. nodes[i] \in NodeStates
      BY DEF ClusterInv, ClusterTyped, Views
    <3>2. nodes[i].syncs \in Seq(PeerSyncs) /\ nodes[i].height \in Nat
          /\ nodes[i].status \in {"UNKNOWN", "CONSISTENT", "INCONSISTENT"}
      BY <3>1 DEF NodeStates, PeerSyncs
    <3>3. \A k \in DOMAIN nodes[i].syncs : nodes[i].syncs[k] \in PeerSyncs
      BY <3>2
    <3>4. \A sync \in PeerSyncs : sync.status \in SyncStatuses
      BY DEF PeerSyncs
    <3> QED BY <3>2, <3>3, <3>4
  <2> QED BY <2>1 DEF ClusterInv, ClusterTyped, ClusterTypeOK
<1>2. StableWhenGossiped
  <2> SUFFICES ASSUME ticks > 0 /\ Phase(0)
               PROVE  /\ Receivers = Ids => clusterStable
                      /\ (\E i \in Ids \ Receivers : nodes[i].syncs = <<>>) => ~clusterStable
    BY DEF StableWhenGossiped
  <2>1. \A i \in Receivers : HeardInSync(nodes[i])
    BY DEF ClusterInv, ReceiversInSync
  <2>2. clusterStable <=> InSync = Ids
    BY DEF ClusterInv, StableIsInSync
  <2>3. Receivers = Ids => InSync = Ids
    BY <2>1 DEF InSync, HeardInSync
  <2>4. (\E i \in Ids \ Receivers : nodes[i].syncs = <<>>) => InSync # Ids
    BY DEF InSync
  <2> QED BY <2>2, <2>3, <2>4, Zenon
<1>3. AnchorOfThisCycle
  BY CoherenceFields DEF ClusterInv, AnchorOfNodes, RootsOf, AnchorOfThisCycle
<1> QED BY <1>1, <1>2, <1>3 DEF CycleSound

LEMMA ClusterInvInit == ClusterInit => ClusterInv
<1> SUFFICES ASSUME ClusterInit PROVE ClusterInv
  OBVIOUS
<1>1. nodes \in Views /\ schedule \in Seq(Nat \X Nat)
  BY ClusterAssumption DEF ClusterInit, Views
<1>2. ticks = 0 /\ coherence.score = 0 /\ clusterStable = FALSE
  BY DEF ClusterInit
<1>3. ticks \in 0 .. 9 * MaxCycles /\ ticks % 9 = 0
  BY <1>2, ClusterAssumption
<1>4. clusterStable \in BOOLEAN
  BY <1>2, Zenon
<1> QED
  BY <1>1, <1>2, <1>3, <1>4
  DEF ClusterInv, ClusterTyped, FreshAfterEngines, ReceiversInSync, EpochOfNodes, AnchorOfNodes,
      StableIsInSync, Phase

LEMMA NextPhase ==
  ASSUME ticks \in Nat
  PROVE  /\ ticks % 9 \in 0 .. 8
         /\ (ticks + 1) % 9 = IF ticks % 9 = 8 THEN 0 ELSE (ticks % 9) + 1
OBVIOUS

\* A recovery takes nothing from a node that last heard that it is in sync.
LEMMA RecoveryKeeps ==
  ASSUME nodes \in Views, NEW view,
         view = [i \in Ids |-> IF i \in Requesters /\ Providers(i) # {} THEN Recovered(i) ELSE nodes[i]]
  PROVE  /\ view \in Views
         /\ \A i \in Ids : HeardInSync(nodes[i]) => view[i] = nodes[i]
<1>1. ASSUME NEW i \in Ids, Providers(i) # {} PROVE Recovered(i) \in NodeStates
  <2>1. Providers(i) \in SUBSET Nat
    BY ClusterAssumption DEF Providers, Ids
  <2>2. \E j \in Providers(i) : \A k \in Providers(i) : j <= k
    BY <1>1, <2>1, LeastNatural
  <2>3. Provider(i) \in Providers(i)
    BY <2>2 DEF Provider
  <2>4. Provider(i) \in Ids
    BY <2>3 DEF Providers
  <2>5. nodes[Provider(i)] \in NodeStates /\ nodes[i] \in NodeStates
    BY <2>4 DEF Views
  <2> QED BY <2>5 DEF Recovered, NodeStates
<1>2. ASSUME NEW i \in Ids, HeardInSync(nodes[i]) PROVE i \notin Requesters
  BY <1>2 DEF HeardInSync, Requesters
<1>3. view \in Views
  BY <1>1 DEF Views
<1>4. \A i \in Ids : HeardInSync(nodes[i]) => view[i] = nodes[i]
  BY <1>2
<1> QED BY <1>3, <1>4

LEMMA InSyncOf ==
  ASSUME \A i \in Ids : nodes'[i].syncs = nodes[i].syncs
  PROVE  InSync' = InSync
BY DEF InSync

LEMMA RunTickKeeps ==
  ASSUME ClusterInv, RunTick
  PROVE  ClusterInv'
<1> USE DEF Phase
<1>1. /\ nodes \in Views /\ schedule \in Seq(Nat \X Nat) /\ ticks \in Nat
      /\ coherence.score \in 0 .. 100 /\ clusterStable \in BOOLEAN
  BY DEF ClusterInv, ClusterTyped
<1>2. ticks' = ticks + 1 /\ ticks' \in 0 .. 9 * MaxCycles /\ ticks' > 0 /\ schedule' = schedule
  BY <1>1, ClusterAssumption DEF RunTick
<1>3. Receivers' = Receivers /\ Receivers \subseteq Ids
  BY <1>2, ReceiversAreNodes DEF Receivers
<1>4. /\ ticks % 9 \in 0 .. 8
      /\ ticks' % 9 = IF ticks % 9 = 8 THEN 0 ELSE (ticks % 9) + 1
  BY <1>1, <1>2, NextPhase
<1> DEFINE Kept == coherence' = coherence /\ clusterStable' = clusterStable
<1>5. CASE EngineStep
  <2>1. ticks % 9 = 0 /\ ticks' % 9 = 1 /\ Kept
    BY <1>4, <1>5 DEF EngineStep
  <2>2. nodes' \in Views /\ \A i \in Ids : nodes'[i].height = 0 /\ nodes'[i].root = EngineRoot
    <3>1. ASSUME NEW i \in Ids
          PROVE  [height |-> 0, root |-> EngineRoot, syncs |-> nodes[i].syncs,
                  status |-> nodes[i].status] \in NodeStates
      <4>1. nodes[i] \in NodeStates /\ EngineRoot \in StateRoots
        BY <1>1 DEF Views, StateRoots
      <4> QED BY <4>1 DEF NodeStates
    <3> QED BY <1>5, <3>1 DEF EngineStep, Views
  <2>3. ClusterTyped'
    BY <1>1, <1>2, <2>1, <2>2 DEF ClusterTyped
  <2> QED
    BY <2>1, <2>2, <2>3 DEF ClusterInv, FreshAfterEngines, ReceiversInSync, EpochOfNodes,
      AnchorOfNodes, StableIsInSync
<1>6. CASE GossipPeerSync
  <2>1. ticks % 9 = 1 /\ ticks' % 9 = 2 /\ nodes' = Gossiped /\ Kept
    BY <1>4, <1>6 DEF GossipPeerSync
  <2>2. nodes' \in Views /\ \A i \in Receivers : HeardInSync(nodes'[i])
    BY <1>1, <2>1, GossipedInSync DEF ClusterInv, FreshAfterEngines
  <2>3. ClusterTyped'
    BY <1>1, <1>2, <2>1, <2>2 DEF ClusterTyped
  <2>4. ReceiversInSync'
    BY <1>3, <2>2 DEF ReceiversInSync, HeardInSync
  <2> QED
    BY <2>1, <2>3, <2>4 DEF ClusterInv, FreshAfterEngines, EpochOfNodes, AnchorOfNodes, StableIsInSync
<1>7. CASE Recovery
  <2>1. ticks % 9 = 2 /\ ticks' % 9 = 3 /\ Kept
    BY <1>4, <1>7 DEF Recovery
  <2>2. nodes' \in Views /\ \A i \in Ids : HeardInSync(nodes[i]) => nodes'[i] = nodes[i]
    BY <1>1, <1>7, RecoveryKeeps DEF Recovery
  <2>3. \A i \in Receivers : HeardInSync(nodes'[i])
    BY <1>3, <2>1, <2>2 DEF ClusterInv, ReceiversInSync
  <2>4. ClusterTyped'
    BY <1>1, <1>2, <2>1, <2>2 DEF ClusterTyped
  <2>5. ReceiversInSync'
    BY <1>3, <2>3 DEF ReceiversInSync, HeardInSync
  <2> QED
    BY <2>1, <2>4, <2>5 DEF ClusterInv, FreshAfterEngines, EpochOfNodes, AnchorOfNodes, StableIsInSync
<1>8. ASSUME nodes' \in Views, ticks % 9 \in 3 .. 8,
             \A i \in Ids : nodes'[i].syncs = nodes[i].syncs /\ nodes'[i].root = nodes[i].root
      PROVE  /\ ReceiversInSync' /\ FreshAfterEngines'
             /\ RootsOf(nodes') = RootsOf(nodes) /\ InSync' = InSync
  <2>1. \A i \in Receivers : HeardInSync(nodes'[i])
    BY <1>3, <1>8 DEF ClusterInv, ReceiversInSync, HeardInSync
  <2>2. ReceiversInSync'
    BY <1>3, <2>1 DEF ReceiversInSync, HeardInSync
  <2>3. FreshAfterEngines'
    BY <1>4, <1>8 DEF FreshAfterEngines
  <2>4. RootsOf(nodes') = RootsOf(nodes)
    BY <1>8 DEF RootsOf
  <2>5. InSync' = InSync
    BY <1>8, InSyncOf
  <2> QED BY <2>2, <2>3, <2>4, <2>5
<1>9. CASE MeshEpochBuild
  <2>1. /\ ticks % 9 = 3 /\ ticks' % 9 = 4 /\ nodes' = nodes /\ Kept
        /\ meshEpoch'.root = RootsOf(nodes)
    BY <1>4, <1>9 DEF MeshEpochBuild, RootsOf
  <2>2. ClusterTyped'
    BY <1>1, <1>2, <2>1 DEF ClusterTyped
  <2>3. EpochOfNodes'
    BY <2>1 DEF EpochOfNodes, RootsOf
  <2>4. ReceiversInSync' /\ FreshAfterEngines'
    BY <1>1, <1>8, <2>1
  <2> QED BY <2>1, <2>2, <2>3, <2>4 DEF ClusterInv, AnchorOfNodes, StableIsInSync
<1>10. CASE MeshAnchorBuild
  <2>1. /\ ticks % 9 = 4 /\ ticks' % 9 = 5 /\ nodes' = nodes /\ meshEpoch' = meshEpoch /\ Kept
        /\ meshAnchor'.epoch = meshEpoch /\ meshAnchor'.inSync = Coherence.inSync
    BY <1>4, <1>10 DEF MeshAnchorBuild
  <2>2. ClusterTyped'
    BY <1>1, <1>2, <2>1 DEF ClusterTyped
  <2>3. /\ ReceiversInSync' /\ FreshAfterEngines'
        /\ RootsOf(nodes') = RootsOf(nodes) /\ InSync' = InSync
    BY <1>1, <1>8, <2>1
  <2>4. meshEpoch.root = RootsOf(nodes)
    BY <2>1 DEF ClusterInv, EpochOfNodes
  <2>5. EpochOfNodes' /\ AnchorOfNodes'
    BY <2>1, <2>3, <2>4, CoherenceFields DEF EpochOfNodes, AnchorOfNodes, RootsOf
  <2> QED BY <2>1, <2>2, <2>3, <2>5 DEF ClusterInv, StableIsInSync
<1>11. ASSUME nodes' \in Views, ticks % 9 \in 5 .. 7, Kept,
              meshEpoch' = meshEpoch, meshAnchor' = meshAnchor,
              \A i \in Ids : nodes'[i].syncs = nodes[i].syncs /\ nodes'[i].root = nodes[i].root
       PROVE  ClusterInv'
  <2>1. /\ ReceiversInSync' /\ FreshAfterEngines'
        /\ RootsOf(nodes') = RootsOf(nodes) /\ InSync' = InSync
    BY <1>8, <1>11
  <2>2. ClusterTyped'
    BY <1>1, <1>2, <1>11 DEF ClusterTyped
  <2>3. meshEpoch.root = RootsOf(nodes) /\ meshAnchor.epoch.root = RootsOf(nodes)
        /\ meshAnchor.inSync = Cardinality(InSync)
    BY <1>11 DEF ClusterInv, EpochOfNodes, AnchorOfNodes
  <2>4. EpochOfNodes' /\ AnchorOfNodes'
    BY <1>11, <2>1, <2>3 DEF EpochOfNodes, AnchorOfNodes, RootsOf
  <2>5. StableIsInSync'
    BY <1>4, <1>11 DEF StableIsInSync
  <2> QED BY <2>1, <2>2, <2>4, <2>5 DEF ClusterInv
<1>12. CASE StateRootAnnouncements
  BY <1>1, <1>11, <1>12 DEF StateRootAnnouncements
<1>13. CASE StateRootValidation
  <2>1. /\ ticks % 9 = 6 /\ Kept /\ meshEpoch' = meshEpoch /\ meshAnchor' = meshAnchor
        /\ \A i \in Ids : \E st \in {"CONSISTENT", "INCONSISTENT"} :
              nodes'[i] = [nodes[i] EXCEPT !.status = st]
        /\ DOMAIN nodes' = Ids /\ nodes' = [i \in Ids |-> nodes'[i]]
    BY <1>13 DEF StateRootValidation
  <2>2. ASSUME NEW i \in Ids
        PROVE  /\ nodes'[i] \in NodeStates
               /\ nodes'[i].syncs = nodes[i].syncs /\ nodes'[i].root = nodes[i].root
    <3>1. nodes[i] \in NodeStates
      BY <1>1 DEF Views
    <3>2. PICK st \in {"CONSISTENT", "INCONSISTENT"} : nodes'[i] = [nodes[i] EXCEPT !.status = st]
      BY <2>1
    <3> QED BY <3>1, <3>2 DEF NodeStates
  <2>3. nodes' \in Views
    BY <2>1, <2>2 DEF Views
  <2> QED BY <1>11, <2>1, <2>2, <2>3
<1>14. CASE TransportDelivery
  BY <1>1, <1>11, <1>14 DEF TransportDelivery
<1>15. CASE CoherenceUpdate
  <2>1. /\ ticks % 9 = 8 /\ ticks' % 9 = 0 /\ nodes' = nodes
        /\ coherence' = Coherence
    BY <1>4, <1>15 DEF CoherenceUpdate
  <2>2. clusterStable' = (Coherence.score = 100)
    BY <1>15 DEF CoherenceUpdate
  <2>3. clusterStable' \in BOOLEAN /\ (clusterStable' <=> InSync = Ids)
    <3>1. Coherence.score = 100 <=> InSync = Ids
      BY ScoreOfInSync
    <3> QED BY <2>2, <3>1, Zenon
  <2>4. ClusterTyped'
    BY <1>1, <1>2, <2>1, <2>3, ScoreOfInSync DEF ClusterTyped
  <2>5. ReceiversInSync' /\ FreshAfterEngines' /\ InSync' = InSync
    BY <1>1, <1>8, <2>1
  <2>6. EpochOfNodes' /\ AnchorOfNodes'
    BY <2>1 DEF EpochOfNodes, AnchorOfNodes
  <2>7. Ids' = Ids
    BY DEF Ids
  <2>8. StableIsInSync'
    BY <2>3, <2>5, <2>7, Zenon DEF StableIsInSync
  <2> QED BY <2>4, <2>5, <2>6, <2>8 DEF ClusterInv
<1> QED
  BY <1>5, <1>6, <1>7, <1>9, <1>10, <1>12, <1>13, <1>14, <1>15 DEF RunTick

LEMMA ClusterInvNext == ClusterInv /\ [ClusterNext]_<<syncVars, clusterVars>> => ClusterInv'
<1> SUFFICES ASSUME ClusterInv, [ClusterNext]_<<syncVars, clusterVars>> PROVE ClusterInv'
  OBVIOUS
<1>1. CASE UNCHANGED clusterVars
  <2>1. /\ nodes' = nodes /\ schedule' = schedule /\ ticks' = ticks /\ meshEpoch' = meshEpoch
        /\ meshAnchor' = meshAnchor /\ coherence' = coherence /\ clusterStable' = clusterStable
    BY <1>1 DEF clusterVars
  <2>2. ClusterTyped' /\ FreshAfterEngines'
    BY <2>1 DEF ClusterInv, ClusterTyped, FreshAfterEngines, Phase
  <2>3. ReceiversInSync'
    BY <2>1 DEF ClusterInv, ReceiversInSync, HeardInSync, Receivers, Phase
  <2>4. EpochOfNodes' /\ AnchorOfNodes' /\ StableIsInSync'
    BY <2>1 DEF ClusterInv, EpochOfNodes, AnchorOfNodes, StableIsInSync, InSync, RootsOf, Phase
  <2> QED BY <2>2, <2>3, <2>4 DEF ClusterInv
<1>2. CASE RunTick
  BY <1>2, RunTickKeeps
<1> QED BY <1>1, <1>2 DEF ClusterNext

\* The window of headers under the scheduler is the window alone: a tick replays it.
LEMMA ClusterSyncs == [ClusterNext]_<<syncVars, clusterVars>> => [SyncNext]_syncVars
BY DEF ClusterNext, RunTick, SyncNext, syncVars

\* The scheduler with its window behaves as the window does.
THEOREM ClusterRefinesSync == ClusterSpec => SyncSpec
<1>1. ClusterInit => SyncInit
  BY DEF ClusterInit
<1> QED BY <1>1, ClusterSyncs, PTL DEF ClusterSpec, SyncSpec

\* run_tick: the score is a percentage and every node keeps its type, for clusters of
\* any size.
THEOREM ClusterTypeCorrect == ClusterSpec => []ClusterTypeOK
BY ClusterInvInit, ClusterInvNext, ClusterInvImplies, PTL DEF ClusterSpec

\* run_tick: after a cycle a cluster whose gossip reaches every node is stable, and
\* one with a node that has heard nothing is not; the anchor of a cycle is that of the
\* nodes.  For clusters and schedules of any size and whatever was heard before.
THEOREM CyclesAreSound == ClusterSpec => []CycleSound
BY ClusterInvInit, ClusterInvNext, ClusterInvImplies, PTL DEF ClusterSpec

-----------------------------------------------------------------------------
(* Epoch ids as keys.  The digits of a number exist, as the limit of what  *)
(* is defined for the numbers up to n, and different numbers have          *)
(* different digits; so the order of keys is an order of the ids.          *)

DigitOf(f, n) == IF n < 10 THEN <<n>> ELSE Append(f[n \div 10], n % 10)
DigitsUpto(f, n) == f = [m \in 0 .. n |-> DigitOf(f, m)]

LEMMA DigitsUptoExist ==
  ASSUME NEW n \in Nat
  PROVE  \E f : DigitsUpto(f, n)
<1> DEFINE Good == {k \in Nat : \E f : DigitsUpto(f, k)}
<1>1. 0 \in Good
  <2> DEFINE f == [m \in 0 .. 0 |-> <<m>>]
  <2>1. \A m \in 0 .. 0 : m < 10
    OBVIOUS
  <2>2. DigitsUpto(f, 0)
    BY <2>1 DEF DigitsUpto, DigitOf
  <2> QED BY <2>2
<1>2. ASSUME NEW k \in Good PROVE k + 1 \in Good
  <2>1. PICK f : DigitsUpto(f, k)
    OBVIOUS
  <2>2. k \in Nat /\ k + 1 \in Nat
    OBVIOUS
  <2> DEFINE g == [m \in 0 .. k + 1 |-> IF m = k + 1 THEN DigitOf(f, k + 1) ELSE f[m]]
  <2>3. ASSUME NEW m \in 0 .. k + 1 PROVE g[m] = DigitOf(g, m)
    <3>1. m \in Nat /\ (m >= 10 => m \div 10 \in 0 .. k /\ m \div 10 # k + 1)
      BY <2>2
    <3>2. DigitOf(g, m) = DigitOf(f, m)
      BY <2>2, <3>1 DEF DigitOf
    <3>3. m # k + 1 => m \in 0 .. k
      BY <2>2
    <3>4. m # k + 1 => f[m] = DigitOf(f, m)
      BY <2>1, <3>3 DEF DigitsUpto
    <3> QED BY <3>2, <3>4
  <2>4. g = [m \in 0 .. k + 1 |-> DigitOf(g, m)]
    <3>1. g = [m \in 0 .. k + 1 |-> g[m]]
      OBVIOUS
    <3> HIDE DEF g
    <3> QED BY <2>3, <3>1
  <2>5. DigitsUpto(g, k + 1)
    BY <2>4 DEF DigitsUpto
  <2> HIDE DEF g
  <2> QED BY <2>2, <2>5
<1>3. Good = Nat
  <2>1. Good \in SUBSET Nat
    OBVIOUS
  <2> HIDE DEF Good
  <2> QED BY <1>1, <1>2, <2>1, ClosedSetIsNat
<1> QED BY <1>3

LEMMA DigitsUptoAgree ==
  ASSUME NEW n \in Nat, NEW k \in Nat, NEW f, NEW g, DigitsUpto(f, n), DigitsUpto(g, k),
         NEW m \in Nat, m <= n, m <= k
  PROVE  f[m] = g[m]
<1> DEFINE Bad == {i \in Nat : i <= n /\ i <= k /\ f[i] # g[i]}
<1> SUFFICES ASSUME Bad # {} PROVE FALSE
  OBVIOUS
<1>1. PICK i \in Bad : \A j \in Bad : i <= j
  <2>1. Bad \in SUBSET Nat
    OBVIOUS
  <2> HIDE DEF Bad
  <2> QED BY <2>1, LeastNatural
<1>2. i \in 0 .. n /\ i \in 0 .. k /\ f[i] # g[i]
  OBVIOUS
<1>3. f[i] = DigitOf(f, i) /\ g[i] = DigitOf(g, i)
  BY <1>2 DEF DigitsUpto
<1>4. i >= 10 => f[i \div 10] = g[i \div 10]
  <2> SUFFICES ASSUME i >= 10, f[i \div 10] # g[i \div 10] PROVE FALSE
    OBVIOUS
  <2>1. i \div 10 \in Nat /\ i \div 10 < i /\ i \div 10 <= n /\ i \div 10 <= k
    BY <1>2
  <2>2. i \div 10 \in Bad
    BY <2>1
  <2> QED BY <1>1, <2>1, <2>2
<1> QED BY <1>2, <1>3, <1>4 DEF DigitOf

LEMMA DigitsDefined == Digits = [n \in Nat |-> DigitOf(Digits, n)]
<1> DEFINE G(n) == CHOOSE f : DigitsUpto(f, n)
           F == [n \in Nat |-> G(n)[n]]
<1>1. \A n \in Nat : DigitsUpto(G(n), n)
  BY DigitsUptoExist
<1> HIDE DEF G
<1>2. ASSUME NEW n \in Nat PROVE F[n] = DigitOf(F, n)
  <2>1. F[n] = G(n)[n] /\ n \in 0 .. n
    OBVIOUS
  <2>2. G(n)[n] = DigitOf(G(n), n)
    BY <1>1, <2>1 DEF DigitsUpto
  <2>3. n >= 10 => G(n)[n \div 10] = F[n \div 10]
    <3> SUFFICES ASSUME n >= 10 PROVE G(n)[n \div 10] = F[n \div 10]
      OBVIOUS
    <3>1. PICK t : t = n \div 10
      OBVIOUS
    <3>2. t \in Nat /\ t <= n /\ t <= t
      BY <3>1
    <3>3. G(n)[t] = G(t)[t]
      BY <1>1, <3>2, DigitsUptoAgree
    <3> QED BY <3>1, <3>2, <3>3
  <2> HIDE DEF F
  <2> QED BY <2>1, <2>2, <2>3 DEF DigitOf
<1>3. F = [n \in Nat |-> DigitOf(F, n)]
  <2>1. F = [n \in Nat |-> F[n]]
    OBVIOUS
  <2> HIDE DEF F
  <2> QED BY <1>2, <2>1
<1> HIDE DEF F
<1>4. Digits = CHOOSE f : f = [n \in Nat |-> DigitOf(f, n)]
  BY DEF Digits, DigitOf
<1> QED BY <1>3, <1>4

LEMMA DigitsType ==
  /\ \A n \in Nat : Digits[n] \in Seq(Nat) /\ Len(Digits[n]) >= 1
  /\ \A n \in Nat : n < 10 => Digits[n] = <<n>>
  /\ \A n \in Nat : n >= 10 => Digits[n] = Append(Digits[n \div 10], n % 10)
<1>1. \A n \in Nat : n < 10 => Digits[n] = <<n>>
  BY DigitsDefined DEF DigitOf
<1>2. \A n \in Nat : n >= 10 => Digits[n] = Append(Digits[n \div 10], n % 10)
  BY SMTT(30), DigitsDefined DEF DigitOf
<1> DEFINE Bad == {n \in Nat : ~(Digits[n] \in Seq(Nat) /\ Len(Digits[n]) >= 1)}
<1>3. Bad = {}
  <2> SUFFICES ASSUME Bad # {} PROVE FALSE
    OBVIOUS
  <2>1. PICK n \in Bad : \A m \in Bad : n <= m
    <3>1. Bad \in SUBSET Nat
      OBVIOUS
    <3> HIDE DEF Bad
    <3> QED BY <3>1, LeastNatural
  <2>2. n \in Nat
    OBVIOUS
  <2>3. n >= 10
    <3> SUFFICES ASSUME n < 10 PROVE FALSE
      BY <2>2
    <3>1. Digits[n] = <<n>>
      BY <1>1, <2>2
    <3>2. <<n>> \in Seq(Nat) /\ Len(<<n>>) = 1
      BY <2>2
    <3>3. ~(Digits[n] \in Seq(Nat) /\ Len(Digits[n]) >= 1)
      BY <2>1
    <3> HIDE DEF Bad
    <3> QED BY <3>1, <3>2, <3>3
  <2>4. n \div 10 \in Nat /\ n \div 10 < n /\ n % 10 \in Nat
    BY <2>2, <2>3
  <2>5. n \div 10 \notin Bad
    BY <2>1, <2>2, <2>4
  <2>6. PICK front : front = Digits[n \div 10]
    OBVIOUS
  <2>7. front \in Seq(Nat) /\ Len(front) >= 1
    BY <2>4, <2>5, <2>6
  <2>8. Digits[n] = Append(front, n % 10)
    BY <1>2, <2>2, <2>3, <2>6
  <2>9. Append(front, n % 10) \in Seq(Nat) /\ Len(Append(front, n % 10)) >= 1
    BY <2>4, <2>7
  <2> QED BY <2>8, <2>9
<1> QED BY <1>1, <1>2, <1>3

LEMMA DigitsDiffer ==
  ASSUME NEW i \in Nat, NEW j \in Nat, Digits[i] = Digits[j]
  PROVE  i = j
<1> DEFINE Bad == {n \in Nat : \E m \in Nat : m # n /\ Digits[m] = Digits[n]}
<1> SUFFICES ASSUME Bad # {} PROVE FALSE
  OBVIOUS
<1>1. PICK n \in Bad : \A m \in Bad : n <= m
  <2>1. Bad \in SUBSET Nat
    OBVIOUS
  <2> HIDE DEF Bad
  <2> QED BY <2>1, LeastNatural
<1>2. PICK m \in Nat : m # n /\ Digits[m] = Digits[n]
  OBVIOUS
<1>3. n \in Nat
  OBVIOUS
<1>4. \A k \in Nat : k >= 10 => Len(Digits[k]) >= 2
  <2> SUFFICES ASSUME NEW k \in Nat, k >= 10 PROVE Len(Digits[k]) >= 2
    OBVIOUS
  <2>1. k \div 10 \in Nat /\ k % 10 \in Nat
    OBVIOUS
  <2>2. PICK front : front = Digits[k \div 10]
    OBVIOUS
  <2>3. front \in Seq(Nat) /\ Len(front) >= 1 /\ Digits[k] = Append(front, k % 10)
    BY <2>1, <2>2, DigitsType
  <2>4. Len(Append(front, k % 10)) = Len(front) + 1
    BY <2>1, <2>3
  <2> QED BY <2>3, <2>4
<1>5. \A k \in Nat : k < 10 => Len(Digits[k]) = 1 /\ Digits[k][1] = k
  <2> SUFFICES ASSUME NEW k \in Nat, k < 10 PROVE Len(Digits[k]) = 1 /\ Digits[k][1] = k
    OBVIOUS
  <2>1. Digits[k] = <<k>>
    BY DigitsType
  <2> QED BY <2>1
<1> HIDE DEF Bad
<1>6. CASE n < 10
  <2>1. m < 10
    <3> SUFFICES ASSUME m >= 10 PROVE FALSE
      OBVIOUS
    <3>1. Len(Digits[m]) >= 2 /\ Len(Digits[n]) = 1
      BY <1>3, <1>4, <1>5, <1>6
    <3> QED BY <1>2, <3>1
  <2> QED BY <1>2, <1>3, <1>5, <1>6, <2>1
<1>7. CASE n >= 10
  <2>1. m >= 10
    <3> SUFFICES ASSUME m < 10 PROVE FALSE
      OBVIOUS
    <3>1. Len(Digits[n]) >= 2 /\ Len(Digits[m]) = 1
      BY <1>3, <1>4, <1>5, <1>7
    <3> QED BY <1>2, <3>1
  <2>2. PICK a, b, c, d : a = Digits[n \div 10] /\ b = n % 10 /\ c = Digits[m \div 10] /\ d = m % 10
    OBVIOUS
  <2>3. /\ n \div 10 \in Nat /\ m \div 10 \in Nat /\ b \in Nat /\ d \in Nat
        /\ n \div 10 < n /\ n = 10 * (n \div 10) + b /\ m = 10 * (m \div 10) + d
    BY <1>3, <1>7, <2>1, <2>2
  <2>4. a \in Seq(Nat) /\ c \in Seq(Nat)
    BY <2>2, <2>3, DigitsType
  <2>5. Digits[n] = Append(a, b) /\ Digits[m] = Append(c, d)
    BY <1>3, <1>7, <2>1, <2>2, DigitsType
  <2>6. Append(a, b) = Append(c, d)
    BY <1>2, <2>5
  <2>7. a = c /\ b = d
    <3>1. b \in Nat /\ d \in Nat
      BY <2>3
    <3> QED BY <2>4, <2>6, <3>1, AppendInjective
  <2>8. m \div 10 # n \div 10
    BY <1>2, <2>3, <2>7
  <2>9. n \div 10 \in Bad
    <3> USE DEF Bad
    <3> QED BY <2>2, <2>3, <2>7, <2>8
  <2> QED BY <1>1, <1>3, <2>3, <2>9
<1> QED BY <1>3, <1>6, <1>7

\* The history of a finite buffer has each of its epochs, once.
LEMMA HistoryHasAll ==
  ASSUME IsFiniteSet(DOMAIN replayed), DOMAIN replayed \subseteq Nat
  PROVE  /\ History \in [1 .. Cardinality(DOMAIN replayed) -> DOMAIN replayed]
         /\ \A e \in DOMAIN replayed :
              \E i \in 1 .. Cardinality(DOMAIN replayed) : History[i] = e
<1> DEFINE S == DOMAIN replayed
           R == {pair \in S \X S : KeyBefore(pair[1], pair[2])}
<1>1. \A i, j \in S : <<i, j>> \in R <=> WordBefore(Digits[i], Digits[j])
  BY DEF KeyBefore, WordBefore
<1>2. Orders(R, S)
  <2> HIDE DEF R
  <2>1. ASSUME NEW i \in S, NEW j \in S PROVE i = j \/ <<i, j>> \in R \/ <<j, i>> \in R
    <3> SUFFICES ASSUME i # j PROVE <<i, j>> \in R \/ <<j, i>> \in R
      OBVIOUS
    <3>1. Digits[i] \in Seq(Nat) /\ Digits[j] \in Seq(Nat) /\ Digits[i] # Digits[j]
      BY DigitsType, DigitsDiffer
    <3> QED BY <1>1, <3>1, WordsCompared
  <2>2. ASSUME NEW i \in S, NEW j \in S, NEW k \in S, <<i, j>> \in R, <<j, k>> \in R
        PROVE  <<i, k>> \in R
    <3>1. Digits[i] \in Seq(Nat) /\ Digits[j] \in Seq(Nat) /\ Digits[k] \in Seq(Nat)
      BY DigitsType
    <3>2. WordBefore(Digits[i], Digits[j]) /\ WordBefore(Digits[j], Digits[k])
      BY <1>1, <2>2
    <3> QED BY <1>1, <3>1, <3>2, WordsChained
  <2> QED BY <2>1, <2>2 DEF Orders
<1>3. PICK q : Enumerates(q, S, R)
  <2> HIDE DEF R, S
  <2>1. IsFiniteSet(S)
    BY DEF S
  <2> QED BY <1>2, <2>1, EnumerationExists
<1> DEFINE Sorted(h) == \A i, j \in 1 .. Cardinality(S) : i < j => KeyBefore(h[i], h[j])
<1>4. q \in SetToSeqs(S) /\ Sorted(q)
  <2>1. q \in [1 .. Cardinality(S) -> S]
    BY <1>3 DEF Enumerates
  <2>2. \A i, j \in 1 .. Cardinality(S) : i < j => q[i] # q[j] /\ <<q[i], q[j]>> \in R
    BY <1>3 DEF Enumerates
  <2>3. \A i, j \in 1 .. Cardinality(S) : i # j => q[i] # q[j]
    <3> SUFFICES ASSUME NEW i \in 1 .. Cardinality(S), NEW j \in 1 .. Cardinality(S), i # j
                 PROVE  q[i] # q[j]
      OBVIOUS
    <3>1. i < j \/ j < i
      OBVIOUS
    <3> QED BY <2>2, <3>1
  <2>4. Sorted(q)
    BY <2>2
  <2> HIDE DEF S, R, Sorted
  <2> QED BY <2>1, <2>3, <2>4 DEF SetToSeqs
<1>5. History \in SetToSeqs(S) /\ History = CHOOSE h \in SetToSeqs(S) : Sorted(h)
  <2>1. History = CHOOSE h \in SetToSeqs(S) : Sorted(h)
    BY DEF History
  <2> HIDE DEF S, Sorted
  <2> QED BY <1>4, <2>1
<1>6. History \in [1 .. Cardinality(S) -> S]
      /\ \A i, j \in 1 .. Cardinality(S) : i # j => History[i] # History[j]
  <2> HIDE DEF S, Sorted
  <2> QED BY <1>5 DEF SetToSeqs
<1>7. ASSUME NEW e \in S, \A i \in 1 .. Cardinality(S) : History[i] # e PROVE FALSE
  <2>1. PICK n \in Nat : Cardinality(S) = n
    BY FS_CardinalityType
  <2>2. IsFiniteSet(S \ {e}) /\ Cardinality(S \ {e}) = n - 1
    BY <2>1, FS_RemoveElement
  <2>3. History \in [1 .. n -> S \ {e}]
    BY <1>6, <1>7, <2>1
  <2>4. IsFiniteSet(1 .. n) /\ Cardinality(1 .. n) = n
    BY <2>1, FS_Interval
  <2>5. \E i, j \in 1 .. n : i # j /\ History[i] = History[j]
    BY SMTT(30), <2>2, <2>3, <2>4, FS_PigeonHole
  <2> QED BY <1>6, <2>1, <2>5
<1> QED BY <1>6, <1>7

-----------------------------------------------------------------------------
(* The replay buffer.  A validated chain rises, so its last epoch is the   *)
(* highest; and what retention has still to remove is what the buffer has  *)
(* too much.                                                               *)

Entries == [height : SnapshotHeights, root : Roots]
Recordable == [id : EpochIds, height : SnapshotHeights, root : Roots]

LEMMA EpochIdsAreNumbers == EpochIds \in SUBSET Nat
<1> SUFFICES ASSUME NEW h \in SnapshotHeights PROVE h \div EpochLength \in Nat
  BY DEF EpochIds
<1>1. h \in Nat /\ EpochLength \in Nat \ {0}
  BY ReplayAssumption
<1> QED BY <1>1, Z3

BufferTyped ==
  /\ IsFiniteSet(DOMAIN replayed) /\ DOMAIN replayed \subseteq EpochIds
  /\ \A i \in DOMAIN replayed : replayed[i] \in Entries

LEMMA HistoryIsSequence ==
  ASSUME BufferTyped
  PROVE  /\ History \in Seq(DOMAIN replayed) /\ Len(History) = Cardinality(DOMAIN replayed)
         /\ \A e \in DOMAIN replayed : \E i \in 1 .. Len(History) : History[i] = e
<1>1. Cardinality(DOMAIN replayed) \in Nat
  BY FS_CardinalityType DEF BufferTyped
<1>2. /\ History \in [1 .. Cardinality(DOMAIN replayed) -> DOMAIN replayed]
      /\ \A e \in DOMAIN replayed :
           \E i \in 1 .. Cardinality(DOMAIN replayed) : History[i] = e
  BY HistoryHasAll, EpochIdsAreNumbers DEF BufferTyped
<1> QED BY <1>1, <1>2

LEMMA LastIsHighest ==
  ASSUME BufferTyped, ValidReplayChain, NEW e \in DOMAIN replayed
  PROVE  replayed[e].height <= PreviousHeight
<1>1. /\ History \in Seq(DOMAIN replayed)
      /\ \A d \in DOMAIN replayed : \E i \in 1 .. Len(History) : History[i] = d
  BY HistoryIsSequence
<1>2. PICK h : h = History
  OBVIOUS
<1>3. PICK S : S = DOMAIN replayed
  OBVIOUS
<1>4. PICK n \in Nat : n = Len(h)
  BY <1>1, <1>2
<1>5. PICK p \in 1 .. n : h[p] = e
  BY <1>1, <1>2, <1>4
<1>6. h \in Seq(S) /\ \A i \in 1 .. n : h[i] \in S
  BY <1>1, <1>2, <1>3, <1>4
<1> DEFINE H(i) == replayed[h[i]].height
<1>7. \A i \in 1 .. n : H(i) \in Nat
  <2>1. \A d \in S : replayed[d].height \in Nat
    BY <1>3, ReplayAssumption DEF BufferTyped, Entries
  <2> QED BY <1>6, <2>1
<1>8. \A i \in 2 .. n : H(i) >= H(i - 1)
  BY <1>2, <1>4 DEF ValidReplayChain
<1> HIDE DEF H
<1> DEFINE Good == {k \in Nat : p + k <= n => H(p) <= H(p + k)}
<1>9. 0 \in Good
  BY <1>7
<1>10. ASSUME NEW k \in Good PROVE k + 1 \in Good
  <2> SUFFICES ASSUME p + (k + 1) <= n PROVE H(p) <= H(p + (k + 1))
    OBVIOUS
  <2>1. PICK j : j = p + k
    OBVIOUS
  <2>2. j \in 1 .. n /\ j + 1 \in 2 .. n /\ (j + 1) - 1 = j /\ p + (k + 1) = j + 1 /\ H(p) <= H(j)
    BY <2>1
  <2>3. H(j + 1) >= H(j)
    BY <1>8, <2>2
  <2>4. H(p) \in Nat /\ H(j) \in Nat /\ H(j + 1) \in Nat
    BY <1>7, <2>2
  <2>5. H(p) <= H(j + 1)
    BY <2>2, <2>3, <2>4
  <2> QED BY <2>2, <2>5
<1>11. Good = Nat
  <2>1. Good \in SUBSET Nat
    OBVIOUS
  <2> HIDE DEF Good
  <2> QED BY <1>9, <1>10, <2>1, ClosedSetIsNat
<1>12. n - p \in Nat /\ p + (n - p) = n /\ n - p \in Good
  <2>1. n - p \in Nat /\ p + (n - p) = n
    BY <1>4, <1>5
  <2> QED BY <1>11, <2>1
<1>13. H(p) <= H(n)
  BY <1>4, <1>12
<1>14. h # <<>> /\ Last(h) = h[n]
  BY <1>4, <1>5, <1>6 DEF Last
<1>15. PreviousHeight = H(n)
  BY <1>2, <1>14 DEF PreviousHeight, H
<1> QED BY <1>5, <1>13, <1>15 DEF H

LEMMA PreviousHeightType == ASSUME BufferTyped PROVE PreviousHeight \in Nat
<1>1. History \in Seq(DOMAIN replayed)
  BY HistoryIsSequence
<1>2. CASE History = <<>>
  BY <1>2 DEF PreviousHeight
<1>3. CASE History # <<>>
  <2>1. Last(History) \in DOMAIN replayed
    BY <1>1, <1>3 DEF Last
  <2>2. replayed[Last(History)].height \in Nat
    BY <2>1, ReplayAssumption DEF BufferTyped, Entries
  <2> QED BY <1>3, <2>2 DEF PreviousHeight
<1> QED BY <1>2, <1>3

RetentionInv ==
  /\ epochPc # "retain" => excess = 0
  /\ epochPc = "retain" /\ trimmed => excess = Cardinality(DOMAIN replayed) - MaxReplay
  /\ epochPc # "retain" /\ trimmed => Cardinality(DOMAIN replayed) <= MaxReplay

EpochTyped ==
  /\ environment \in Environments
  /\ epochPc \in {"idle", "record", "retain"}
  /\ epochPc = "record" => current \in Recordable
  /\ epochPc # "record" => current = NoEpoch
  /\ excess \in Int /\ trimmed \in BOOLEAN
  /\ batch \in 1 .. MaxBatch /\ metrics \in 0 .. MetricsWindow
  /\ temporal \in Seq(EpochIds) /\ Len(temporal) <= TemporalWindow

EpochInv == BufferTyped /\ EpochTyped /\ RetentionInv /\ NewestIsHighest

LEMMA EpochConstants ==
  /\ MaxReplay \in Nat /\ MaxReplay >= 1 /\ MaxBatch \in Nat /\ MaxBatch >= 1
  /\ MetricsWindow \in Nat /\ MetricsWindow >= 1 /\ TemporalWindow \in Nat /\ TemporalWindow >= 1
  /\ SnapshotHeights \subseteq Nat
BY ReplayAssumption

LEMMA EpochInvImplies == EpochInv => EpochTypeOK /\ ReplaySound
<1> SUFFICES ASSUME EpochInv PROVE EpochTypeOK /\ ReplaySound
  OBVIOUS
<1> USE DEF EpochInv, BufferTyped, EpochTyped
<1>1. \A i \in DOMAIN replayed : i \in EpochIds /\ replayed[i] \in [height : SnapshotHeights, root : Roots]
  BY DEF Entries
<1>2. epochPc = "record" <=> current # NoEpoch
  BY ReplayAssumption DEF Recordable
<1>3. \A i \in 1 .. Len(temporal) : temporal[i] \in EpochIds
  OBVIOUS
<1>4. EpochTypeOK
  BY <1>1, <1>2, <1>3 DEF EpochTypeOK
<1>5. RetentionKept
  BY DEF RetentionInv, RetentionKept
<1> QED BY <1>4, <1>5 DEF ReplaySound

LEMMA EpochInvInit == EpochInit => EpochInv
<1> SUFFICES ASSUME EpochInit PROVE EpochInv
  OBVIOUS
<1>1. /\ environment \in Environments /\ replayed = <<>> /\ epochPc = "idle" /\ current = NoEpoch
      /\ excess = 0 /\ batch = 1 /\ metrics = 0 /\ temporal = <<>> /\ trimmed = TRUE
  BY DEF EpochInit
<1>2. DOMAIN replayed = {}
  BY <1>1
<1>3. IsFiniteSet(DOMAIN replayed) /\ Cardinality(DOMAIN replayed) = 0
  BY <1>2, FS_EmptySet
<1>4. BufferTyped
  BY <1>2, <1>3 DEF BufferTyped
<1>5. temporal \in Seq(EpochIds) /\ Len(temporal) <= TemporalWindow
  BY <1>1, EpochConstants
<1>6. trimmed \in BOOLEAN
  BY <1>1, Zenon
<1>7. EpochTyped
  BY <1>1, <1>5, <1>6, EpochConstants DEF EpochTyped
<1>8. RetentionInv
  BY <1>1, <1>3, EpochConstants DEF RetentionInv
<1>9. NewestIsHighest
  BY <1>1 DEF NewestIsHighest
<1> QED BY <1>4, <1>7, <1>8, <1>9 DEF EpochInv

-----------------------------------------------------------------------------
(* The steps of run_epoch.                                                 *)

\* applyTuning keeps the batch within its bounds.
LEMMA TunedInRange ==
  ASSUME batch \in 1 .. MaxBatch PROVE Tuned \in 1 .. MaxBatch
<1>1. PICK grown : grown = (batch * 10 + 99) \div 100
  OBVIOUS
<1>2. grown \in Nat
  BY <1>1, EpochConstants
<1> QED BY <1>1, <1>2, EpochConstants DEF Tuned

\* The window of the temporal buffer never outgrows its size.
LEMMA PushedWindow ==
  ASSUME NEW window \in Seq(EpochIds), Len(window) <= TemporalWindow, NEW id \in EpochIds
  PROVE  /\ PushState(window, id) \in Seq(EpochIds)
         /\ Len(PushState(window, id)) <= TemporalWindow
<1>1. PICK w : w = IF Len(window) >= TemporalWindow THEN Tail(window) ELSE window
  OBVIOUS
<1>2. w \in Seq(EpochIds) /\ Len(w) + 1 <= TemporalWindow
  <2>1. CASE Len(window) >= TemporalWindow
    <3>1. window # <<>>
      BY <2>1, EpochConstants
    <3>2. Tail(window) \in Seq(EpochIds) /\ Len(Tail(window)) = Len(window) - 1
      BY <3>1
    <3> QED BY <1>1, <2>1, <3>2, EpochConstants
  <2>2. CASE ~(Len(window) >= TemporalWindow)
    BY <1>1, <2>2, EpochConstants
  <2> QED BY <2>1, <2>2
<1>3. PushState(window, id) = w \o <<id>>
  BY <1>1 DEF PushState
<1>4. <<id>> \in Seq(EpochIds) /\ Len(<<id>>) = 1
  OBVIOUS
<1>5. w \o <<id>> \in Seq(EpochIds) /\ Len(w \o <<id>>) = Len(w) + 1
  BY <1>2, <1>4
<1> QED BY <1>2, <1>3, <1>5

LEMMA RunEpochKeeps ==
  ASSUME EpochInv, NEW bundle \in Bundles,
         NEW height \in IF ReadsClock THEN SnapshotHeights ELSE {bundle.height},
         RunEpoch(bundle, height)
  PROVE  EpochInv'
<1>1. /\ epochPc = "idle" /\ batch' = Tuned /\ environment' = environment
      /\ replayed' = replayed /\ excess' = excess /\ metrics' = metrics /\ trimmed' = trimmed
  BY DEF RunEpoch
<1>2. BufferTyped' /\ Tuned \in 1 .. MaxBatch
  BY <1>1, TunedInRange DEF EpochInv, BufferTyped, EpochTyped
<1>3. CASE epochPc' = epochPc /\ current' = current /\ temporal' = temporal
  <2>1. EpochTyped'
    BY <1>1, <1>2, <1>3 DEF EpochInv, EpochTyped
  <2>2. RetentionInv' /\ NewestIsHighest'
    BY <1>1, <1>3, Zenon DEF EpochInv, RetentionInv, NewestIsHighest
  <2> QED BY <1>2, <2>1, <2>2 DEF EpochInv
<1>4. CASE /\ Accepted(bundle, height) /\ epochPc' = "record"
           /\ current' = [id |-> bundle.id, height |-> height, root |-> bundle.root]
           /\ temporal' = PushState(temporal, bundle.id)
  <2>1. bundle.id \in EpochIds /\ bundle.height \in SnapshotHeights /\ bundle.root \in Roots
    BY ReplayAssumption
  <2>2. height \in SnapshotHeights
    BY <2>1
  <2>3. current' \in Recordable /\ current'.height = height
    BY <1>4, <2>1, <2>2 DEF Recordable
  <2>4. temporal' \in Seq(EpochIds) /\ Len(temporal') <= TemporalWindow
    BY <1>4, <2>1, PushedWindow DEF EpochInv, EpochTyped
  <2>5. EpochTyped'
    <3>1. environment' \in Environments /\ trimmed' \in BOOLEAN
      BY <1>1, Zenon DEF EpochInv, EpochTyped
    <3>2. excess' \in Int /\ batch' \in 1 .. MaxBatch /\ metrics' \in 0 .. MetricsWindow
      BY <1>1, <1>2 DEF EpochInv, EpochTyped
    <3> QED BY <1>4, <2>3, <2>4, <3>1, <3>2 DEF EpochTyped
  <2>6. RetentionInv'
    <3>1. epochPc # "retain" /\ epochPc' # "retain"
      BY <1>1, <1>4
    <3> QED BY <1>1, <3>1, Zenon DEF EpochInv, RetentionInv
  <2>7. NewestIsHighest'
    <3>1. ValidReplayChain /\ height >= PreviousHeight
      BY <1>4 DEF Accepted, ValidSnapshot
    <3>2. SUFFICES ASSUME NEW e \in DOMAIN replayed PROVE replayed[e].height <= height
      BY <1>1, <2>3 DEF NewestIsHighest
    <3>3. replayed[e].height <= PreviousHeight
      BY <3>1, LastIsHighest DEF EpochInv
    <3>4. replayed[e].height \in Nat /\ height \in Nat /\ PreviousHeight \in Int
      <4>1. replayed[e].height \in Nat /\ height \in Nat
        BY <2>2, EpochConstants DEF EpochInv, BufferTyped, Entries
      <4>2. PreviousHeight \in Int
        BY PreviousHeightType DEF EpochInv
      <4> QED BY <4>1, <4>2
    <3> QED BY <3>1, <3>3, <3>4
  <2> QED BY <1>2, <2>5, <2>6, <2>7 DEF EpochInv
<1> QED BY <1>3, <1>4 DEF RunEpoch

LEMMA RecordEpochKeeps == ASSUME EpochInv, RecordEpoch PROVE EpochInv'
<1>1. /\ epochPc = "record" /\ epochPc' = "retain" /\ current' = NoEpoch /\ trimmed' = TRUE
      /\ environment' = environment /\ batch' = batch /\ metrics' = metrics /\ temporal' = temporal
      /\ excess' = Cardinality(DOMAIN replayed') - MaxReplay
  BY DEF RecordEpoch
<1>2. replayed' = [i \in DOMAIN replayed \cup {current.id} |->
                    IF i = current.id THEN [height |-> current.height, root |-> current.root]
                                      ELSE replayed[i]]
  BY DEF RecordEpoch
<1>3. /\ current.id \in EpochIds /\ current.height \in SnapshotHeights
      /\ current.root \in Roots
  BY <1>1 DEF EpochInv, EpochTyped, Recordable
<1>4. DOMAIN replayed' = DOMAIN replayed \cup {current.id}
  BY <1>2
<1>5. IsFiniteSet(DOMAIN replayed')
  BY <1>4, FS_AddElement DEF EpochInv, BufferTyped
<1>6. BufferTyped'
  <2>1. \A i \in DOMAIN replayed' : replayed'[i] \in Entries
    BY <1>2, <1>3, <1>4 DEF EpochInv, BufferTyped, Entries
  <2> QED BY <1>3, <1>4, <1>5, <2>1 DEF EpochInv, BufferTyped
<1>7. Cardinality(DOMAIN replayed') \in Nat
  BY <1>5, FS_CardinalityType
<1>8. EpochTyped'
  <2>1. trimmed' \in BOOLEAN
    BY <1>1, Zenon
  <2>2. excess' \in Int
    BY <1>1, <1>7, EpochConstants
  <2> QED BY <1>1, <2>1, <2>2 DEF EpochInv, EpochTyped
<1>9. RetentionInv' /\ NewestIsHighest'
  BY <1>1 DEF RetentionInv, NewestIsHighest
<1> QED BY <1>6, <1>8, <1>9 DEF EpochInv

LEMMA RecordFailsKeeps == ASSUME EpochInv, RecordFails PROVE EpochInv'
<1>1. /\ epochPc = "record" /\ epochPc' = "idle" /\ current' = NoEpoch
      /\ UNCHANGED <<environment, replayed, excess, batch, metrics, temporal, trimmed>>
  BY DEF RecordFails
<1>2. BufferTyped'
  BY <1>1 DEF EpochInv, BufferTyped
<1>3. EpochTyped'
  BY <1>1 DEF EpochInv, EpochTyped
<1>4. RetentionInv'
  <2>1. epochPc # "retain" /\ epochPc' # "retain"
    BY <1>1
  <2> QED BY <1>1, <2>1, Zenon DEF EpochInv, RetentionInv
<1>5. NewestIsHighest'
  BY <1>1 DEF NewestIsHighest
<1> QED BY <1>2, <1>3, <1>4, <1>5 DEF EpochInv

LEMMA RemoveOldestKeeps == ASSUME EpochInv, RemoveOldest PROVE EpochInv'
<1>1. /\ epochPc = "retain" /\ excess > 0 /\ excess' = excess - 1
      /\ UNCHANGED <<environment, epochPc, current, batch, metrics, temporal>>
  BY DEF RemoveOldest
<1>2. NewestIsHighest'
  BY <1>1 DEF NewestIsHighest
<1>3. excess' \in Int
  BY <1>1 DEF EpochInv, EpochTyped
<1>4. CASE replayed' = replayed /\ trimmed' = FALSE
  <2>1. BufferTyped'
    BY <1>4 DEF EpochInv, BufferTyped
  <2>2. trimmed' \in BOOLEAN
    BY <1>4, Zenon
  <2>3. EpochTyped'
    BY <1>1, <1>3, <2>2 DEF EpochInv, EpochTyped
  <2>4. RetentionInv'
    <3>1. epochPc' = "retain" /\ ~trimmed'
      BY <1>1, <1>4
    <3> QED BY <3>1, Zenon DEF RetentionInv
  <2> QED BY <1>2, <2>1, <2>3, <2>4 DEF EpochInv
<1>5. CASE /\ replayed' = [i \in DOMAIN replayed \ {Head(History)} |-> replayed[i]]
           /\ trimmed' = trimmed
  <2>1. DOMAIN replayed' = DOMAIN replayed \ {Head(History)}
    BY <1>5
  <2>2. IsFiniteSet(DOMAIN replayed')
    BY <2>1, FS_Difference DEF EpochInv, BufferTyped
  <2>3. BufferTyped'
    <3>1. \A i \in DOMAIN replayed' : i \in EpochIds /\ replayed'[i] \in Entries
      BY <1>5, <2>1 DEF EpochInv, BufferTyped
    <3> QED BY <2>2, <3>1 DEF BufferTyped
  <2>4. EpochTyped'
    BY <1>1, <1>3, <1>5 DEF EpochInv, EpochTyped
  <2>5. ASSUME trimmed' PROVE excess' = Cardinality(DOMAIN replayed') - MaxReplay
    <3>1. excess = Cardinality(DOMAIN replayed) - MaxReplay
      BY <1>1, <1>5, <2>5 DEF EpochInv, RetentionInv
    <3>2. PICK n \in Nat : n = Cardinality(DOMAIN replayed)
      BY FS_CardinalityType DEF EpochInv, BufferTyped
    <3>3. n > 0
      BY <1>1, <3>1, <3>2, EpochConstants
    <3>4. Head(History) \in DOMAIN replayed
      <4>1. History \in Seq(DOMAIN replayed) /\ Len(History) = n
        BY <3>2, HistoryIsSequence DEF EpochInv
      <4> QED BY <3>3, <4>1
    <3>5. Cardinality(DOMAIN replayed') = n - 1
      BY <2>1, <3>2, <3>4, FS_RemoveElement DEF EpochInv, BufferTyped
    <3> QED BY <1>1, <3>1, <3>2, <3>5, EpochConstants
  <2>6. RetentionInv'
    <3>1. epochPc' = "retain"
      BY <1>1
    <3> QED BY <2>5, <3>1, Zenon DEF RetentionInv
  <2> QED BY <1>2, <2>3, <2>4, <2>6 DEF EpochInv
<1> QED BY <1>4, <1>5 DEF RemoveOldest

LEMMA ReturnEpochKeeps == ASSUME EpochInv, ReturnEpoch PROVE EpochInv'
<1>1. /\ epochPc = "retain" /\ excess <= 0 /\ epochPc' = "idle" /\ excess' = 0
      /\ UNCHANGED <<environment, replayed, current, batch, temporal, trimmed>>
      /\ metrics' = IF metrics < MetricsWindow THEN metrics + 1 ELSE metrics
  BY DEF ReturnEpoch
<1>2. BufferTyped'
  BY <1>1 DEF EpochInv, BufferTyped
<1>3. metrics' \in 0 .. MetricsWindow
  BY <1>1, EpochConstants DEF EpochInv, EpochTyped
<1>4. EpochTyped'
  BY <1>1, <1>3 DEF EpochInv, EpochTyped
<1>5. RetentionInv'
  <2>1. ASSUME trimmed PROVE Cardinality(DOMAIN replayed) <= MaxReplay
    <3>1. excess = Cardinality(DOMAIN replayed) - MaxReplay
      BY <1>1, <2>1 DEF EpochInv, RetentionInv
    <3>2. PICK n \in Nat : n = Cardinality(DOMAIN replayed)
      BY FS_CardinalityType DEF EpochInv, BufferTyped
    <3> QED BY <1>1, <3>1, <3>2, EpochConstants
  <2>2. epochPc' # "retain" /\ excess' = 0
    BY <1>1
  <2> QED BY <1>1, <2>1, <2>2, Zenon DEF RetentionInv
<1>6. NewestIsHighest'
  BY <1>1 DEF NewestIsHighest
<1> QED BY <1>2, <1>4, <1>5, <1>6 DEF EpochInv

LEMMA RestartRuntimeKeeps == ASSUME EpochInv, RestartRuntime PROVE EpochInv'
<1>1. /\ epochPc' = "idle" /\ current' = NoEpoch /\ excess' = 0
      /\ batch' = 1 /\ metrics' = 0 /\ temporal' = <<>>
      /\ environment' = environment /\ replayed' = replayed
  BY DEF RestartRuntime
<1>2. trimmed' = (trimmed /\ excess <= 0)
  BY DEF RestartRuntime
<1>3. BufferTyped'
  BY <1>1 DEF EpochInv, BufferTyped
<1>4. trimmed' \in BOOLEAN
  BY <1>2, Zenon
<1>5. EpochTyped'
  <2>1. temporal' \in Seq(EpochIds) /\ Len(temporal') <= TemporalWindow
    BY <1>1, EpochConstants
  <2> QED BY <1>1, <1>4, <2>1, EpochConstants DEF EpochInv, EpochTyped
<1>6. RetentionInv'
  <2>1. ASSUME trimmed, excess <= 0 PROVE Cardinality(DOMAIN replayed) <= MaxReplay
    <3>1. PICK n \in Nat : n = Cardinality(DOMAIN replayed)
      BY FS_CardinalityType DEF EpochInv, BufferTyped
    <3>2. CASE epochPc = "retain"
      <4>1. excess = n - MaxReplay
        BY <2>1, <3>1, <3>2 DEF EpochInv, RetentionInv
      <4> QED BY <2>1, <3>1, <4>1, EpochConstants
    <3>3. CASE epochPc # "retain"
      BY <2>1, <3>3 DEF EpochInv, RetentionInv
    <3> QED BY <3>2, <3>3
  <2>2. epochPc' # "retain" /\ excess' = 0
    BY <1>1
  <2>3. trimmed' => Cardinality(DOMAIN replayed') <= MaxReplay
    BY <1>1, <1>2, <2>1, Zenon
  <2> QED BY <2>2, <2>3, Zenon DEF RetentionInv
<1>7. NewestIsHighest'
  BY <1>1 DEF NewestIsHighest
<1> QED BY <1>3, <1>5, <1>6, <1>7 DEF EpochInv

LEMMA EpochInvNext == EpochInv /\ [EpochNext]_epochVars => EpochInv'
<1> SUFFICES ASSUME EpochInv, [EpochNext]_epochVars PROVE EpochInv'
  OBVIOUS
<1>1. CASE UNCHANGED epochVars
  <2>1. UNCHANGED <<environment, replayed, epochPc, current, excess, batch, metrics, temporal, trimmed>>
    BY <1>1 DEF epochVars
  <2>2. BufferTyped' /\ NewestIsHighest'
    BY <2>1 DEF EpochInv, BufferTyped, NewestIsHighest
  <2>3. EpochTyped'
    BY <2>1 DEF EpochInv, EpochTyped
  <2>4. RetentionInv'
    BY <2>1, Zenon DEF EpochInv, RetentionInv
  <2> QED BY <2>2, <2>3, <2>4 DEF EpochInv
<1>2. CASE \E bundle \in Bundles :
             \E height \in IF ReadsClock THEN SnapshotHeights ELSE {bundle.height} :
               RunEpoch(bundle, height)
  BY <1>2, RunEpochKeeps
<1>3. CASE RecordEpoch
  BY <1>3, RecordEpochKeeps
<1>4. CASE RecordFails
  BY <1>4, RecordFailsKeeps
<1>5. CASE RemoveOldest
  BY <1>5, RemoveOldestKeeps
<1>6. CASE ReturnEpoch
  BY <1>6, ReturnEpochKeeps
<1>7. CASE RestartRuntime
  BY <1>7, RestartRuntimeKeeps
<1> QED BY <1>1, <1>2, <1>3, <1>4, <1>5, <1>6, <1>7 DEF EpochNext

\* Whatever epochs are run, refused, cut short by a restart or left untrimmed by a
\* failed Delete, the height run_epoch is about to record is no lower than any in the
\* ReplayBuffer, though it compares only with the last entry in the order of the
\* keys; and a retention whose deletions all happened leaves at most
\* max_replay_epochs entries.
THEOREM ReplaysAreSound == EpochSpec => []ReplaySound
<1>1. EpochInv => ReplaySound
  BY EpochInvImplies
<1> QED BY <1>1, EpochInvInit, EpochInvNext, PTL DEF EpochSpec

\* The state of IslaRuntimeOrchestrator is typed, its windows and its batch stay
\* within their bounds, and it holds an epoch exactly while that waits to be recorded.
THEOREM EpochTypeCorrect == EpochSpec => []EpochTypeOK
<1>1. EpochInv => EpochTypeOK
  BY EpochInvImplies
<1> QED BY <1>1, EpochInvInit, EpochInvNext, PTL DEF EpochSpec

-----------------------------------------------------------------------------
(* All parts in one node.                                                  *)

LEMMA EachPartSteps ==
  [ControlNext]_<<controlVars, runtimeVars, part>> =>
    /\ [DetectorNext]_detectorVars /\ [ClusterNext]_<<syncVars, clusterVars>>
    /\ [ProtocolNext]_protocolVars /\ [BreakerNext]_breakerVars
    /\ [EpochNext]_epochVars /\ [ScriptNext]_scriptVars /\ [AuditNext]_auditVars
<1> SUFFICES ASSUME [ControlNext]_<<controlVars, runtimeVars, part>>
             PROVE  /\ [DetectorNext]_detectorVars /\ [ClusterNext]_<<syncVars, clusterVars>>
                    /\ [ProtocolNext]_protocolVars /\ [BreakerNext]_breakerVars
                    /\ [EpochNext]_epochVars /\ [ScriptNext]_scriptVars /\ [AuditNext]_auditVars
  OBVIOUS
<1>1. CASE UNCHANGED <<controlVars, runtimeVars, part>>
  BY <1>1 DEF controlVars, runtimeVars
<1>2. ScriptStep => ScriptNext
  BY DEF ScriptStep, ScriptNext
<1>3. CASE ControlNext
  BY <1>2, <1>3 DEF ControlNext, controlVars, runtimeVars, ClusterNext, ProtocolNext
<1> QED BY <1>1, <1>3

\* The node that runs them all behaves, part by part, as the detector, the cluster with
\* its header window, the governance pipeline, the circuit breaker, the epochs, the
\* interpreter and the audit trail do alone.
THEOREM ControlSideBySide ==
  ControlSpec => /\ DetectorSpec /\ ClusterSpec /\ ProtocolSpec /\ BreakerSpec
                 /\ EpochSpec /\ ScriptSpec /\ AuditSpec
<1>1. ControlInit => /\ DetectorInit /\ ClusterInit /\ ProtocolInit /\ BreakerInit
                     /\ EpochInit /\ ScriptInit /\ AuditInit
  BY DEF ControlInit
<1> QED
  BY <1>1, EachPartSteps, PTL
     DEF ControlSpec, DetectorSpec, ClusterSpec, ProtocolSpec, BreakerSpec, EpochSpec,
         ScriptSpec, AuditSpec

\* Every variable keeps its type, and windows, batches and logs their lengths, in the
\* node that runs all the parts.
THEOREM ControlTypeCorrect == ControlSpec => []ControlTypeOK
<1>1. ClusterSpec => []SyncTypeOK
  BY ClusterRefinesSync, SyncTypeCorrect, PTL
<1>2. /\ DetectorTypeOK /\ SyncTypeOK /\ ClusterTypeOK /\ ProtocolTypeOK /\ BreakerTypeOK
      /\ EpochTypeOK /\ ScriptTypeOK /\ AuditTypeOK
      => ControlTypeOK
  BY DEF ControlTypeOK
<1> QED
  BY <1>1, <1>2, ControlSideBySide, DetectorTypeCorrect, ClusterTypeCorrect, ProtocolTypeCorrect,
     BreakerTypeCorrect, EpochTypeCorrect, ScriptTypeCorrect, AuditTypeCorrect, PTL

=============================================================================
