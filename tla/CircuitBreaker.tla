--------------------------- MODULE CircuitBreaker ---------------------------
(***************************************************************************)
(* CircuitBreaker::monitor (src/security/ailee_circuit_breaker.cpp), once  *)
(* per block as the main program calls it.                                 *)
(*                                                                         *)
(* A reading is the set of the limits it exceeds, which monitor looks at   *)
(* in a fixed order: "red" for the block size, the latency and the peers,  *)
(* "surge" for the entropy delta, "low" for the energy score, "drift", and *)
(* "many" for three soft signals at once.                                  *)
(***************************************************************************)
EXTENDS Integers

CONSTANTS
  Hysteresis,      \* TRANSITION_HYSTERESIS_BLOCKS, 10 in the code
  MaxBlocks        \* bound on the block height

ASSUME BreakerAssumption == Hysteresis \in Nat \ {0, 1} /\ MaxBlocks \in Nat \ {0}

VARIABLES
  lastState,            \* BreakerState::lastState
  lastTransition,       \* BreakerState::lastTransitionHeight
  block,                \* breakerTestBlockHeight_
  lowRun                \* history: the blocks since the energy score is low without SAFE_MODE

breakerVars == <<lastState, lastTransition, block, lowRun>>

Signals == {"red", "surge", "low", "drift", "many"}

BreakerInit == lastState = "OPTIMIZED" /\ lastTransition = 0 /\ block = 1 /\ lowRun = 0

AllowTransition == block < lastTransition \/ block - lastTransition >= Hysteresis

\* Fault: a refused transition counts as one.
EscalateRestarting ==
  IF lastState = "SOFT_TRIP"
    THEN /\ lastState' = IF AllowTransition THEN "SAFE_MODE" ELSE "SOFT_TRIP"
         /\ lastTransition' = block
    ELSE lastState' = "SOFT_TRIP" /\ UNCHANGED lastTransition

\* Low energy: SOFT_TRIP, and SAFE_MODE when it already was and may change.
Escalate ==
  IF lastState = "SOFT_TRIP" /\ AllowTransition
    THEN lastState' = "SAFE_MODE" /\ lastTransition' = block
    ELSE lastState' = "SOFT_TRIP" /\ UNCHANGED lastTransition

\* Fault: the height of the next transition is stored.
SurgeUntil ==
  IF AllowTransition
    THEN lastState' = "SOFT_TRIP" /\ lastTransition' = block + Hysteresis
    ELSE UNCHANGED <<lastState, lastTransition>>

\* A surge that comes too early leaves the state as it is, OPTIMIZED included.
Surge ==
  IF AllowTransition
    THEN lastState' = "SOFT_TRIP" /\ lastTransition' = block
    ELSE UNCHANGED <<lastState, lastTransition>>

Monitor(reading) ==
  /\ block < MaxBlocks
  /\ block' = block + 1
  /\ \/ "red" \in reading /\ lastState' = "SAFE_MODE" /\ UNCHANGED lastTransition
     \/ "red" \notin reading /\ "surge" \in reading /\ Surge
     \/ reading \cap {"red", "surge"} = {} /\ "low" \in reading /\ Escalate
     \/ /\ reading \cap {"red", "surge", "low"} = {}
        /\ lastState' = IF reading = {} THEN "OPTIMIZED" ELSE "SAFE_MODE"
        /\ UNCHANGED lastTransition
  /\ lowRun' = IF "low" \in reading /\ reading \cap {"red", "surge"} = {} /\ lastState' = "SOFT_TRIP"
                 THEN lowRun + 1 ELSE 0

BreakerNext == \E reading \in SUBSET Signals : Monitor(reading)

BreakerSpec == BreakerInit /\ [][BreakerNext]_breakerVars

-----------------------------------------------------------------------------
(* Properties.                                                             *)

\* Every variable has its type, the last transition lies in the past, and the state
\* CRITICAL, which the main program stops for, is never reached.
BreakerTypeOK ==
  /\ lastState \in {"OPTIMIZED", "SOFT_TRIP", "SAFE_MODE"}
  /\ lastTransition \in 0 .. MaxBlocks /\ lastTransition <= block
  /\ block \in 1 .. MaxBlocks /\ lowRun \in Nat

\* "Persistent low EIS - escalating to SAFE_MODE": an energy score that stays low
\* escalates before the hysteresis is over, whatever surges, alarms and transitions
\* came before.
LowEnergyEscalates == lowRun < Hysteresis

=============================================================================
