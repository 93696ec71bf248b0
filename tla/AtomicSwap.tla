----------------------------- MODULE AtomicSwap -----------------------------
(***************************************************************************)
(* The hash-time-locked swaps of src/l2/ailee_sidechain_bridge.h: class    *)
(* AtomicSwap and the bridge's map of them, which is only in memory.  A    *)
(* swap id is a hash of the two parties and the second of its creation.    *)
(***************************************************************************)
EXTENDS Integers, FiniteSets, Maps

CONSTANTS
  Parties,     \* addresses
  Secrets,     \* secrets a claim may present; each is its own hash lock
  Durations,   \* time lock durations asked for, in seconds
  MaxClock, MaxSwaps     \* bounds for model checking

ASSUME SwapAssumption ==
  Durations \subseteq Nat /\ MaxClock \in Nat /\ MaxSwaps \in Nat

VARIABLES
  atomicSwaps,  \* SidechainBridge::atomicSwaps_
  clock         \* system_clock, in seconds; assumed never to be set back

vars == <<atomicSwaps, clock>>

SwapIds == [A : Parties, B : Parties, time : Nat]

\* claimed is {"A"} when claimedByA and not claimedByB, and so on.
SwapData == [hashLock : Secrets, timelock : Nat,
             claimed : SUBSET {"A", "B"}, refunded : SUBSET {"A", "B"}]

\* Fault: the id is made from the time lock, not from the current time.
CreateNamedByTimelock(A, B, hashLock, duration) ==
  /\ Cardinality(DOMAIN atomicSwaps) < MaxSwaps
  /\ atomicSwaps' = Put(atomicSwaps, [A |-> A, B |-> B, time |-> clock + duration],
                        [hashLock |-> hashLock, timelock |-> clock + duration,
                         claimed |-> {}, refunded |-> {}])
  /\ UNCHANGED clock

\* The parties are taken to be different; the code does not compare them.
\* A swap of the same parties within the same second is replaced.
CreateAtomicSwap(A, B, hashLock, duration) ==
  /\ Cardinality(DOMAIN atomicSwaps \cup {[A |-> A, B |-> B, time |-> clock]}) <= MaxSwaps
  /\ atomicSwaps' = Put(atomicSwaps, [A |-> A, B |-> B, time |-> clock],
                        [hashLock |-> hashLock, timelock |-> clock + duration,
                         claimed |-> {}, refunded |-> {}])
  /\ UNCHANGED clock

\* Fault: the last second of the time lock is left to both sides.
ClaimToTheEnd(id, side, secret) ==
  /\ id \in DOMAIN atomicSwaps
  /\ secret = atomicSwaps[id].hashLock
  /\ clock <= atomicSwaps[id].timelock
  /\ side \notin atomicSwaps[id].claimed
  /\ atomicSwaps' = [atomicSwaps EXCEPT ![id].claimed = @ \cup {side}]
  /\ UNCHANGED clock

\* One secret opens both legs.
ClaimAtomicSwap(id, side, secret) ==
  /\ id \in DOMAIN atomicSwaps
  /\ secret = atomicSwaps[id].hashLock
  /\ clock < atomicSwaps[id].timelock
  /\ side \notin atomicSwaps[id].claimed
  /\ atomicSwaps' = [atomicSwaps EXCEPT ![id].claimed = @ \cup {side}]
  /\ UNCHANGED clock

RefundAtomicSwap(id, side) ==
  /\ id \in DOMAIN atomicSwaps
  /\ clock >= atomicSwaps[id].timelock
  /\ side \notin atomicSwaps[id].claimed \cup atomicSwaps[id].refunded
  /\ atomicSwaps' = [atomicSwaps EXCEPT ![id].refunded = @ \cup {side}]
  /\ UNCHANGED clock

Tick ==
  /\ clock < MaxClock
  /\ clock' = clock + 1
  /\ UNCHANGED atomicSwaps

\* No swap is stored: a new process has none.
Restart ==
  /\ atomicSwaps' = EmptyMap
  /\ UNCHANGED clock

Init == atomicSwaps = EmptyMap /\ clock = 0

Next ==
  \/ \E A, B \in Parties, hashLock \in Secrets, duration \in Durations :
       A # B /\ CreateAtomicSwap(A, B, hashLock, duration)
  \/ \E id \in DOMAIN atomicSwaps, side \in {"A", "B"} :
       \/ \E secret \in Secrets : ClaimAtomicSwap(id, side, secret)
       \/ RefundAtomicSwap(id, side)
  \/ Tick
  \/ Restart

Spec == Init /\ [][Next]_vars

-----------------------------------------------------------------------------
(* Properties.                                                             *)

\* claim does not look at refundedA and refundedB; the time lock alone keeps a
\* leg that was refunded from being claimed, and one that was claimed from being
\* refunded, in the last second of the lock too.
LegSettledOnce ==
  \A id \in DOMAIN atomicSwaps :
    atomicSwaps[id].claimed \cap atomicSwaps[id].refunded = {}

\* The set of swaps has its type, and no swap was made in the future.
SwapTypeOK ==
  /\ IsMap(atomicSwaps, SwapIds, SwapData)
  /\ \A id \in DOMAIN atomicSwaps : id.time <= clock

=============================================================================
