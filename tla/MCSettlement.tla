---------------------------- MODULE MCSettlement ----------------------------
(***************************************************************************)
(* The parts of the node that settle something exactly once or keep a      *)
(* record of it: the atomic swaps, the prover swarm, the gold bridge, the  *)
(* escrow ledger and the file of snapshots.  They share no state, so TLC   *)
(* explores them one at a time: part says which of them takes steps.       *)
(***************************************************************************)
EXTENDS AtomicSwap, ProverSwarm, GoldBridge, EscrowLedger, SnapshotFile

CONSTANTS alice, bob, s1, s2, j1, j2, u1, l1, c1, c2, b1, w1, w2, a1, a2, x1

VARIABLE part

\* One unit is 1/20, so alpha is 1 and beta 2; a slow result takes four seconds.
MCLatencies == {0, 80}

MCWeightOf == [c \in Coins |-> IF c = c1 THEN 1 ELSE 10]

SettlementInit ==
  /\ Init /\ SwarmInit /\ GoldInit /\ LedgerInit /\ FileInit
  /\ part \in {"swaps", "swarm", "gold", "ledger", "snapshots"}

SettlementNext ==
  /\ UNCHANGED part
  /\ \/ part = "swaps" /\ Next /\ UNCHANGED <<swarmVars, goldVars, ledgerVars, fileVars>>
     \/ part = "swarm" /\ SwarmNext /\ UNCHANGED <<vars, goldVars, ledgerVars, fileVars>>
     \/ part = "gold" /\ GoldNext /\ UNCHANGED <<vars, swarmVars, ledgerVars, fileVars>>
     \/ part = "ledger" /\ LedgerNext /\ UNCHANGED <<vars, swarmVars, goldVars, fileVars>>
     \/ part = "snapshots" /\ FileNext /\ UNCHANGED <<vars, swarmVars, goldVars, ledgerVars>>

SettlementSpec ==
  SettlementInit /\ [][SettlementNext]_<<vars, swarmVars, goldVars, ledgerVars, fileVars, part>>

\* Every variable of the parts has its type; balances and reputations keep their range.
SettlementTypeOK == SwapTypeOK /\ SwarmTypeOK /\ GoldTypeOK /\ LedgerTypeOK

=============================================================================
