--------------------------- MODULE MCEpochReplay ---------------------------
(***************************************************************************)
(* The orchestrator and its replay buffer alone: every epoch follows the   *)
(* one before, and the bundles have nothing wrong with them.               *)
(***************************************************************************)
EXTENDS EpochReplay

MCHeights == 8 .. 12
MCBundles == {[id |-> h, height |-> h, root |-> "canonical", defect |-> "none"] : h \in MCHeights}
MCEnvironments == {<<"DEV", FALSE>>}

\* The first epoch is any; each later one follows a recorded one.
NextInOrder(bundle) == DOMAIN replayed = {} \/ bundle.id - 1 \in DOMAIN replayed

SequentialNext ==
  \/ \E bundle \in Bundles : NextInOrder(bundle) /\ RunEpoch(bundle, bundle.height)
  \/ RecordEpoch \/ RecordFails \/ RemoveOldest \/ ReturnEpoch \/ RestartRuntime

SequentialSpec == EpochInit /\ [][SequentialNext]_epochVars

=============================================================================
