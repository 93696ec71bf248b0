-------------------------- MODULE BridgeAnchoring --------------------------
(***************************************************************************)
(* The bridge and the reorg detector of one node.  Both are told of the    *)
(* same anchor commitments, the bridge by registerAnchorCommitment and the *)
(* detector by registerAnchor; after that neither asks the other anything. *)
(***************************************************************************)
EXTENDS SidechainBridge

CONSTANTS
  Hashes, Heights, ConfirmationThreshold, ConfirmationCounts, KeepCounts,
  OneThread, NoUpdate, MaxEvents          \* as in ReorgDetector

VARIABLES
  blocks, records, events, pc, event, iter, update, seen

Detector == INSTANCE ReorgDetector WITH
  AnchorHashes <- Anchors, anchors <- records

detectorVars == <<blocks, records, events, pc, event, iter, update, seen>>

AnchoringInit == Init /\ Detector!DetectorInit

BridgeStep ==
  /\ \/ FederationNext \/ PegInNext \/ PegOutNext
     \/ ActivateEmergencyMode \/ DeactivateEmergencyMode
     \/ Tick
  /\ UNCHANGED detectorVars

DetectorStep ==
  /\ \/ \E height \in Heights, hash \in Hashes :
          \/ Detector!TrackFirstBlock(height, hash)
          \/ Detector!DetectReorg(height, hash)
     \/ Detector!ReorgStep
     \/ Detector!AnchorStep
  /\ UNCHANGED vars

\* The two are in one process.
NodeRestart == Restart /\ Detector!Crash

AnchoringNext == BridgeStep \/ DetectorStep \/ NodeRestart

AnchoringSpec == AnchoringInit /\ [][AnchoringNext]_<<vars, detectorVars>>

-----------------------------------------------------------------------------
(* What the documentation says and the code does not keep.                 *)

\* "Peg-outs are never finalized without a confirmed anchor": not even when the
\* detector knows at the time of the release that a reorg has invalidated it.
NotFinalizedOnInvalidAnchor ==
  [][\A id \in released' \ released :
       LET h == pegouts[id].anchor
       IN h \in DOMAIN records => records[h].status # "INVALIDATED_REORG"]_<<vars, detectorVars>>

=============================================================================
