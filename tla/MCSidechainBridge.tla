------------------------- MODULE MCSidechainBridge -------------------------
(***************************************************************************)
(* Values for the constants of SidechainBridge, for TLC.                   *)
(***************************************************************************)
EXTENDS SidechainBridge, JsonNumber, TLC

CONSTANTS a, o1, o2, s1, s2, d1, d2

\* Three satoshis are within the peg-in limits, one is below.
NoOutpoints == <<>>
TwoOutpoints == o1 :> 3 @@ o2 :> 1

=============================================================================
