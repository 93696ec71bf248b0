------------------------- MODULE MCBridgeAnchoring -------------------------
(***************************************************************************)
(* Values for the constants of BridgeAnchoring, for TLC.                   *)
(***************************************************************************)
EXTENDS BridgeAnchoring, JsonNumber

CONSTANTS a, s1, d1, x, y

NoOutpoints == <<>>

=============================================================================
