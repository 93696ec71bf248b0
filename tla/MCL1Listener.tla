---------------------------- MODULE MCL1Listener ----------------------------
(***************************************************************************)
(* Values for the constants of L1Listener, for TLC.                        *)
(***************************************************************************)
EXTENDS L1Listener

CONSTANTS a1, x, y, z

=============================================================================
