--------------------------- MODULE MCTaskProtocol ---------------------------
(***************************************************************************)
(* Values for the constants of TaskProtocol, for TLC.                      *)
(***************************************************************************)
EXTENDS TaskProtocol

CONSTANTS k1, k2

\* k2 has the higher priority.
MCRank == [t \in Tasks |-> IF t = k2 THEN 1 ELSE 0]

=============================================================================
