---------------------------- MODULE MCConnections ----------------------------
(***************************************************************************)
(* The instance of Connections for TLC: its visits are AllVisits.          *)
(***************************************************************************)
EXTENDS Connections, TLC
=============================================================================
