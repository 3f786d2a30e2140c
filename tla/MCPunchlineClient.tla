-------------------------- MODULE MCPunchlineClient --------------------------
(* Instances of PunchlineClient for TLC. *)
EXTENDS PunchlineClient
=============================================================================
