-------------------------- MODULE MCPunchlineServer --------------------------
(* Instances of PunchlineServer for TLC. *)
EXTENDS PunchlineServer, TLC

\* Sound for a safety property that names no client and no punchline.
Interchangeable == Permutations(Client) \cup Permutations(Punchline)
=============================================================================
