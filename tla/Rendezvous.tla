----------------------------- MODULE Rendezvous ------------------------------
(***************************************************************************)
(* What PunchlineServer promises about matching clients                    *)
(* (punchline_p2p/punchline_server.py): at most one client waits for a     *)
(* punchline, and the next other client that asks for it is linked with    *)
(* the waiting one, which then waits no longer.  Nothing is promised here  *)
(* about how long a client waits: the server may forget any of them.       *)
(***************************************************************************)
CONSTANTS Client, Punchline

VARIABLES
  waiting,      \* set of [punchline, addr]
  links         \* set of [first, second]: first waited, second asked later

vars == <<waiting, links>>

Init ==
  /\ waiting = {}
  /\ links = {}

\* A client starts to wait for a punchline nobody waits for.
Wait(p, c) ==
  /\ \A w \in waiting : w.punchline # p
  /\ \E kept \in SUBSET waiting :
       waiting' = kept \cup {[punchline |-> p, addr |-> c]}
  /\ UNCHANGED links

\* A client asks for the punchline another one waits for.
Meet(p, c) ==
  \E w \in waiting :
    /\ w.punchline = p /\ w.addr # c
    /\ waiting' = waiting \ {w}
    /\ links' = links \cup {[first |-> w.addr, second |-> c]}

\* Clients withdraw, or have waited too long.
Forget ==
  /\ \E kept \in SUBSET waiting : waiting' = kept
  /\ UNCHANGED links

Next ==
  \/ \E p \in Punchline, c \in Client : Wait(p, c) \/ Meet(p, c)
  \/ Forget

Spec == Init /\ [][Next]_vars
=============================================================================
