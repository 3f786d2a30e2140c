---------------------------- MODULE ReliableLink ----------------------------
(***************************************************************************)
(* What Punchline._send_pkg and Punchline._handle_received_pkg promise     *)
(* their callers about acknowledged packages (punchline_p2p/punchline.py): *)
(* one package at a time is on its way, the receiving side accepts every   *)
(* package once and in the order it was offered, and _send_pkg returns     *)
(* normally only for a package that was accepted.                          *)
(***************************************************************************)
EXTENDS Naturals, Sequences

CONSTANT Package    \* the acknowledged packages a caller may hand over

VARIABLES
  offered,      \* packages handed to _send_pkg, in order
  accepted,     \* packages _handle_received_pkg passed on, in order
  confirmed     \* number of packages whose acknowledgement _send_pkg took

vars == <<offered, accepted, confirmed>>

Init ==
  /\ offered = <<>>
  /\ accepted = <<>>
  /\ confirmed = 0

\* The next package is offered only when every earlier one is confirmed.
Offer ==
  /\ confirmed = Len(offered)
  /\ \E p \in Package : offered' = Append(offered, p)
  /\ UNCHANGED <<accepted, confirmed>>

\* The receiver accepts the oldest package it has not accepted yet.
Accept ==
  /\ Len(accepted) < Len(offered)
  /\ accepted' = Append(accepted, offered[Len(accepted) + 1])
  /\ UNCHANGED <<offered, confirmed>>

\* The sender learns of an acceptance that has happened.
Confirm ==
  /\ confirmed < Len(accepted)
  /\ confirmed' = confirmed + 1
  /\ UNCHANGED <<offered, accepted>>

Next == Offer \/ Accept \/ Confirm

Spec == Init /\ [][Next]_vars
=============================================================================
