---------------------------- MODULE MessageQueue ----------------------------
(***************************************************************************)
(* What send() and receive() of PunchlineClient promise their callers      *)
(* about data that is acknowledged (punchline_p2p/punchline_client.py):    *)
(* what one client sends arrives whole, once and in order at the other.    *)
(***************************************************************************)
EXTENDS Naturals, Sequences

CONSTANT Message

VARIABLES
  sent,         \* messages given to send(), in order
  arrived       \* messages put into the other client's _in_data_queue, in order

vars == <<sent, arrived>>

Init ==
  /\ sent = <<>>
  /\ arrived = <<>>

Send ==
  /\ \E m \in Message : sent' = Append(sent, m)
  /\ UNCHANGED arrived

Arrive ==
  /\ Len(arrived) < Len(sent)
  /\ arrived' = Append(arrived, sent[Len(arrived) + 1])
  /\ UNCHANGED sent

Next == Send \/ Arrive

Spec == Init /\ [][Next]_vars
=============================================================================
