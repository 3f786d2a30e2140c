------------------------------ MODULE Session -------------------------------
(***************************************************************************)
(* The clients of one rendezvous server and what they send each other.     *)
(* The server is its promise, Rendezvous, which PunchlineServer implements *)
(* as ServerRefinesRendezvous in PunchlineServerProofs says: it may handle *)
(* or drop a repeated CON, and forget a client that waits.  A client is    *)
(* reduced to the phases of one connection, of which PunchlineClient has   *)
(* the threads: what matters here is whom it listens to, and when its send *)
(* thread is free.                                                         *)
(***************************************************************************)
EXTENDS FiniteSets, Naturals

CONSTANTS
  Client, Punchline,
  None,         \* no punchline, no address
  MaxLinks      \* bound: links the server makes

ASSUME SessionAssumption == None \notin Client \cup Punchline /\ MaxLinks \in Nat

VARIABLES
  asked,        \* the punchline a client has sent to the server
  waiting, links,   \* the server, see Rendezvous
  phase,        \* state of a client's connection, see TypeOK
  partner,      \* _destination_address_port once it is a client
  con,          \* what a client's send thread knows of its CON, see TypeOK
  traffic       \* datagrams between clients

server == <<waiting, links>>
client == <<asked, phase, partner>>
vars == <<server, client, con, traffic>>

Server == INSTANCE Rendezvous

\* KAL stands for everything but END that a linked client sends.
PeerDatagram == [from : Client, to : Client, type : {"KAL", "END"}]

TypeOK ==
  /\ asked \in [Client -> Punchline \cup {None}]
  /\ waiting \subseteq [punchline : Punchline, addr : Client]
  /\ links \subseteq [first : Client, second : Client]
  \* not connecting; connecting, dest is the server; connecting and connected,
  \* dest is the partner; connected; after _end_connection
  /\ phase \in [Client -> {"new", "asking", "linked", "up", "over"}]
  /\ partner \in [Client -> Client \cup {None}]
  \* not sent, or no longer waited for; sent; an ack has come to the socket since and
  \* was ignored
  /\ con \in [Client -> {"none", "sent", "ignored"}]
  /\ traffic \subseteq PeerDatagram

Init ==
  /\ Server!Init
  /\ asked = [c \in Client |-> None]
  /\ phase = [c \in Client |-> "new"]
  /\ partner = [c \in Client |-> None]
  /\ con = [c \in Client |-> "none"]
  /\ traffic = {}

Enters(c, state) == phase' = [phase EXCEPT ![c] = state]
Sends(c, to, type) == traffic' = traffic \cup {[from |-> c, to |-> to, type |-> type]}

Con(c, state) == con' = [con EXCEPT ![c] = state]
-----------------------------------------------------------------------------
(* A client and the server.                                                *)

\* connect_async, and the send thread's first package.
Connect(c) ==
  /\ phase[c] = "new"
  /\ \E p \in Punchline : asked' = [asked EXCEPT ![c] = p]
  /\ Enters(c, "asking")
  /\ Con(c, "sent")
  /\ UNCHANGED <<partner, server, traffic>>

\* disconnect() of a client that is not linked, or an END of the server, of which
\* Rendezvous says nothing.
GiveUp(c) ==
  /\ phase[c] = "asking"
  /\ Enters(c, "over")
  /\ Con(c, "none")
  /\ UNCHANGED <<asked, partner, server, traffic>>

\* An ack arrives from the server, which returns one for every CON it receives,
\* also for one it drops.  It is filed if the server is still the destination, and
\* ignored otherwise.
ReceiveAck(c) ==
  /\ con[c] = "sent" /\ phase[c] = "asking"
  /\ Con(c, "none")
  /\ UNCHANGED <<server, client, traffic>>

IgnoreAck(c) ==
  /\ con[c] = "sent" /\ phase[c] \in {"linked", "up"}
  /\ Con(c, "ignored")
  /\ UNCHANGED <<server, client, traffic>>

\* Mutant: the link is taken for the address.
LinksTold(c) == {l \in links : c \in {l.first, l.second}}

\* The address in a CON for c, which the server sends because of a link.
PartnersTold(c) ==
  {l.first : l \in {k \in links : k.second = c}} \cup {l.second : l \in {k \in links : k.first = c}}

\* Mutant: an introduction is followed although the client has a partner.
IntroducedAgain(c) ==
  /\ phase[c] \in {"asking", "linked", "up"}
  /\ \E d \in PartnersTold(c) :
       /\ partner' = [partner EXCEPT ![c] = d]
       /\ Sends(c, d, "KAL")
  /\ Enters(c, "linked")
  /\ UNCHANGED <<asked, server, con>>

\* The server's CON: the destination changes, and a first keepalive goes out.
Introduced(c) ==
  /\ phase[c] = "asking"
  /\ \E d \in PartnersTold(c) :
       /\ partner' = [partner EXCEPT ![c] = d]
       /\ Sends(c, d, "KAL")
  /\ Enters(c, "linked")
  /\ UNCHANGED <<asked, server, con>>

\* The TimeoutError of _send_pkg for the CON, in whatever phase the client is by
\* then.  The connection is ended without a word to the server or the partner.
ConTimesOut(c) ==
  /\ con[c] # "none"
  /\ Enters(c, "over")
  /\ Con(c, "none")
  /\ UNCHANGED <<asked, partner, server, traffic>>
-----------------------------------------------------------------------------
(* A client and its partner.                                               *)

\* Mutant: keepalives are sent only once the connection is up.
KeepaliveWhenUp(c) ==
  /\ phase[c] = "up" /\ con[c] = "none"
  /\ Sends(c, partner[c], "KAL")
  /\ UNCHANGED <<server, client, con>>

\* The send thread, unless it still waits for the ack of the CON.
Keepalive(c) ==
  /\ phase[c] \in {"linked", "up"} /\ con[c] = "none"
  /\ Sends(c, partner[c], "KAL")
  /\ UNCHANGED <<server, client, con>>

\* disconnect() of a linked client waits until the send thread takes its END.
Disconnect(c) ==
  /\ phase[c] \in {"linked", "up"} /\ con[c] = "none"
  /\ Sends(c, partner[c], "END")
  /\ Enters(c, "over")
  /\ UNCHANGED <<asked, partner, server, con>>

\* The first datagram from the partner ends the connecting phase.
HearKeepalive(c) ==
  /\ phase[c] \in {"linked", "up"}
  /\ \E d \in traffic :
       /\ d.to = c /\ d.from = partner[c] /\ d.type = "KAL"
  /\ Enters(c, "up")
  /\ UNCHANGED <<asked, partner, server, con, traffic>>

HearEnd(c) ==
  /\ phase[c] \in {"linked", "up"}
  /\ \E d \in traffic :
       /\ d.to = c /\ d.from = partner[c] /\ d.type = "END"
  /\ Enters(c, "over")
  /\ Con(c, "none")
  /\ UNCHANGED <<asked, partner, server, traffic>>

\* Lost, or received while the sender is not the destination, and ignored.
LosePeer ==
  /\ \E d \in traffic : traffic' = traffic \ {d}
  /\ UNCHANGED <<server, client, con>>
-----------------------------------------------------------------------------
(* The server.  A CON may be sent again, or come late, at any time.        *)

ReceiveCon(c) ==
  /\ asked[c] # None
  /\ \/ Server!Wait(asked[c], c)
     \/ Server!Meet(asked[c], c) /\ Cardinality(links) < MaxLinks
  /\ UNCHANGED <<client, con, traffic>>

Forget ==
  /\ Server!Forget
  /\ UNCHANGED <<client, con, traffic>>
-----------------------------------------------------------------------------
ToServer(c) ==
  Connect(c) \/ GiveUp(c) \/ ReceiveAck(c) \/ IgnoreAck(c) \/ Introduced(c) \/ ConTimesOut(c)
ToPartner(c) == Keepalive(c) \/ Disconnect(c) \/ HearKeepalive(c) \/ HearEnd(c)

Next ==
  \/ \E c \in Client : ToServer(c) \/ ToPartner(c) \/ ReceiveCon(c)
  \/ Forget \/ LosePeer

Spec == Init /\ [][Next]_vars

\* Send threads go on, and of the keepalives that keep being sent some arrive.
FairSpec ==
  /\ Spec
  /\ \A c \in Client :
       WF_vars(Keepalive(c)) /\ WF_vars(ConTimesOut(c)) /\ SF_vars(HearKeepalive(c))
-----------------------------------------------------------------------------
\* Clients come up in pairs: no two have the same partner, whatever the server has
\* told third ones, and partners have asked for the same punchline
\* (_handle_received_pkg of client and server).
UpIsAMatching ==
  \A c \in Client : phase[c] = "up" =>
    /\ partner[c] # c /\ partner[partner[c]] = c
    /\ asked[c] = asked[partner[c]]

\* Two clients that were introduced to each other both come up, unless one of them
\* is gone, though the first keepalive of each may come too early for the other
\* (_send_pkg_thread_func).
IntroducedComesUp ==
  \A c \in Client :
    (\E d \in Client : partner[c] = d /\ partner[d] = c /\ phase[c] = "linked" /\ phase[d] # "over")
      ~> (phase[c] # "linked" \/ \E d \in Client : partner[c] = d /\ phase[d] = "over")

\* A client with a partner is not ended by a TimeoutError for a package whose ack
\* has reached its socket (_send_pkg).
AckedConDoesNotTimeOut ==
  [][\A c \in Client : ConTimesOut(c) /\ phase[c] \in {"linked", "up"} => con[c] # "ignored"]_vars
=============================================================================
