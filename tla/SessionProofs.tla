---------------------------- MODULE SessionProofs ----------------------------
(***************************************************************************)
(* Proofs about Session, for any number of clients, punchlines and links:  *)
(* its types, and that clients come up in pairs.                           *)
(***************************************************************************)
EXTENDS Session, TLAPS

USE SessionAssumption DEF SessionAssumption

\* A client that is new has asked for nothing yet, any other one has.
AskedInv == \A c \in Client : asked[c] = None <=> phase[c] = "new"

\* Only a client that has asked waits for an ack.
ConInv == \A c \in Client : phase[c] = "new" => con[c] = "none"

\* The server's table and its links repeat what the clients have asked for.
WaitingInv == \A w \in waiting : asked[w.addr] = w.punchline
LinksInv ==
  \A l \in links :
    /\ l.first # l.second
    /\ asked[l.first] # None /\ asked[l.first] = asked[l.second]

\* A client that connects has no partner.  The partner of another one has asked for
\* the same punchline.
PartnerInv ==
  \A c \in Client :
    IF partner[c] = None
    THEN phase[c] \notin {"linked", "up"}
    ELSE /\ phase[c] \notin {"new", "asking"}
         /\ partner[c] # c
         /\ asked[c] # None /\ asked[partner[c]] = asked[c]

\* What is on its way between clients was sent by one to its partner, and a client
\* keeps its partner.
TrafficInv == \A d \in traffic : partner[d.from] = d.to

SessionInv ==
  /\ TypeOK
  /\ AskedInv /\ ConInv /\ WaitingInv /\ LinksInv /\ PartnerInv /\ TrafficInv
  /\ UpIsAMatching
-----------------------------------------------------------------------------
LEMMA InitSession == Init => SessionInv
<1> SUFFICES ASSUME Init PROVE SessionInv
  OBVIOUS
<1> USE DEF Init, Server!Init
<1>1. TypeOK
  BY DEF TypeOK
<1>2. AskedInv /\ ConInv /\ WaitingInv /\ LinksInv /\ PartnerInv /\ TrafficInv /\ UpIsAMatching
  BY DEF AskedInv, ConInv, WaitingInv, LinksInv, PartnerInv, TrafficInv, UpIsAMatching
<1> QED
  BY <1>1, <1>2 DEF SessionInv

\* What the step of a client does that changes its phase, and nothing else that the
\* invariant speaks of, except that a datagram goes to the partner.
LEMMA PhaseSession ==
  ASSUME SessionInv, NEW c \in Client,
         NEW p \in {"new", "asking", "linked", "up", "over"}, phase' = [phase EXCEPT ![c] = p],
         phase[c] # "new", p \in {"linked", "up"} => partner[c] # None,
         p \in {"new", "asking"} => phase[c] = p,
         p = "up" => partner[partner[c]] = c,
         con' \in [Client -> {"none", "sent", "ignored"}],
         \A e \in Client : phase[e] = "new" => con'[e] = con[e],
         traffic' \subseteq traffic \cup {m \in PeerDatagram : m.from = c /\ m.to = partner[c]},
         UNCHANGED <<asked, partner, waiting, links>>
  PROVE  SessionInv'
<1>1. TypeOK'
  BY DEF SessionInv, TypeOK
<1>2. AskedInv' /\ ConInv' /\ WaitingInv' /\ LinksInv'
  BY DEF SessionInv, TypeOK, AskedInv, ConInv, WaitingInv, LinksInv
<1>3. PartnerInv'
  BY DEF SessionInv, TypeOK, PartnerInv
<1>4. TrafficInv'
  BY DEF SessionInv, TypeOK, TrafficInv
<1>5. UpIsAMatching'
  BY DEF SessionInv, TypeOK, UpIsAMatching, PartnerInv
<1> QED
  BY <1>1, <1>2, <1>3, <1>4, <1>5 DEF SessionInv
-----------------------------------------------------------------------------
LEMMA ConnectSession ==
  ASSUME SessionInv, NEW c \in Client, Connect(c)
  PROVE  SessionInv'
<1> USE DEF Connect, Enters, Con, server
<1>1. PICK p \in Punchline : asked' = [asked EXCEPT ![c] = p]
  OBVIOUS
<1>2. asked[c] = None /\ partner[c] = None
  BY DEF SessionInv, AskedInv, PartnerInv
<1>3. TypeOK'
  BY <1>1 DEF SessionInv, TypeOK
<1>4. AskedInv' /\ ConInv'
  BY <1>1 DEF SessionInv, TypeOK, AskedInv, ConInv
<1>5. WaitingInv'
  BY <1>1, <1>2 DEF SessionInv, TypeOK, WaitingInv
<1>6. LinksInv'
  BY <1>1, <1>2 DEF SessionInv, TypeOK, LinksInv
<1>7. PartnerInv'
  BY <1>1, <1>2 DEF SessionInv, TypeOK, PartnerInv
<1>8. TrafficInv'
  BY DEF SessionInv, TrafficInv
<1>9. UpIsAMatching'
  BY <1>1, <1>2 DEF SessionInv, TypeOK, UpIsAMatching, PartnerInv
<1> QED
  BY <1>3, <1>4, <1>5, <1>6, <1>7, <1>8, <1>9 DEF SessionInv

LEMMA GiveUpSession ==
  ASSUME SessionInv, NEW c \in Client, GiveUp(c)
  PROVE  SessionInv'
<1>1. /\ con' \in [Client -> {"none", "sent", "ignored"}]
      /\ \A e \in Client : phase[e] = "new" => con'[e] = con[e]
  BY DEF GiveUp, Con, SessionInv, TypeOK
<1> QED
  BY <1>1, PhaseSession DEF GiveUp, Enters, server

\* An ack, and a datagram that is lost.
LEMMA QuietSession ==
  ASSUME SessionInv,
         con' \in [Client -> {"none", "sent", "ignored"}],
         \A e \in Client : phase[e] = "new" => con'[e] = con[e],
         traffic' \subseteq traffic, UNCHANGED <<asked, phase, partner, waiting, links>>
  PROVE  SessionInv'
<1>1. TypeOK'
  BY DEF SessionInv, TypeOK
<1>2. /\ AskedInv' /\ ConInv' /\ WaitingInv' /\ LinksInv'
      /\ PartnerInv' /\ TrafficInv' /\ UpIsAMatching'
  BY DEF SessionInv, AskedInv, ConInv, WaitingInv, LinksInv, PartnerInv, TrafficInv, UpIsAMatching
<1> QED
  BY <1>1, <1>2 DEF SessionInv

LEMMA AckSession ==
  ASSUME SessionInv, NEW c \in Client, ReceiveAck(c) \/ IgnoreAck(c)
  PROVE  SessionInv'
<1>1. /\ con' \in [Client -> {"none", "sent", "ignored"}]
      /\ \A e \in Client : phase[e] = "new" => con'[e] = con[e]
  BY DEF ReceiveAck, IgnoreAck, Con, SessionInv, TypeOK
<1> QED
  BY <1>1, QuietSession DEF ReceiveAck, IgnoreAck, server, client

\* The partner a client is told of has asked for what it has asked for itself.
LEMMA IntroducedSession ==
  ASSUME SessionInv, NEW c \in Client, Introduced(c)
  PROVE  SessionInv'
<1> USE DEF Introduced, Enters, Sends, server
<1>1. PICK d \in PartnersTold(c) :
        /\ partner' = [partner EXCEPT ![c] = d]
        /\ traffic' = traffic \cup {[from |-> c, to |-> d, type |-> "KAL"]}
  OBVIOUS
<1>2. d \in Client /\ d # c /\ asked[d] = asked[c] /\ asked[c] # None
  <2>1. CASE \E l \in links : l.second = c /\ d = l.first
    BY <2>1 DEF SessionInv, TypeOK, LinksInv
  <2>2. CASE \E l \in links : l.first = c /\ d = l.second
    BY <2>2 DEF SessionInv, TypeOK, LinksInv
  <2> QED
    BY <2>1, <2>2 DEF PartnersTold
<1>3. partner[c] = None
  BY DEF SessionInv, PartnerInv
<1>4. TypeOK'
  BY <1>1, <1>2 DEF SessionInv, TypeOK, PeerDatagram
<1>5. AskedInv' /\ ConInv' /\ WaitingInv' /\ LinksInv'
  BY DEF SessionInv, TypeOK, AskedInv, ConInv, WaitingInv, LinksInv
<1>6. PartnerInv'
  BY <1>1, <1>2, <1>3 DEF SessionInv, TypeOK, PartnerInv
<1>7. TrafficInv'
  BY <1>1, <1>2, <1>3 DEF SessionInv, TypeOK, TrafficInv, PeerDatagram
<1>8. UpIsAMatching'
  BY <1>1, <1>2, <1>3 DEF SessionInv, TypeOK, UpIsAMatching, PartnerInv
<1> QED
  BY <1>4, <1>5, <1>6, <1>7, <1>8 DEF SessionInv

LEMMA ConTimesOutSession ==
  ASSUME SessionInv, NEW c \in Client, ConTimesOut(c)
  PROVE  SessionInv'
<1>1. phase[c] # "new"
  BY DEF ConTimesOut, SessionInv, ConInv
<1>2. /\ con' \in [Client -> {"none", "sent", "ignored"}]
      /\ \A e \in Client : phase[e] = "new" => con'[e] = con[e]
  BY <1>1 DEF ConTimesOut, Con, SessionInv, TypeOK
<1> QED
  BY <1>1, <1>2, PhaseSession DEF ConTimesOut, Enters, server
-----------------------------------------------------------------------------
LEMMA KeepaliveSession ==
  ASSUME SessionInv, NEW c \in Client, Keepalive(c)
  PROVE  SessionInv'
<1> USE DEF Keepalive, Sends, server, client
<1>1. partner[c] \in Client
  BY DEF SessionInv, TypeOK, PartnerInv
<1>2. TypeOK'
  BY <1>1 DEF SessionInv, TypeOK, PeerDatagram
<1>3. TrafficInv'
  BY DEF SessionInv, TrafficInv
<1>4. /\ AskedInv' /\ ConInv' /\ WaitingInv' /\ LinksInv' /\ PartnerInv' /\ UpIsAMatching'
  BY DEF SessionInv, AskedInv, ConInv, WaitingInv, LinksInv, PartnerInv, UpIsAMatching
<1> QED
  BY <1>2, <1>3, <1>4 DEF SessionInv

LEMMA DisconnectSession ==
  ASSUME SessionInv, NEW c \in Client, Disconnect(c)
  PROVE  SessionInv'
<1> USE DEF Disconnect
<1>1. partner[c] \in Client
  BY DEF SessionInv, TypeOK, PartnerInv
<1>2. traffic' \subseteq traffic \cup {m \in PeerDatagram : m.from = c /\ m.to = partner[c]}
  BY <1>1 DEF Sends, PeerDatagram
<1>3. con' \in [Client -> {"none", "sent", "ignored"}]
  BY DEF SessionInv, TypeOK
<1> QED
  BY <1>2, <1>3, PhaseSession DEF Enters, server

\* A datagram from the partner says that this client is the partner's partner.
LEMMA HearKeepaliveSession ==
  ASSUME SessionInv, NEW c \in Client, HearKeepalive(c)
  PROVE  SessionInv'
<1> USE DEF HearKeepalive
<1>1. partner[partner[c]] = c /\ partner[c] # None
  BY DEF SessionInv, TrafficInv, PartnerInv
<1>2. con' \in [Client -> {"none", "sent", "ignored"}]
  BY DEF SessionInv, TypeOK
<1> QED
  BY <1>1, <1>2, PhaseSession DEF Enters, server

LEMMA HearEndSession ==
  ASSUME SessionInv, NEW c \in Client, HearEnd(c)
  PROVE  SessionInv'
<1>1. /\ con' \in [Client -> {"none", "sent", "ignored"}]
      /\ \A e \in Client : phase[e] = "new" => con'[e] = con[e]
  BY DEF HearEnd, Con, SessionInv, TypeOK
<1> QED
  BY <1>1, PhaseSession DEF HearEnd, Enters, server

LEMMA LosePeerSession ==
  ASSUME SessionInv, LosePeer
  PROVE  SessionInv'
<1>1. con' \in [Client -> {"none", "sent", "ignored"}]
  BY DEF LosePeer, SessionInv, TypeOK
<1> QED
  BY <1>1, QuietSession DEF LosePeer, server, client
-----------------------------------------------------------------------------
\* The server's steps leave the clients alone: what is left to show is that its
\* table and its links say what the clients have asked for.
LEMMA ServerSession ==
  ASSUME SessionInv, UNCHANGED <<client, con, traffic>>,
         waiting' \subseteq [punchline : Punchline, addr : Client], WaitingInv',
         links' \subseteq [first : Client, second : Client], LinksInv'
  PROVE  SessionInv'
<1> USE DEF client
<1>1. TypeOK'
  BY DEF SessionInv, TypeOK
<1>2. AskedInv' /\ ConInv' /\ PartnerInv' /\ TrafficInv' /\ UpIsAMatching'
  BY DEF SessionInv, AskedInv, ConInv, PartnerInv, TrafficInv, UpIsAMatching
<1> QED
  BY <1>1, <1>2 DEF SessionInv

LEMMA WaitSession ==
  ASSUME SessionInv, NEW c \in Client, asked[c] # None, Server!Wait(asked[c], c),
         UNCHANGED <<client, con, traffic>>
  PROVE  SessionInv'
<1> USE DEF Server!Wait
<1>1. /\ waiting' \subseteq waiting \cup {[punchline |-> asked[c], addr |-> c]}
      /\ UNCHANGED <<links, asked>>
  BY DEF client
<1>2. asked[c] \in Punchline
  BY DEF SessionInv, TypeOK
<1>3. waiting' \subseteq [punchline : Punchline, addr : Client] /\ WaitingInv'
  BY <1>1, <1>2 DEF SessionInv, TypeOK, WaitingInv
<1>4. links' \subseteq [first : Client, second : Client] /\ LinksInv'
  BY <1>1 DEF SessionInv, TypeOK, LinksInv
<1> QED
  BY <1>3, <1>4, ServerSession

LEMMA MeetSession ==
  ASSUME SessionInv, NEW c \in Client, asked[c] # None, Server!Meet(asked[c], c),
         UNCHANGED <<client, con, traffic>>
  PROVE  SessionInv'
<1>1. PICK w \in waiting :
        /\ w.punchline = asked[c] /\ w.addr # c
        /\ waiting' = waiting \ {w}
        /\ links' = links \cup {[first |-> w.addr, second |-> c]}
  BY DEF Server!Meet
<1>2. asked' = asked
  BY DEF client
<1>3. waiting' \subseteq [punchline : Punchline, addr : Client] /\ WaitingInv'
  BY <1>1, <1>2 DEF SessionInv, TypeOK, WaitingInv
<1>4. w.addr \in Client /\ asked[w.addr] = asked[c]
  BY <1>1 DEF SessionInv, TypeOK, WaitingInv
<1>5. links' \subseteq [first : Client, second : Client] /\ LinksInv'
  BY <1>1, <1>2, <1>4 DEF SessionInv, TypeOK, LinksInv
<1> QED
  BY <1>3, <1>5, ServerSession

LEMMA ForgetSession ==
  ASSUME SessionInv, Forget
  PROVE  SessionInv'
<1> USE DEF Forget, Server!Forget
<1>1. waiting' \subseteq waiting /\ UNCHANGED <<links, asked>>
  BY DEF client
<1>2. waiting' \subseteq [punchline : Punchline, addr : Client] /\ WaitingInv'
  BY <1>1 DEF SessionInv, TypeOK, WaitingInv
<1>3. links' \subseteq [first : Client, second : Client] /\ LinksInv'
  BY <1>1 DEF SessionInv, TypeOK, LinksInv
<1> QED
  BY <1>2, <1>3, ServerSession
-----------------------------------------------------------------------------
LEMMA StepSession ==
  ASSUME SessionInv, [Next]_vars
  PROVE  SessionInv'
<1>1. ASSUME NEW c \in Client, ToServer(c) PROVE SessionInv'
  BY <1>1, ConnectSession, GiveUpSession, AckSession, IntroducedSession, ConTimesOutSession
  DEF ToServer
<1>2. ASSUME NEW c \in Client, ToPartner(c) PROVE SessionInv'
  BY <1>2, KeepaliveSession, DisconnectSession, HearKeepaliveSession, HearEndSession DEF ToPartner
<1>3. ASSUME NEW c \in Client, ReceiveCon(c) PROVE SessionInv'
  BY <1>3, WaitSession, MeetSession DEF ReceiveCon
<1>4. CASE UNCHANGED vars
  <2>1. con' \in [Client -> {"none", "sent", "ignored"}]
    BY <1>4 DEF SessionInv, TypeOK, vars
  <2> QED
    BY <1>4, <2>1, QuietSession DEF vars, server, client
<1> QED
  BY <1>1, <1>2, <1>3, <1>4, ForgetSession, LosePeerSession DEF Next

\* The invariant of the specification: what the clients have asked for, what the
\* server and the datagrams on their way say of it, and whom each client follows.
THEOREM SessionInvariant == Spec => []SessionInv
<1>1. SessionInv /\ [Next]_vars => SessionInv'
  BY StepSession
<1> QED
  BY <1>1, InitSession, PTL DEF Spec

\* The types of Session, for any number of clients.
THEOREM SessionTypeCorrect == Spec => []TypeOK
<1>1. SessionInv => TypeOK
  BY DEF SessionInv
<1> QED
  BY <1>1, SessionInvariant, PTL

\* However often the server introduces clients, and to whomever: those that are up
\* have each other for partner, and asked for the same punchline.
THEOREM ClientsComeUpInPairs == Spec => []UpIsAMatching
<1>1. SessionInv => UpIsAMatching
  BY DEF SessionInv
<1> QED
  BY <1>1, SessionInvariant, PTL
=============================================================================
