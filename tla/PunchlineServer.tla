--------------------------- MODULE PunchlineServer ---------------------------
(***************************************************************************)
(* The rendezvous server: its receive thread, which registers and links    *)
(* the clients that ask for a punchline, its main thread, which ends the   *)
(* ones that waited too long, and the sockets that talk to it.  A          *)
(* datagram on its way to the server may be lost, overtaken by others and  *)
(* delivered again (a network duplicate, or a resend whose ack is late).   *)
(* What the server sends goes through _send_pkg, see Transport: outbox     *)
(* holds the packages handed to it, delivered or not.                      *)
(***************************************************************************)
EXTENDS Naturals, FiniteSets, Functions

CONSTANTS
  Client,           \* address and port of a socket that talks to the server
  Punchline,        \* data of a CON package
  RollingId,        \* values of the rolling id of a package
  TimeoutDelay,     \* _CLIENT_TIMEOUT_DELAY_S, in clock ticks
  None,             \* no punchline, no package: b'' and the data b'\x00'
  OtherVersion,     \* the bytes of a package with another version header
  MaxInFlight       \* bound: datagrams on their way to the server

\* The bytes of a package the server acknowledges; DAT is what
\* maintenance/verify_active_servers.py sends.
Package ==
  [type : {"CON"}, rid : RollingId, data : Punchline]
    \cup [type : {"END", "DAT"}, rid : RollingId, data : {None}]
Datagram == [from : Client, pkg : Package \cup {OtherVersion}]
Row == [punchline : Punchline, addr : Client, age : 0 .. TimeoutDelay + 1]
OutPackage ==
  [type : {"CON"}, to : Client, partner : Client, number : {0, 1}]
    \cup [type : {"END"}, to : Client]

ASSUME ServerAssumption ==
  /\ TimeoutDelay \in Nat /\ MaxInFlight \in Nat
  /\ None \notin Punchline
  /\ None \notin Package
  /\ OtherVersion \notin Package

VARIABLES
  asked,        \* the punchline a socket has asked for
  done,         \* the sockets that will not send anything new
  inbox,        \* datagrams on their way to the server
  clients,      \* _clients: the rows of the data frame, by index label
  lastRec,      \* _last_rec_ack_ret_pkg
  outbox,       \* packages handed to _send_pkg by the server's threads
  main,         \* main thread: "top", "ending" (in the loop that sends END), "dead"
  ending        \* rows of timed_out_clients whose END is still to be sent

sockets == <<asked, done>>
vars == <<sockets, inbox, clients, lastRec, outbox, main, ending>>

TypeOK ==
  /\ asked \in [Client -> Punchline \cup {None}]
  /\ done \subseteq Client
  /\ inbox \subseteq Datagram
  /\ IsFiniteSet(DOMAIN clients) /\ DOMAIN clients \subseteq Nat
  /\ clients \in [DOMAIN clients -> Row]
  /\ lastRec \in Package \cup {None}
  /\ outbox \subseteq OutPackage
  /\ main \in {"top", "ending", "dead"}
  /\ ending \subseteq Row

Init ==
  /\ asked = [c \in Client |-> None]
  /\ done = {}
  /\ inbox = {}
  /\ clients = [l \in {} |-> None]
  /\ lastRec = None
  /\ outbox = {}
  /\ main = "top"
  /\ ending = {}
-----------------------------------------------------------------------------
(* The sockets and the network.                                            *)

Post(c, pkg) ==
  /\ Cardinality(inbox) < MaxInFlight
  /\ inbox' = inbox \cup {[from |-> c, pkg |-> pkg]}

\* connect_async: a PunchlineClient asks the server once; its rolling id is random.
Ask(c) ==
  /\ c \notin done /\ asked[c] = None
  /\ \E p \in Punchline, r \in RollingId :
       /\ asked' = [asked EXCEPT ![c] = p]
       /\ Post(c, [type |-> "CON", rid |-> r, data |-> p])
  /\ UNCHANGED <<done, clients, lastRec, outbox, main, ending>>

\* disconnect() before the client was linked.
Withdraw(c) ==
  /\ c \notin done /\ asked[c] # None
  /\ \E r \in RollingId : Post(c, [type |-> "END", rid |-> r, data |-> None])
  /\ done' = done \cup {c}
  /\ UNCHANGED <<asked, clients, lastRec, outbox, main, ending>>

\* Sockets that are not used to wait: a check of the server list, a client of
\* another version.
Probe(c) ==
  /\ c \notin done /\ asked[c] = None
  /\ \/ \E r \in RollingId : Post(c, [type |-> "DAT", rid |-> r, data |-> None])
     \/ Post(c, OtherVersion)
  /\ done' = done \cup {c}
  /\ UNCHANGED <<asked, clients, lastRec, outbox, main, ending>>

Lose ==
  /\ \E d \in inbox : inbox' = inbox \ {d}
  /\ UNCHANGED <<sockets, clients, lastRec, outbox, main, ending>>
-----------------------------------------------------------------------------
(* The receive thread.  Its handler is one step: it holds _clients_lock    *)
(* wherever it uses _clients, and no other thread uses lastRec.            *)

Waiting == {clients[l] : l \in DOMAIN clients}
Candidates(p) == {l \in DOMAIN clients : clients[l].punchline = p}
DropRows(labels) == Restrict(clients, DOMAIN clients \ labels)
EndTo(c) == [type |-> "END", to |-> c]

\* Mutant: both clients get sequence id 0.
IntroductionsUnnumbered(a, b) ==
  {[type |-> "CON", to |-> a, partner |-> b, number |-> 0],
   [type |-> "CON", to |-> b, partner |-> a, number |-> 0]}

\* _link(a, b): both are told the other's address; the client that asked later
\* gets sequence id 0, the one that waited 1.
Introductions(a, b) ==
  {[type |-> "CON", to |-> a, partner |-> b, number |-> 0],
   [type |-> "CON", to |-> b, partner |-> a, number |-> 1]}

\* recvfrom: the datagram is gone, or a duplicate of it is still to come.
Take(d) == d \in inbox /\ inbox' \in {inbox, inbox \ {d}}

\* A package other than the acknowledged one received last, whoever sent that.
Fresh(d) ==
  /\ d.pkg # OtherVersion
  /\ lastRec # d.pkg
  /\ lastRec' = d.pkg

\* Mutant: the package is remembered before its version is checked.
ReceiveOtherVersionRemembered(d) ==
  /\ Take(d)
  /\ d.pkg = OtherVersion
  /\ lastRec' = d.pkg
  /\ outbox' = outbox \cup {EndTo(d.from)}
  /\ UNCHANGED <<sockets, clients, main, ending>>

ReceiveOtherVersion(d) ==
  /\ Take(d)
  /\ d.pkg = OtherVersion
  /\ outbox' = outbox \cup {EndTo(d.from)}
  /\ UNCHANGED <<sockets, clients, lastRec, main, ending>>

ReceiveRepetition(d) ==
  /\ Take(d)
  /\ d.pkg # OtherVersion
  /\ lastRec = d.pkg
  /\ UNCHANGED <<sockets, clients, lastRec, outbox, main, ending>>

\* Mutant: the row of the client that waited is not dropped.
ReceiveConLinkKeepsRow(d) ==
  /\ Take(d) /\ Fresh(d)
  /\ d.pkg.type = "CON"
  /\ \E l \in Candidates(d.pkg.data) :
       /\ clients[l].addr # d.from
       /\ outbox' = outbox \cup Introductions(d.from, clients[l].addr)
  /\ UNCHANGED <<sockets, clients, main, ending>>

\* At most one row has the punchline, so iloc[0] is the row found here.
ReceiveConLink(d) ==
  /\ Take(d) /\ Fresh(d)
  /\ d.pkg.type = "CON"
  /\ \E l \in Candidates(d.pkg.data) :
       /\ clients[l].addr # d.from
       /\ outbox' = outbox \cup Introductions(d.from, clients[l].addr)
       /\ clients' = DropRows({l})
  /\ UNCHANGED <<sockets, main, ending>>

ReceiveConAgain(d) ==
  /\ Take(d) /\ Fresh(d)
  /\ d.pkg.type = "CON"
  /\ \E l \in Candidates(d.pkg.data) : clients[l].addr = d.from
  /\ UNCHANGED <<sockets, clients, outbox, main, ending>>

\* _clients.loc[len(_clients)] = row: a new row, unless that label is in use.
ReceiveConRegister(d) ==
  /\ Take(d) /\ Fresh(d)
  /\ d.pkg.type = "CON"
  /\ Candidates(d.pkg.data) = {}
  /\ LET label == Cardinality(DOMAIN clients)
         row == [punchline |-> d.pkg.data, addr |-> d.from, age |-> 0]
     IN clients' = [l \in DOMAIN clients \cup {label} |->
                      IF l = label THEN row ELSE clients[l]]
  /\ UNCHANGED <<sockets, outbox, main, ending>>

ReceiveEnd(d) ==
  /\ Take(d) /\ Fresh(d)
  /\ d.pkg.type = "END"
  /\ clients' = DropRows({l \in DOMAIN clients : clients[l].addr = d.from})
  /\ UNCHANGED <<sockets, outbox, main, ending>>

\* Acknowledged and remembered, nothing else.
ReceiveDat(d) ==
  /\ Take(d) /\ Fresh(d)
  /\ d.pkg.type = "DAT"
  /\ UNCHANGED <<sockets, clients, outbox, main, ending>>

\* KAL, FAF, JFF and ACK packages change nothing that is modelled here; a handler
\* that raises (in the sendto of its ack) leaves the datagram lost.
ReceiveThread(d) ==
  \/ ReceiveOtherVersion(d) \/ ReceiveRepetition(d)
  \/ ReceiveConLink(d) \/ ReceiveConAgain(d) \/ ReceiveConRegister(d)
  \/ ReceiveEnd(d) \/ ReceiveDat(d)
-----------------------------------------------------------------------------
(* The main thread and the clock.                                          *)

\* The timestamps of the rows recede; beyond the threshold they look alike.
Tick ==
  LET older(row) == [row EXCEPT !.age = IF @ > TimeoutDelay THEN @ ELSE @ + 1]
  IN /\ clients' = [l \in DOMAIN clients |-> older(clients[l])]
     /\ UNCHANGED <<sockets, inbox, lastRec, outbox, main, ending>>

\* Mutant: the threshold lies one tick too far back to be passed.
OverdueLater == {l \in DOMAIN clients : clients[l].age > TimeoutDelay + 1}

Overdue == {l \in DOMAIN clients : clients[l].age > TimeoutDelay}

\* The part of _check_timeout under _clients_lock.
CheckTimeout ==
  /\ main = "top"
  /\ ending' = {clients[l] : l \in Overdue}
  /\ clients' = DropRows(Overdue)
  /\ main' = "ending"
  /\ UNCHANGED <<sockets, inbox, lastRec, outbox>>

\* One turn of its loop: _send_pkg returns, whether or not the client answers.
SendEnd ==
  /\ main = "ending"
  /\ \E row \in ending :
       /\ outbox' = outbox \cup {EndTo(row.addr)}
       /\ ending' = ending \ {row}
  /\ UNCHANGED <<sockets, inbox, clients, lastRec, main>>

\* Mutant: the loop is left with clients still to be told.
LoopDoneEarly ==
  /\ main = "ending"
  /\ main' = "top"
  /\ ending' = {}
  /\ UNCHANGED <<sockets, inbox, clients, lastRec, outbox>>

LoopDone ==
  /\ main = "ending" /\ ending = {}
  /\ main' = "top"
  /\ UNCHANGED <<sockets, inbox, clients, lastRec, outbox, ending>>

\* sendto raises an OSError, which leaves run_server.  main() of server.py makes
\* a new PunchlineServer again and again, and each fails to bind the port: the
\* receive thread of the first one still has it, and carries on.
MainDies ==
  /\ main = "ending" /\ ending # {}
  /\ main' = "dead"
  /\ UNCHANGED <<sockets, inbox, clients, lastRec, outbox, ending>>

CheckTimeoutReturns == CheckTimeout \/ SendEnd \/ LoopDone
-----------------------------------------------------------------------------
Next ==
  \/ \E c \in Client : Ask(c) \/ Withdraw(c) \/ Probe(c)
  \/ Lose
  \/ \E d \in Datagram : ReceiveThread(d)
  \/ Tick
  \/ CheckTimeoutReturns \/ MainDies

Spec == Init /\ [][Next]_vars

\* Time passes and the interpreter keeps running the main thread while it lives.
\* Nothing is assumed of the clients, the network or the receive thread.
FairSpec == Spec /\ WF_vars(Tick) /\ WF_vars(CheckTimeoutReturns)
-----------------------------------------------------------------------------
\* No two clients wait for the same punchline, although rows are found by label,
\* by punchline and by address and labels are reused (_handle_received_pkg).
OneWaitsPerPunchline ==
  \A k, l \in DOMAIN clients : clients[k].punchline = clients[l].punchline => k = l

\* What is on its way to the server, and what waits there, was asked for.
AskedInv ==
  /\ \A d \in inbox : d.pkg # OtherVersion /\ d.pkg.type = "CON" => asked[d.from] = d.pkg.data
  /\ \A row \in Waiting : asked[row.addr] = row.punchline

\* Introductions come in pairs: if one client is told to talk to another under
\* number 0 or 1, that one is told to talk to it under the other number, and the
\* two are distinct clients that asked for the same punchline (_link).
IntroductionsMatch ==
  \A m \in outbox : m.type = "CON" =>
    /\ m.to # m.partner
    /\ asked[m.to] = asked[m.partner] /\ asked[m.to] # None
    /\ [type |-> "CON", to |-> m.partner, partner |-> m.to, number |-> 1 - m.number] \in outbox

\* The inductive invariant.
ServerInv == OneWaitsPerPunchline /\ AskedInv /\ IntroductionsMatch

Meeting == INSTANCE Rendezvous WITH
  waiting <- {[punchline |-> row.punchline, addr |-> row.addr] : row \in Waiting},
  links <- {[first |-> m.to, second |-> m.partner] :
              m \in {n \in outbox : n.type = "CON" /\ n.number = 1}}

\* Every link joins the one client that waits with a newcomer, and ends the wait:
\* no row serves two links, whatever is repeated or dropped (PunchlineServer).
ImplementsRendezvous == Meeting!Spec

Waits(c, p) == \E row \in Waiting : row.addr = c /\ row.punchline = p

\* No client stays in the table for good while the main thread lives
\* (_check_timeout), even if repetitions of its CON keep coming in.
NobodyWaitsForever ==
  \A c \in Client, p \in Punchline : Waits(c, p) ~> (~Waits(c, p) \/ main = "dead")

\* Every client the timeout takes from the table is sent an END, one by one, while
\* others are registered and linked (_check_timeout).
TimedOutGetsEnd ==
  \A c \in Client : (\E row \in ending : row.addr = c) ~> (EndTo(c) \in outbox \/ main = "dead")

\* A row leaves the table because its client was linked, withdrew or timed out.
RowsLeaveForAReason ==
  [][\A row \in Waiting :
       \/ \E w \in Waiting' : w.addr = row.addr /\ w.punchline = row.punchline
       \/ \E m \in outbox' \ outbox : m.type = "CON" /\ m.to = row.addr
       \/ row.addr \in done
       \/ row.age > TimeoutDelay]_vars

\* A repeated CON is ignored: a client that was linked does not wait again.
LinkedClientsDoNotWait ==
  \A m \in outbox : m.type = "CON" => \A row \in Waiting : row.addr # m.to
=============================================================================
