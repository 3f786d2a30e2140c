------------------------ MODULE PunchlineServerProofs ------------------------
(***************************************************************************)
(* Proofs about PunchlineServer, for any number of sockets, punchlines and *)
(* rolling ids and any bound on the datagrams in flight: its types, its    *)
(* inductive invariant, and that it implements Rendezvous.                 *)
(***************************************************************************)
EXTENDS PunchlineServer, FiniteSetTheorems, TLAPS

TableOK ==
  /\ IsFiniteSet(DOMAIN clients) /\ DOMAIN clients \subseteq Nat
  /\ clients \in [DOMAIN clients -> Row]

LEMMA DropRowsTable ==
  ASSUME TableOK, NEW labels
  PROVE  /\ IsFiniteSet(DOMAIN DropRows(labels))
         /\ DOMAIN DropRows(labels) = DOMAIN clients \ labels
         /\ \A l \in DOMAIN clients \ labels : DropRows(labels)[l] = clients[l]
         /\ DropRows(labels) \in [DOMAIN clients \ labels -> Row]
<1>1. IsFiniteSet(DOMAIN clients \ labels)
  BY FS_Difference DEF TableOK
<1> QED
  BY <1>1 DEF TableOK, DropRows, Restrict

LEMMA DroppedTable ==
  ASSUME TableOK, NEW labels, clients' = DropRows(labels)
  PROVE  TableOK'
<1>1. DOMAIN clients' = DOMAIN clients \ labels /\ IsFiniteSet(DOMAIN clients')
  BY DropRowsTable
<1>2. clients' \in [DOMAIN clients' -> Row]
  BY <1>1, DropRowsTable
<1> QED
  BY <1>1, <1>2 DEF TableOK

LEMMA RegisterTable ==
  ASSUME TableOK, TypeOK, NEW d \in Datagram, ReceiveConRegister(d)
  PROVE  /\ TableOK'
         /\ d.pkg.data \in Punchline /\ d.from \in Client
         /\ Candidates(d.pkg.data) = {}
         /\ \E label \in DOMAIN clients' :
              /\ DOMAIN clients' = DOMAIN clients \cup {label}
              /\ clients'[label] = [punchline |-> d.pkg.data, addr |-> d.from, age |-> 0]
              /\ \A l \in DOMAIN clients : l # label => clients'[l] = clients[l]
<1> DEFINE label == Cardinality(DOMAIN clients)
           row == [punchline |-> d.pkg.data, addr |-> d.from, age |-> 0]
<1>1. label \in Nat
  BY FS_CardinalityType DEF TableOK
<1>2. d.pkg \in Package /\ d.pkg.type = "CON"
  BY DEF ReceiveConRegister, Fresh, Datagram
<1>3. d.pkg.data \in Punchline /\ d.from \in Client
  BY <1>2 DEF Package, Datagram
<1>4. row \in Row
  BY <1>3, ServerAssumption DEF Row, ServerAssumption
<1>5. clients' = [l \in DOMAIN clients \cup {label} |-> IF l = label THEN row ELSE clients[l]]
  BY DEF ReceiveConRegister
<1>6. IsFiniteSet(DOMAIN clients \cup {label})
  BY FS_AddElement DEF TableOK
<1> HIDE DEF label, row
<1>7. TableOK'
  BY <1>1, <1>4, <1>5, <1>6 DEF TableOK
<1>8. Candidates(d.pkg.data) = {}
  BY DEF ReceiveConRegister
<1>9. /\ label \in DOMAIN clients'
      /\ DOMAIN clients' = DOMAIN clients \cup {label}
      /\ clients'[label] = row
      /\ \A l \in DOMAIN clients : l # label => clients'[l] = clients[l]
  BY <1>5
<1> QED
  BY <1>3, <1>7, <1>8, <1>9 DEF row

LEMMA TickTable ==
  ASSUME TableOK, Tick
  PROVE  /\ TableOK'
         /\ DOMAIN clients' = DOMAIN clients
         /\ \A l \in DOMAIN clients : /\ clients'[l].punchline = clients[l].punchline
                                      /\ clients'[l].addr = clients[l].addr
<1> DEFINE older(row) == [row EXCEPT !.age = IF @ > TimeoutDelay THEN @ ELSE @ + 1]
<1>1. clients' = [l \in DOMAIN clients |-> older(clients[l])]
  BY DEF Tick
<1>2. \A row \in Row : /\ older(row) \in Row
                       /\ older(row).punchline = row.punchline
                       /\ older(row).addr = row.addr
  BY ServerAssumption DEF Row, ServerAssumption
<1> HIDE DEF older
<1> QED
  BY <1>1, <1>2 DEF TableOK
-----------------------------------------------------------------------------
(* Types.                                                                  *)

LEMMA ServerInitTyped == Init => TypeOK
<1> SUFFICES ASSUME Init PROVE TypeOK
  OBVIOUS
<1>1. clients = [l \in {} |-> None] /\ DOMAIN clients = {}
  BY DEF Init
<1> QED
  BY <1>1, FS_EmptySet DEF Init, TypeOK

LEMMA ServerNextTyped == TypeOK /\ [Next]_vars => TypeOK'
<1> SUFFICES ASSUME TypeOK, [Next]_vars PROVE TypeOK'
  OBVIOUS
<1>0. TableOK
  BY DEF TypeOK, TableOK
<1>1. ASSUME NEW c \in Client, Ask(c) \/ Withdraw(c) \/ Probe(c) PROVE TypeOK'
  <2>1. PICK pkg \in Package \cup {OtherVersion} : Post(c, pkg)
    BY <1>1 DEF Ask, Withdraw, Probe, Package
  <2>2. inbox' \subseteq Datagram
    BY <2>1 DEF TypeOK, Post, Datagram
  <2>3. asked' \in [Client -> Punchline \cup {None}] /\ done' \subseteq Client
    BY <1>1 DEF TypeOK, Ask, Withdraw, Probe
  <2>4. UNCHANGED <<clients, lastRec, outbox, main, ending>>
    BY <1>1 DEF Ask, Withdraw, Probe
  <2> QED
    BY <2>2, <2>3, <2>4 DEF TypeOK
<1>2. CASE Lose
  BY <1>2 DEF Lose, TypeOK, sockets
<1>3. ASSUME NEW d \in Datagram, ReceiveThread(d) PROVE TypeOK'
  <2>1. inbox' \subseteq Datagram /\ d.from \in Client
    BY <1>3 DEF ReceiveThread, ReceiveOtherVersion, ReceiveRepetition, ReceiveConLink,
       ReceiveConAgain, ReceiveConRegister, ReceiveEnd, ReceiveDat, Take, TypeOK, Datagram
  <2>2. lastRec' \in Package \cup {None}
    BY <1>3 DEF ReceiveThread, ReceiveOtherVersion, ReceiveRepetition, ReceiveConLink,
       ReceiveConAgain, ReceiveConRegister, ReceiveEnd, ReceiveDat, Fresh, TypeOK, Datagram
  <2>3. UNCHANGED <<sockets, main, ending>>
    BY <1>3 DEF ReceiveThread, ReceiveOtherVersion, ReceiveRepetition, ReceiveConLink,
       ReceiveConAgain, ReceiveConRegister, ReceiveEnd, ReceiveDat
  <2>4. outbox' \subseteq OutPackage /\ TableOK'
    <3>1. CASE ReceiveOtherVersion(d) \/ ReceiveRepetition(d) \/ ReceiveConAgain(d)
                 \/ ReceiveDat(d)
      <4>1. outbox' \subseteq OutPackage
        BY <2>1, <3>1 DEF ReceiveOtherVersion, ReceiveRepetition, ReceiveConAgain,
           ReceiveDat, TypeOK, EndTo, OutPackage
      <4>2. UNCHANGED clients
        BY <3>1 DEF ReceiveOtherVersion, ReceiveRepetition, ReceiveConAgain, ReceiveDat
      <4> QED
        BY <1>0, <4>1, <4>2 DEF TableOK
    <3>2. CASE ReceiveConLink(d)
      <4>1. PICK l \in DOMAIN clients :
              /\ outbox' = outbox \cup Introductions(d.from, clients[l].addr)
              /\ clients' = DropRows({l})
        BY <3>2 DEF ReceiveConLink, Candidates
      <4>2. clients[l].addr \in Client
        BY <1>0 DEF TableOK, Row
      <4>3. outbox' \subseteq OutPackage
        BY <2>1, <4>1, <4>2 DEF TypeOK, Introductions, OutPackage
      <4> QED
        BY <1>0, <4>1, <4>3, DroppedTable
    <3>3. CASE ReceiveConRegister(d)
      <4>1. UNCHANGED outbox
        BY <3>3 DEF ReceiveConRegister
      <4> QED
        BY <1>0, <3>3, <4>1, RegisterTable DEF TypeOK
    <3>4. CASE ReceiveEnd(d)
      BY <1>0, <3>4, DroppedTable DEF ReceiveEnd, TypeOK
    <3> QED
      BY <1>3, <3>1, <3>2, <3>3, <3>4 DEF ReceiveThread
  <2> QED
    BY <2>1, <2>2, <2>3, <2>4 DEF TypeOK, TableOK, sockets
<1>4. CASE Tick
  <2>1. UNCHANGED <<sockets, inbox, lastRec, outbox, main, ending>>
    BY <1>4 DEF Tick
  <2> QED
    BY <1>0, <1>4, <2>1, TickTable DEF TypeOK, TableOK, sockets
<1>5. CASE CheckTimeout
  <2>1. UNCHANGED <<sockets, inbox, lastRec, outbox>> /\ main' = "ending"
    BY <1>5 DEF CheckTimeout
  <2>2. ending' \subseteq Row
    BY <1>0, <1>5 DEF CheckTimeout, Overdue, TableOK
  <2>3. TableOK'
    BY <1>0, <1>5, DroppedTable DEF CheckTimeout
  <2> QED
    BY <2>1, <2>2, <2>3 DEF TypeOK, TableOK, sockets
<1>6. CASE SendEnd \/ LoopDone \/ MainDies
  <2>1. UNCHANGED <<sockets, inbox, lastRec, clients>> /\ main' \in {"top", "ending", "dead"}
    BY <1>6 DEF SendEnd, LoopDone, MainDies, TypeOK
  <2>2. ending' \subseteq Row /\ outbox' \subseteq OutPackage
    BY <1>6 DEF SendEnd, LoopDone, MainDies, TypeOK, Row, EndTo, OutPackage
  <2> QED
    BY <2>1, <2>2 DEF TypeOK, sockets
<1>7. CASE UNCHANGED vars
  BY <1>7 DEF TypeOK, vars, sockets
<1> QED
  BY <1>1, <1>2, <1>3, <1>4, <1>5, <1>6, <1>7 DEF Next, CheckTimeoutReturns

\* Every reachable state of the server is well typed; in particular _clients stays
\* a finite table of rows under distinct labels.
THEOREM ServerTypeCorrect == Spec => []TypeOK
  BY ServerInitTyped, ServerNextTyped, PTL DEF Spec
-----------------------------------------------------------------------------
(* The inductive invariant.  What a step does to the table keeps it: rows  *)
(* go, or one comes for a punchline and a client that asked for it.        *)

\* Rows that remain keep their punchline and address.
LEMMA RowsGoInv ==
  ASSUME OneWaitsPerPunchline, \A row \in Waiting : asked[row.addr] = row.punchline,
         DOMAIN clients' \subseteq DOMAIN clients,
         \A l \in DOMAIN clients' : /\ clients'[l].punchline = clients[l].punchline
                                    /\ clients'[l].addr = clients[l].addr,
         asked' = asked
  PROVE  /\ OneWaitsPerPunchline'
         /\ \A row \in Waiting' : asked'[row.addr] = row.punchline
  BY DEF OneWaitsPerPunchline, Waiting

LEMMA DroppedInv ==
  ASSUME TableOK, NEW labels, clients' = DropRows(labels)
  PROVE  /\ DOMAIN clients' \subseteq DOMAIN clients
         /\ \A l \in DOMAIN clients' : /\ clients'[l].punchline = clients[l].punchline
                                       /\ clients'[l].addr = clients[l].addr
<1>1. DOMAIN clients' = DOMAIN clients \ labels
  BY DropRowsTable
<1>2. \A l \in DOMAIN clients' : clients'[l] = clients[l]
  BY <1>1, DropRowsTable
<1> QED
  BY <1>1, <1>2

LEMMA RegisteredInv ==
  ASSUME TypeOK, TableOK, OneWaitsPerPunchline, AskedInv,
         NEW d \in Datagram, ReceiveConRegister(d)
  PROVE  /\ OneWaitsPerPunchline'
         /\ \A row \in Waiting' : asked'[row.addr] = row.punchline
<1>1. PICK label \in DOMAIN clients' :
        /\ DOMAIN clients' = DOMAIN clients \cup {label}
        /\ clients'[label] = [punchline |-> d.pkg.data, addr |-> d.from, age |-> 0]
        /\ \A l \in DOMAIN clients : l # label => clients'[l] = clients[l]
  BY RegisterTable
<1>2. asked[d.from] = d.pkg.data /\ asked' = asked
  BY DEF ReceiveConRegister, Take, Fresh, AskedInv, sockets
<1>3. \A l \in DOMAIN clients : clients[l].punchline # d.pkg.data
  BY DEF ReceiveConRegister, Candidates
<1>4. OneWaitsPerPunchline'
  BY <1>1, <1>3 DEF OneWaitsPerPunchline
<1>5. \A row \in Waiting' : asked'[row.addr] = row.punchline
  BY <1>1, <1>2 DEF AskedInv, Waiting
<1> QED
  BY <1>4, <1>5

\* The two packages of a link match.
LEMMA LinkedInv ==
  ASSUME TypeOK, TableOK, AskedInv, IntroductionsMatch,
         NEW d \in Datagram, ReceiveConLink(d)
  PROVE  IntroductionsMatch'
<1>1. PICK l \in DOMAIN clients :
        /\ clients[l].punchline = d.pkg.data
        /\ clients[l].addr # d.from
        /\ outbox' = outbox \cup Introductions(d.from, clients[l].addr)
  BY DEF ReceiveConLink, Candidates
<1> DEFINE a == d.from
           b == clients[l].addr
<1>2. asked' = asked /\ clients[l] \in Row /\ clients[l] \in Waiting
  BY DEF ReceiveConLink, sockets, TableOK, Waiting
<1>3. asked[a] = d.pkg.data /\ asked[b] = d.pkg.data /\ d.pkg.data # None
  <2>1. d.pkg \in Package /\ d.pkg.type = "CON"
    BY DEF ReceiveConLink, Fresh, Datagram
  <2>2. d.pkg.data # None
    BY <2>1, ServerAssumption DEF Package, ServerAssumption
  <2> QED
    BY <1>1, <1>2, <2>1, <2>2 DEF ReceiveConLink, Take, Fresh, AskedInv
<1>4. SUFFICES ASSUME NEW m \in outbox', m.type = "CON"
               PROVE  /\ m.to # m.partner
                      /\ asked[m.to] = asked[m.partner] /\ asked[m.to] # None
                      /\ [type |-> "CON", to |-> m.partner, partner |-> m.to,
                          number |-> 1 - m.number] \in outbox'
  BY <1>2 DEF IntroductionsMatch
<1>5. CASE m \in outbox
  BY <1>1, <1>4, <1>5 DEF IntroductionsMatch
<1>6. CASE m = [type |-> "CON", to |-> a, partner |-> b, number |-> 0]
  BY <1>1, <1>3, <1>6 DEF Introductions
<1>7. CASE m = [type |-> "CON", to |-> b, partner |-> a, number |-> 1]
  BY <1>1, <1>3, <1>7 DEF Introductions
<1> QED
  BY <1>1, <1>5, <1>6, <1>7 DEF Introductions

LEMMA ServerInitInv == Init => ServerInv
<1> SUFFICES ASSUME Init PROVE ServerInv
  OBVIOUS
<1>1. DOMAIN clients = {} /\ inbox = {} /\ outbox = {}
  BY DEF Init
<1> QED
  BY <1>1 DEF ServerInv, OneWaitsPerPunchline, AskedInv, IntroductionsMatch, Waiting

LEMMA ServerNextInv == TypeOK /\ ServerInv /\ [Next]_vars => ServerInv'
<1> SUFFICES ASSUME TypeOK, OneWaitsPerPunchline, AskedInv, IntroductionsMatch, [Next]_vars
             PROVE  OneWaitsPerPunchline' /\ AskedInv' /\ IntroductionsMatch'
  BY DEF ServerInv
<1>0. TableOK /\ \A row \in Waiting : asked[row.addr] = row.punchline
  BY DEF TypeOK, TableOK, AskedInv
<1>1. ASSUME NEW c \in Client, Ask(c)
      PROVE  OneWaitsPerPunchline' /\ AskedInv' /\ IntroductionsMatch'
  <2>1. PICK p \in Punchline, r \in RollingId :
          /\ asked' = [asked EXCEPT ![c] = p]
          /\ Post(c, [type |-> "CON", rid |-> r, data |-> p])
    BY <1>1 DEF Ask
  <2>2. asked[c] = None /\ UNCHANGED <<clients, outbox>>
    BY <1>1 DEF Ask
  <2>3. \A k \in Client : asked[k] # None => asked'[k] = asked[k]
    BY <2>1, <2>2 DEF TypeOK
  <2>4. asked'[c] = p
    BY <2>1 DEF TypeOK
  <2>5. \A d \in inbox' : d.pkg # OtherVersion /\ d.pkg.type = "CON" => asked'[d.from] = d.pkg.data
    <3> SUFFICES ASSUME NEW d \in inbox', d.pkg # OtherVersion, d.pkg.type = "CON"
                 PROVE  asked'[d.from] = d.pkg.data
      OBVIOUS
    <3>1. CASE d \in inbox
      <4>1. d.from \in Client /\ d.pkg \in Package /\ asked[d.from] = d.pkg.data
        BY <3>1 DEF TypeOK, Datagram, AskedInv
      <4>2. d.pkg.data # None
        BY <4>1, ServerAssumption DEF Package, ServerAssumption
      <4> QED
        BY <2>3, <4>1, <4>2
    <3>2. CASE d = [from |-> c, pkg |-> [type |-> "CON", rid |-> r, data |-> p]]
      BY <2>4, <3>2
    <3> QED
      BY <2>1, <3>1, <3>2 DEF Post
  <2>6. \A row \in Waiting' : asked'[row.addr] = row.punchline
    <3> SUFFICES ASSUME NEW row \in Waiting PROVE asked'[row.addr] = row.punchline
      BY <2>2 DEF Waiting
    <3>1. row \in Row
      BY <1>0 DEF TableOK, Waiting
    <3>2. row.addr \in Client /\ asked[row.addr] # None
      BY <1>0, <3>1, ServerAssumption DEF Row, ServerAssumption
    <3> QED
      BY <1>0, <2>3, <3>2
  <2>7. IntroductionsMatch'
    <3> SUFFICES ASSUME NEW m \in outbox, m.type = "CON"
                 PROVE  /\ m.to # m.partner
                        /\ asked'[m.to] = asked'[m.partner] /\ asked'[m.to] # None
                        /\ [type |-> "CON", to |-> m.partner, partner |-> m.to,
                            number |-> 1 - m.number] \in outbox
      BY <2>2 DEF IntroductionsMatch
    <3>1. m.to \in Client /\ m.partner \in Client
      BY DEF TypeOK, OutPackage
    <3> QED
      BY <2>3, <3>1 DEF IntroductionsMatch
  <2> QED
    BY <2>2, <2>5, <2>6, <2>7 DEF OneWaitsPerPunchline, AskedInv
<1>2. ASSUME NEW c \in Client, Withdraw(c) \/ Probe(c)
      PROVE  OneWaitsPerPunchline' /\ AskedInv' /\ IntroductionsMatch'
  <2>1. \A d \in inbox' : d \in inbox \/ d.pkg = OtherVersion \/ d.pkg.type # "CON"
    BY <1>2 DEF Withdraw, Probe, Post
  <2>2. UNCHANGED <<asked, clients, outbox>>
    BY <1>2 DEF Withdraw, Probe
  <2> QED
    BY <2>1, <2>2 DEF OneWaitsPerPunchline, AskedInv, IntroductionsMatch, Waiting
<1>3. ASSUME NEW d \in Datagram, ReceiveThread(d)
      PROVE  OneWaitsPerPunchline' /\ AskedInv' /\ IntroductionsMatch'
  <2>1. inbox' \subseteq inbox /\ asked' = asked
    BY <1>3 DEF ReceiveThread, ReceiveOtherVersion, ReceiveRepetition, ReceiveConLink,
       ReceiveConAgain, ReceiveConRegister, ReceiveEnd, ReceiveDat, Take, sockets
  <2>2. OneWaitsPerPunchline' /\ \A row \in Waiting' : asked'[row.addr] = row.punchline
    <3>1. CASE ReceiveConRegister(d)
      BY <1>0, <3>1, RegisteredInv
    <3>2. ASSUME NEW labels, clients' = DropRows(labels)
          PROVE  OneWaitsPerPunchline' /\ \A row \in Waiting' : asked'[row.addr] = row.punchline
      BY <1>0, <2>1, <3>2, DroppedInv, RowsGoInv
    <3>3. CASE UNCHANGED clients
      BY <1>0, <2>1, <3>3 DEF OneWaitsPerPunchline, Waiting
    <3>4. \/ ReceiveConRegister(d) \/ UNCHANGED clients
          \/ \E labels : clients' = DropRows(labels)
      BY <1>3 DEF ReceiveThread, ReceiveOtherVersion, ReceiveRepetition, ReceiveConLink,
         ReceiveConAgain, ReceiveEnd, ReceiveDat
    <3> QED
      BY <3>1, <3>2, <3>3, <3>4
  <2>3. IntroductionsMatch'
    <3>1. CASE ReceiveConLink(d)
      BY <1>0, <3>1, LinkedInv
    <3>2. CASE ~ ReceiveConLink(d)
      <4>1. \A m \in outbox' : m \in outbox \/ m.type # "CON"
        BY <1>3, <3>2 DEF ReceiveThread, ReceiveOtherVersion, ReceiveRepetition,
           ReceiveConAgain, ReceiveConRegister, ReceiveEnd, ReceiveDat, EndTo
      <4>2. outbox \subseteq outbox'
        BY <1>3, <3>2 DEF ReceiveThread, ReceiveOtherVersion, ReceiveRepetition,
           ReceiveConAgain, ReceiveConRegister, ReceiveEnd, ReceiveDat
      <4> QED
        BY <2>1, <4>1, <4>2 DEF IntroductionsMatch
    <3> QED
      BY <3>1, <3>2
  <2> QED
    BY <2>1, <2>2, <2>3 DEF AskedInv
<1>4. CASE Tick \/ CheckTimeout
  <2>1. asked' = asked /\ UNCHANGED <<inbox, outbox>>
    BY <1>4 DEF Tick, CheckTimeout, sockets
  <2>2. OneWaitsPerPunchline' /\ \A row \in Waiting' : asked'[row.addr] = row.punchline
    <3>1. CASE Tick
      BY <1>0, <2>1, <3>1, TickTable, RowsGoInv
    <3>2. CASE CheckTimeout
      <4>1. clients' = DropRows(Overdue)
        BY <3>2 DEF CheckTimeout
      <4> QED
        BY <1>0, <2>1, <4>1, DroppedInv, RowsGoInv
    <3> QED
      BY <1>4, <3>1, <3>2
  <2> QED
    BY <2>1, <2>2 DEF AskedInv, IntroductionsMatch
<1>5. CASE Lose \/ SendEnd \/ LoopDone \/ MainDies \/ UNCHANGED vars
  <2>1. UNCHANGED <<asked, clients>> /\ inbox' \subseteq inbox
    BY <1>5 DEF Lose, SendEnd, LoopDone, MainDies, vars, sockets
  <2>2. outbox \subseteq outbox' /\ \A m \in outbox' : m \in outbox \/ m.type # "CON"
    BY <1>5 DEF Lose, SendEnd, LoopDone, MainDies, vars, sockets, EndTo
  <2> QED
    BY <2>1, <2>2 DEF OneWaitsPerPunchline, AskedInv, IntroductionsMatch, Waiting
<1> QED
  BY <1>1, <1>2, <1>3, <1>4, <1>5 DEF Next, CheckTimeoutReturns

\* One client waits per punchline, and introductions come in pairs of distinct
\* clients that asked for the same punchline, whatever is repeated, reordered or
\* lost and whichever index labels are reused (_handle_received_pkg, _link).
THEOREM ServerInvariant == Spec => []ServerInv
  BY ServerInitInv, ServerNextInv, ServerTypeCorrect, PTL DEF Spec
-----------------------------------------------------------------------------
(* Refinement.                                                             *)

\* The values Rendezvous!waiting and Rendezvous!links have in a state of the server.
WaitingBar == {[punchline |-> row.punchline, addr |-> row.addr] : row \in Waiting}
LinksBar == {[first |-> m.to, second |-> m.partner] :
               m \in {n \in outbox : n.type = "CON" /\ n.number = 1}}

LEMMA WaitingBarElements ==
  /\ \A l \in DOMAIN clients :
       [punchline |-> clients[l].punchline, addr |-> clients[l].addr] \in WaitingBar
  /\ \A w \in WaitingBar : \E l \in DOMAIN clients :
       w = [punchline |-> clients[l].punchline, addr |-> clients[l].addr]
  BY DEF WaitingBar, Waiting

LEMMA RowsGoBar ==
  ASSUME DOMAIN clients' \subseteq DOMAIN clients,
         \A l \in DOMAIN clients' : /\ clients'[l].punchline = clients[l].punchline
                                    /\ clients'[l].addr = clients[l].addr
  PROVE  WaitingBar' \subseteq WaitingBar
  BY DEF WaitingBar, Waiting

LEMMA LinksBarKept ==
  ASSUME outbox \subseteq outbox', \A m \in outbox' : m \in outbox \/ m.type # "CON"
  PROVE  LinksBar' = LinksBar
  BY DEF LinksBar

LEMMA RegisterRefines ==
  ASSUME TypeOK, TableOK, NEW d \in Datagram, ReceiveConRegister(d)
  PROVE  Meeting!Wait(d.pkg.data, d.from)
<1> DEFINE p == d.pkg.data
           c == d.from
<1>1. PICK label \in DOMAIN clients' :
        /\ DOMAIN clients' = DOMAIN clients \cup {label}
        /\ clients'[label] = [punchline |-> p, addr |-> c, age |-> 0]
        /\ \A l \in DOMAIN clients : l # label => clients'[l] = clients[l]
  BY RegisterTable
<1>2. \A w \in WaitingBar : w.punchline # p
  <2>1. \A l \in DOMAIN clients : clients[l].punchline # p
    BY DEF ReceiveConRegister, Candidates
  <2> QED
    BY <2>1, WaitingBarElements
<1> DEFINE kept == {[punchline |-> clients[l].punchline, addr |-> clients[l].addr] :
                      l \in DOMAIN clients \ {label}}
<1>3. kept \subseteq WaitingBar
  BY WaitingBarElements
<1>4. WaitingBar' = kept \cup {[punchline |-> p, addr |-> c]}
  BY <1>1 DEF WaitingBar, Waiting
<1>5. UNCHANGED outbox
  BY DEF ReceiveConRegister
<1>6. LinksBar' = LinksBar
  BY <1>5 DEF LinksBar
<1> HIDE DEF kept
<1>7. \E K \in SUBSET WaitingBar : WaitingBar' = K \cup {[punchline |-> p, addr |-> c]}
  BY <1>3, <1>4
<1> QED
  BY <1>2, <1>6, <1>7 DEF Meeting!Wait, WaitingBar, LinksBar

LEMMA LinkRefines ==
  ASSUME TypeOK, TableOK, OneWaitsPerPunchline, NEW d \in Datagram, ReceiveConLink(d)
  PROVE  Meeting!Meet(d.pkg.data, d.from)
<1> DEFINE c == d.from
<1>1. PICK l \in DOMAIN clients :
        /\ clients[l].punchline = d.pkg.data
        /\ clients[l].addr # c
        /\ outbox' = outbox \cup Introductions(c, clients[l].addr)
        /\ clients' = DropRows({l})
  BY DEF ReceiveConLink, Candidates
<1> DEFINE w == [punchline |-> clients[l].punchline, addr |-> clients[l].addr]
<1>2. w \in WaitingBar
  BY WaitingBarElements
<1>3. /\ DOMAIN clients' = DOMAIN clients \ {l}
      /\ \A k \in DOMAIN clients \ {l} : clients'[k] = clients[k]
  BY <1>1, DropRowsTable
<1>4. \A k \in DOMAIN clients \ {l} : clients[k].punchline # clients[l].punchline
  BY DEF OneWaitsPerPunchline
<1>5. WaitingBar' = WaitingBar \ {w}
  <2>1. WaitingBar' = {[punchline |-> clients[k].punchline, addr |-> clients[k].addr] :
                         k \in DOMAIN clients \ {l}}
    BY <1>3 DEF WaitingBar, Waiting
  <2>2. \A k \in DOMAIN clients \ {l} :
          [punchline |-> clients[k].punchline, addr |-> clients[k].addr] # w
    BY <1>4
  <2>3. WaitingBar = {[punchline |-> clients[k].punchline, addr |-> clients[k].addr] :
                        k \in DOMAIN clients}
    BY DEF WaitingBar, Waiting
  <2> QED
    BY <2>1, <2>2, <2>3
<1>6. LinksBar' = LinksBar \cup {[first |-> w.addr, second |-> c]}
  <2> DEFINE m0 == [type |-> "CON", to |-> c, partner |-> w.addr, number |-> 0]
             m1 == [type |-> "CON", to |-> w.addr, partner |-> c, number |-> 1]
  <2>1. outbox' = outbox \cup {m0, m1}
    BY <1>1 DEF Introductions
  <2>2. m0.number # 1 /\ m1.type = "CON" /\ m1.number = 1
    OBVIOUS
  <2>3. {n \in outbox' : n.type = "CON" /\ n.number = 1}
          = {n \in outbox : n.type = "CON" /\ n.number = 1} \cup {m1}
    BY <2>1, <2>2
  <2>4. m1.to = w.addr /\ m1.partner = c
    OBVIOUS
  <2> HIDE DEF m0, m1, w
  <2> QED
    BY <2>3, <2>4 DEF LinksBar
<1>7. \E v \in WaitingBar :
        /\ v.punchline = d.pkg.data /\ v.addr # c
        /\ WaitingBar' = WaitingBar \ {v}
        /\ LinksBar' = LinksBar \cup {[first |-> v.addr, second |-> c]}
  BY <1>1, <1>2, <1>5, <1>6
<1> QED
  BY <1>7 DEF Meeting!Meet, WaitingBar, LinksBar

LEMMA ForgetRefines ==
  ASSUME WaitingBar' \subseteq WaitingBar, LinksBar' = LinksBar
  PROVE  Meeting!Forget
  BY DEF Meeting!Forget, WaitingBar, LinksBar

LEMMA ServerStepRefines ==
  ASSUME TypeOK, OneWaitsPerPunchline, [Next]_vars
  PROVE  [Meeting!Next]_(Meeting!vars)
<1>0. TableOK
  BY DEF TypeOK, TableOK
<1>1. ASSUME NEW d \in Datagram, ReceiveConRegister(d) \/ ReceiveConLink(d)
      PROVE  Meeting!Next
  <2>1. d.pkg.data \in Punchline /\ d.from \in Client
    BY <1>1 DEF ReceiveConRegister, ReceiveConLink, Fresh, Datagram, Package
  <2> QED
    BY <1>0, <1>1, <2>1, RegisterRefines, LinkRefines DEF Meeting!Next
<1>2. ASSUME NEW labels, clients' = DropRows(labels), UNCHANGED outbox
      PROVE  Meeting!Next
  <2>1. WaitingBar' \subseteq WaitingBar
    BY <1>0, <1>2, DroppedInv, RowsGoBar
  <2>2. LinksBar' = LinksBar
    BY <1>2 DEF LinksBar
  <2> QED
    BY <2>1, <2>2, ForgetRefines DEF Meeting!Next
<1>3. CASE Tick
  <2>1. WaitingBar' \subseteq WaitingBar
    BY <1>0, <1>3, TickTable, RowsGoBar
  <2>2. LinksBar' = LinksBar
    BY <1>3 DEF Tick, LinksBar
  <2> QED
    BY <2>1, <2>2, ForgetRefines DEF Meeting!Next
<1>4. ASSUME UNCHANGED clients, outbox \subseteq outbox',
             \A m \in outbox' : m \in outbox \/ m.type # "CON"
      PROVE  Meeting!Next
  <2>1. WaitingBar' = WaitingBar
    BY <1>4 DEF WaitingBar, Waiting
  <2> QED
    BY <1>4, <2>1, LinksBarKept, ForgetRefines DEF Meeting!Next
<1>5. CASE \E d \in Datagram : ReceiveEnd(d)
  <2>1. PICK d \in Datagram : ReceiveEnd(d)
    BY <1>5
  <2> QED
    BY <1>2, <2>1 DEF ReceiveEnd
<1>6. CASE CheckTimeout
  BY <1>2, <1>6 DEF CheckTimeout
<1>7. CASE \/ \E c \in Client : Ask(c) \/ Withdraw(c) \/ Probe(c)
           \/ \E d \in Datagram : \/ ReceiveOtherVersion(d) \/ ReceiveRepetition(d)
                                  \/ ReceiveConAgain(d) \/ ReceiveDat(d)
           \/ Lose \/ SendEnd \/ LoopDone \/ MainDies \/ UNCHANGED vars
  <2>1. /\ UNCHANGED clients /\ outbox \subseteq outbox'
        /\ \A m \in outbox' : m \in outbox \/ m.type # "CON"
    BY <1>7 DEF Ask, Withdraw, Probe, ReceiveOtherVersion, ReceiveRepetition,
       ReceiveConAgain, ReceiveDat, Lose, SendEnd, LoopDone, MainDies, vars, EndTo
  <2> QED
    BY <1>4, <2>1
<1> QED
  BY <1>1, <1>3, <1>5, <1>6, <1>7 DEF Next, ReceiveThread, CheckTimeoutReturns

\* The server keeps the promise of Rendezvous for any number of clients: every link
\* joins a newcomer with the one client that waits and ends its wait.
THEOREM ServerRefinesRendezvous == Spec => ImplementsRendezvous
<1>1. Init => Meeting!Init
  <2> SUFFICES ASSUME Init PROVE Meeting!Init
    OBVIOUS
  <2>1. DOMAIN clients = {} /\ outbox = {}
    BY DEF Init
  <2>2. WaitingBar = {} /\ LinksBar = {}
    BY <2>1 DEF WaitingBar, Waiting, LinksBar
  <2> QED
    BY <2>2 DEF Meeting!Init, WaitingBar, LinksBar
<1>2. TypeOK /\ ServerInv /\ [Next]_vars => [Meeting!Next]_(Meeting!vars)
  BY ServerStepRefines DEF ServerInv
<1> QED
  BY <1>1, <1>2, ServerTypeCorrect, ServerInvariant, PTL
     DEF Spec, ImplementsRendezvous, Meeting!Spec
=============================================================================
