-------------------------- MODULE TransportProofs ---------------------------
(***************************************************************************)
(* Proofs about Transport: its types for every instance; reliable delivery *)
(* over a FIFO network as long as no two packages consist of the same      *)
(* bytes; that the rolling id guarantees this for as many packages as it   *)
(* has values; what holds over any network; and that Transport implements  *)
(* ReliableLink in every behaviour in which the packages are distinct and  *)
(* no old datagram arrives late.                                           *)
(***************************************************************************)
EXTENDS Transport, SequenceTheorems, TLAPS

(* Sequences: taking the first datagram, and sending one more.             *)

LEMMA RemoveFirstElement ==
  ASSUME NEW S, NEW s \in Seq(S), Len(s) > 0
  PROVE  /\ RemoveAt(s, 1) \in Seq(S)
         /\ Len(RemoveAt(s, 1)) = Len(s) - 1
         /\ \A i \in 1 .. Len(s) - 1 : RemoveAt(s, 1)[i] = s[i + 1]
<1>1. SubSeq(s, 1, 1 - 1) = <<>>
  BY SubSeqEmpty
<1>2. SubSeq(s, 1 + 1, Len(s)) = Tail(s)
  BY TailIsSubSeq, s # <<>>
<1>3. RemoveAt(s, 1) = Tail(s)
  BY <1>1, <1>2, ConcatEmptySeq, HeadTailProperties, s # <<>> DEF RemoveAt
<1> QED
  BY <1>3, HeadTailProperties, s # <<>>

LEMMA RemoveAtType ==
  ASSUME NEW S, NEW s \in Seq(S), NEW i \in 1 .. Len(s)
  PROVE  RemoveAt(s, i) \in Seq(S)
<1>1. SubSeq(s, 1, i - 1) \in Seq(S) /\ SubSeq(s, i + 1, Len(s)) \in Seq(S)
  BY SubSeqProperties
<1> QED
  BY <1>1, ConcatProperties DEF RemoveAt

LEMMA TransmitElements ==
  ASSUME NEW net \in Seq(Package), NEW p \in Package
  PROVE  /\ Transmit(net, p) \in Seq(Package)
         /\ Len(Transmit(net, p)) \in {Len(net), Len(net) + 1}
         /\ \A i \in 1 .. Len(net) : Transmit(net, p)[i] = net[i]
         /\ Len(Transmit(net, p)) = Len(net) + 1 => Transmit(net, p)[Len(net) + 1] = p
  BY AppendProperties DEF Transmit

\* What an action that takes datagram i of a FIFO network leaves of it.
LEMMA TakeFromFifo ==
  ASSUME Overtake = 0,
         NEW net \in Seq(Package), NEW i \in Deliverable(net),
         NEW rest \in AfterTaking(net, i)
  PROVE  /\ i = 1 /\ Len(net) > 0 /\ net[1] \in Package
         /\ rest \in Seq(Package)
         /\ \/ rest = net
            \/ /\ Len(rest) = Len(net) - 1
               /\ \A j \in 1 .. Len(rest) : rest[j] = net[j + 1]
  BY RemoveFirstElement DEF Deliverable, AfterTaking

LEMMA DatagramType ==
  ASSUME NEW net \in Seq(Package), NEW i \in Deliverable(net)
  PROVE  /\ i \in 1 .. Len(net) /\ net[i] \in Package
         /\ AfterTaking(net, i) \in SUBSET Seq(Package)
  BY RemoveAtType DEF Deliverable, AfterTaking

LEMMA CounterType ==
  ASSUME NEW f \in [Package -> 0 .. MaxAcks], NEW p \in Package, f[p] < MaxAcks
  PROVE  [f EXCEPT ![p] = @ + 1] \in [Package -> 0 .. MaxAcks]
<1>1. f[p] + 1 \in 0 .. MaxAcks
  BY TransportAssumption
<1> QED
  BY <1>1

LEMMA LastElement ==
  ASSUME NEW S, NEW s \in Seq(S), Len(s) > 0
  PROVE  Last(s) = s[Len(s)] /\ Last(s) \in S
  BY DEF Last
-----------------------------------------------------------------------------
(* Types, and the control of the sending thread.                           *)

LEMMA RollingStep ==
  ASSUME NEW r \in RollingId
  PROVE  /\ (r + 1) % RollingModulus = IF r = RollingModulus - 1 THEN 0 ELSE r + 1
         /\ (r + 1) % RollingModulus \in RollingId
  BY TransportAssumption DEF RollingId

LEMMA InitTyped == Init => TypeOK /\ ThreadInv
<1> SUFFICES ASSUME Init PROVE TypeOK /\ ThreadInv
  OBVIOUS
<1>1. acks \in [Package -> 0 .. MaxAcks]
  BY TransportAssumption DEF Init
<1>2. wire \in Seq(Package) /\ back \in Seq(Package)
  BY DEF Init
<1>3. sent \in Seq(Package) /\ delivered \in Seq(Package)
  BY DEF Init
<1>4. cancel \in BOOLEAN /\ stop \in BOOLEAN /\ raised \in BOOLEAN
  BY DEF Init
<1>5. /\ rolling \in RollingId /\ created \in 0 .. MaxCreated
      /\ resends \in 0 .. MaxResendTries /\ confirmed \in Nat
      /\ pc \in {"top", "ready", "wait", "due", "caught", "dead"}
      /\ lastRec \in Package \cup {NoPackage}
  BY TransportAssumption DEF Init
<1>6. TypeOK
  BY <1>1, <1>2, <1>3, <1>4, <1>5 DEF TypeOK
<1> QED
  BY <1>6 DEF Init, ThreadInv

LEMMA NextTyped == TypeOK /\ ThreadInv /\ [Next]_vars => TypeOK' /\ ThreadInv'
<1> SUFFICES ASSUME TypeOK, ThreadInv, [Next]_vars
             PROVE  TypeOK' /\ ThreadInv'
  OBVIOUS
<1> USE TransportAssumption DEF TypeOK, ThreadInv
<1>1. CASE CheckStop
  BY <1>1 DEF CheckStop, receiver
<1>2. CASE Idle
  BY <1>2 DEF Idle, receiver
<1>3. CASE SendFirst
  <2>1. PICK c \in Content :
          /\ sent' = Append(sent, [rid |-> rolling, content |-> c])
          /\ wire' = Transmit(wire, [rid |-> rolling, content |-> c])
    BY <1>3 DEF SendFirst
  <2>2. [rid |-> rolling, content |-> c] \in Package
    BY DEF Package
  <2>3. sent' \in Seq(Package) /\ Len(sent') = Len(sent) + 1 /\ wire' \in Seq(Package)
    BY <2>1, <2>2, AppendProperties, TransmitElements
  <2>4. rolling' \in RollingId /\ created' \in 0 .. MaxCreated
    BY <1>3, RollingStep DEF SendFirst, CreatePkg
  <2>5. cancel' \in BOOLEAN /\ stop' \in BOOLEAN /\ raised' \in BOOLEAN
    BY <1>3 DEF SendFirst
  <2>6. /\ resends' = 0 /\ pc = "ready" /\ pc' = "wait" /\ (cancel' => stop')
        /\ UNCHANGED <<confirmed, acks, back, lastRec, delivered>>
    BY <1>3 DEF SendFirst, receiver
  <2>7. TypeOK'
    BY <2>3, <2>4, <2>5, <2>6
  <2>8. ThreadInv'
    BY <2>3, <2>6
  <2> QED
    BY <2>7, <2>8
<1>4. CASE LoopCancelled
  BY <1>4 DEF LoopCancelled, LeaveLoop, receiver
<1>5. CASE LoopAcked
  <2>1. Last(sent) \in Package
    BY <1>5, LastElement DEF LoopAcked
  <2>2. acks' \in [Package -> 0 .. MaxAcks]
    BY <1>5, <2>1 DEF LoopAcked
  <2> QED
    BY <1>5, <2>2 DEF LoopAcked, LeaveLoop, receiver
<1>6. CASE LoopExhausted
  BY <1>6 DEF LoopExhausted, LeaveLoop, receiver
<1>7. CASE LoopContinues
  BY <1>7 DEF LoopContinues, receiver
<1>8. CASE Resend
  <2>1. wire' \in Seq(Package)
    BY <1>8, LastElement, TransmitElements DEF Resend
  <2> QED
    BY <1>8, <2>1 DEF Resend, receiver
<1>9. CASE SendOther
  <2>1. rolling' \in RollingId /\ created' \in 0 .. MaxCreated
    BY <1>9, RollingStep DEF SendOther, CreatePkg
  <2>2. cancel' \in BOOLEAN /\ stop' = stop /\ raised' = raised /\ (cancel' => stop')
    BY <1>9 DEF SendOther
  <2>3. UNCHANGED <<pc, resends, sent, confirmed, acks, wire, back, lastRec, delivered>>
    BY <1>9 DEF SendOther, receiver
  <2>4. TypeOK'
    BY <2>1, <2>2, <2>3
  <2>5. ThreadInv'
    BY <2>2, <2>3
  <2> QED
    BY <2>4, <2>5
<1>10. CASE Receive
  <2>1. PICK i \in Deliverable(wire) :
          /\ wire' \in AfterTaking(wire, i)
          /\ back' = Transmit(back, wire[i])
          /\ IF lastRec = wire[i]
               THEN UNCHANGED receiver
               ELSE lastRec' = wire[i] /\ delivered' = Append(delivered, wire[i])
          /\ UNCHANGED <<sender, acks>>
    BY <1>10 DEF Receive
  <2>2. wire[i] \in Package /\ wire' \in Seq(Package) /\ back' \in Seq(Package)
    BY <2>1, DatagramType, TransmitElements
  <2>3. lastRec' \in Package \cup {NoPackage} /\ delivered' \in Seq(Package)
    <3>1. CASE lastRec = wire[i]
      BY <2>1, <3>1 DEF receiver
    <3>2. CASE lastRec # wire[i]
      <4>1. lastRec' = wire[i] /\ delivered' = Append(delivered, wire[i])
        BY <2>1, <3>2
      <4>2. delivered \in Seq(Package)
        OBVIOUS
      <4> HIDE DEF TypeOK, ThreadInv
      <4> QED
        BY <2>2, <4>1, <4>2, AppendProperties
    <3> QED
      BY <3>1, <3>2
  <2>4. UNCHANGED <<rolling, created, pc, resends, cancel, stop, raised, sent, confirmed, acks>>
    BY <2>1 DEF sender
  <2> QED
    BY <2>2, <2>3, <2>4
<1>11. CASE ReceiveAck
  <2>1. PICK i \in Deliverable(back) :
          /\ acks[back[i]] < MaxAcks
          /\ acks' = [acks EXCEPT ![back[i]] = @ + 1]
          /\ back' \in AfterTaking(back, i)
          /\ UNCHANGED <<sender, wire, receiver>>
    BY <1>11 DEF ReceiveAck
  <2>2. back[i] \in Package /\ back' \in Seq(Package)
    BY <2>1, DatagramType
  <2>3. acks' \in [Package -> 0 .. MaxAcks]
    <3> HIDE DEF TypeOK, ThreadInv
    <3>1. acks \in [Package -> 0 .. MaxAcks]
      BY DEF TypeOK
    <3> QED
      BY <2>1, <2>2, <3>1, CounterType
  <2> QED
    BY <2>1, <2>2, <2>3 DEF sender, receiver
<1>12. CASE EndConnection
  BY <1>12 DEF EndConnection, receiver
<1>13. CASE LoseData
  BY <1>13, DatagramType DEF LoseData, AfterTaking, sender, receiver
<1>14. CASE LoseAck
  BY <1>14, DatagramType DEF LoseAck, AfterTaking, sender, receiver
<1>15. CASE UNCHANGED vars
  BY <1>15 DEF vars, sender, receiver
<1>16. CASE SendFirstRaises
  <2>1. rolling' \in RollingId /\ created' \in 0 .. MaxCreated
    BY <1>16, RollingStep DEF SendFirstRaises, CreatePkg
  <2>2. /\ UNCHANGED <<resends, cancel, stop, raised, sent, confirmed, acks, wire, back,
                        lastRec, delivered>>
        /\ pc = "ready" /\ pc' = "caught"
    BY <1>16 DEF SendFirstRaises, receiver
  <2> QED
    BY <2>1, <2>2
<1>17. CASE ResendRaises
  BY <1>17 DEF ResendRaises, receiver
<1>18. CASE CaughtEnds
  BY <1>18 DEF CaughtEnds, receiver
<1> QED
  BY <1>1, <1>2, <1>3, <1>4, <1>5, <1>6, <1>7, <1>8, <1>9, <1>10, <1>11, <1>12,
     <1>13, <1>14, <1>15, <1>16, <1>17, <1>18 DEF Next, SendThread, SendPkg

\* Every reachable state of every instance has the declared types, and the
\* sending thread starts a package only with the earlier ones confirmed.
THEOREM TypeCorrect == Spec => [](TypeOK /\ ThreadInv)
  BY InitTyped, NextTyped, PTL DEF Spec
-----------------------------------------------------------------------------
(* Reliable delivery over a FIFO network.                                  *)

Reliable == DeliveryInv /\ WireInv /\ AckInv

LEMMA InitReliable == Init => Reliable
  BY DEF Init, Reliable, DeliveryInv, WireInv, AckInv

\* Packages already sent stay as they are, so if no two are equal after a step
\* then no two were before it.
LEMMA DistinctBefore ==
  ASSUME TypeOK, [Next]_vars, Distinct'
  PROVE  Distinct
<1>1. sent' = sent \/ \E p \in Package : sent' = Append(sent, p)
  <2>1. CASE SendFirst
    <3>1. \A c \in Content : [rid |-> rolling, content |-> c] \in Package
      BY DEF Package, TypeOK
    <3> QED
      BY <2>1, <3>1 DEF SendFirst
  <2>2. CASE UNCHANGED sender
    BY <2>2 DEF sender
  <2> QED
    BY <2>1, <2>2 DEF Next, SendThread, SendPkg, CheckStop, Idle, SendFirstRaises, ResendRaises, CaughtEnds,
       LoopCancelled, LoopAcked,
       LoopExhausted, LoopContinues, LeaveLoop, Resend, SendOther, Receive, ReceiveAck,
       EndConnection, LoseData, LoseAck, vars, sender
<1>2. sent \in Seq(Package)
  BY DEF TypeOK
<1>3. /\ Len(sent) \in Nat /\ Len(sent') \in Nat /\ Len(sent) <= Len(sent')
      /\ \A i \in 1 .. Len(sent) : sent'[i] = sent[i]
  BY <1>1, <1>2, AppendProperties, LenProperties
<1> QED
  BY <1>3 DEF Distinct

\* SendFirst: every earlier package is confirmed, hence delivered.
LEMMA SendFirstReliable ==
  ASSUME TypeOK, ThreadInv, Reliable, SendFirst
  PROVE  Reliable'
<1>0. /\ sent \in Seq(Package) /\ delivered \in Seq(Package) /\ wire \in Seq(Package)
      /\ confirmed \in Nat
  BY DEF TypeOK
<1>1. PICK c \in Content :
        /\ sent' = Append(sent, [rid |-> rolling, content |-> c])
        /\ wire' = Transmit(wire, [rid |-> rolling, content |-> c])
  BY DEF SendFirst
<1> DEFINE p == [rid |-> rolling, content |-> c]
<1>2. p \in Package
  BY DEF Package, TypeOK
<1>3. /\ sent' \in Seq(Package) /\ Len(sent') = Len(sent) + 1 /\ sent'[Len(sent')] = p
      /\ \A i \in 1 .. Len(sent) : sent'[i] = sent[i]
  BY <1>1, <1>2, AppendProperties DEF TypeOK
<1>4. /\ Len(wire') \in {Len(wire), Len(wire) + 1}
      /\ \A i \in 1 .. Len(wire) : wire'[i] = wire[i]
      /\ Len(wire') = Len(wire) + 1 => wire'[Len(wire) + 1] = p
  BY <1>1, <1>2, TransmitElements DEF TypeOK
<1>5. UNCHANGED <<confirmed, delivered, lastRec, back, acks>>
  BY DEF SendFirst, receiver
<1>6. Len(delivered) = Len(sent) /\ confirmed = Len(sent)
  BY DEF SendFirst, ThreadInv, Reliable, DeliveryInv, TypeOK
<1>7. DeliveryInv'
  BY <1>0, <1>3, <1>5, <1>6 DEF Reliable, DeliveryInv
<1>8. WireInv'
  <2>1. \A j \in 1 .. Len(wire) : Len(sent) > 0 /\ wire[j] = sent[Len(sent)]
    BY <1>6 DEF Reliable, WireInv
  <2>2. \A j \in 1 .. Len(wire') :
          \/ Len(sent) > 0 /\ wire'[j] = sent[Len(sent)]
          \/ j = Len(wire') /\ wire'[j] = p
    <3> HIDE DEF p
    <3>1. Len(wire) \in Nat
      BY <1>0, LenProperties
    <3> TAKE j \in 1 .. Len(wire')
    <3>2. j \in 1 .. Len(wire) \/ (j = Len(wire) + 1 /\ Len(wire') = Len(wire) + 1)
      BY <1>4, <3>1
    <3>3. CASE j \in 1 .. Len(wire)
      BY <1>4, <2>1, <3>3
    <3>4. CASE j = Len(wire) + 1 /\ Len(wire') = Len(wire) + 1
      BY <1>4, <3>4
    <3> QED
      BY <3>2, <3>3, <3>4
  <2>3. Len(sent) \in Nat /\ (Len(sent) > 0 => sent'[Len(sent)] = sent[Len(sent)])
    BY <1>0, <1>3
  <2> HIDE DEF p
  <2>4. \A j \in 1 .. Len(wire') :
          \E k \in {Len(delivered'), Len(sent')} : k > 0 /\ wire'[j] = sent'[k]
    BY <1>3, <1>5, <1>6, <2>2, <2>3
  <2>5. \A j, k \in 1 .. Len(wire') :
          j < k /\ wire'[j] = sent'[Len(sent')] => wire'[k] = sent'[Len(sent')]
    BY <1>3, <1>4, <2>1, <2>2, <2>3
  <2> QED
    BY <2>4, <2>5 DEF WireInv
<1>9. AckInv'
  BY <1>0, <1>3, <1>5, <1>6 DEF Reliable, AckInv
<1> QED
  BY <1>7, <1>8, <1>9 DEF Reliable

\* Resend: one more copy of the package sent last joins the end of the wire.
LEMMA ResendReliable ==
  ASSUME TypeOK, ThreadInv, Reliable, Resend
  PROVE  Reliable'
<1>0. /\ sent \in Seq(Package) /\ delivered \in Seq(Package) /\ wire \in Seq(Package)
      /\ confirmed \in Nat
  BY DEF TypeOK
<1>1. Len(sent) > 0 /\ Last(sent) = sent[Len(sent)] /\ Last(sent) \in Package
  BY LastElement DEF Resend, ThreadInv, TypeOK
<1>2. /\ Len(wire') \in {Len(wire), Len(wire) + 1}
      /\ \A i \in 1 .. Len(wire) : wire'[i] = wire[i]
      /\ Len(wire') = Len(wire) + 1 => wire'[Len(wire) + 1] = sent[Len(sent)]
  BY <1>1, TransmitElements DEF Resend, TypeOK
<1>3. UNCHANGED <<sent, confirmed, delivered, lastRec, back, acks>>
  BY DEF Resend, receiver
<1>4. \A i \in 1 .. Len(wire') :
         \E k \in {Len(delivered), Len(sent)} : k > 0 /\ wire'[i] = sent[k]
  <2> SUFFICES ASSUME NEW i \in 1 .. Len(wire')
               PROVE  \E k \in {Len(delivered), Len(sent)} : k > 0 /\ wire'[i] = sent[k]
    OBVIOUS
  <2>1. CASE i \in 1 .. Len(wire)
    BY <1>2, <2>1 DEF Reliable, WireInv
  <2>2. CASE i = Len(wire) + 1
    BY <1>0, <1>1, <1>2, <2>2
  <2> QED
    BY <1>0, <1>2, <2>1, <2>2
<1>5. \A i, j \in 1 .. Len(wire') :
         i < j /\ wire'[i] = sent[Len(sent)] => wire'[j] = sent[Len(sent)]
  BY <1>0, <1>2 DEF Reliable, WireInv
<1>6. WireInv'
  BY <1>3, <1>4, <1>5 DEF WireInv
<1> QED
  BY <1>3, <1>6 DEF Reliable, DeliveryInv, AckInv

\* LoopAcked: the ack is for the package sent last, which was thus delivered.
LEMMA LoopAckedReliable ==
  ASSUME TypeOK, ThreadInv, Reliable, Distinct, LoopAcked
  PROVE  Reliable'
<1>0. /\ sent \in Seq(Package) /\ delivered \in Seq(Package) /\ wire \in Seq(Package)
      /\ confirmed \in Nat
  BY DEF TypeOK
<1>1. Len(sent) = confirmed + 1 /\ Last(sent) = sent[Len(sent)] /\ Last(sent) \in Package
  BY LastElement DEF LoopAcked, ThreadInv, TypeOK
<1>2. Len(delivered) = Len(sent)
  <2>1. PICK k \in 1 .. Len(delivered) : sent[Len(sent)] = sent[k]
    BY <1>1 DEF LoopAcked, Reliable, AckInv
  <2> QED
    BY <1>0, <1>1, <2>1 DEF Distinct, Reliable, DeliveryInv
<1>3. confirmed' = confirmed + 1 /\ UNCHANGED <<sent, delivered, lastRec, wire, back>>
  BY DEF LoopAcked, LeaveLoop, receiver
<1>4. \A p \in Package : acks'[p] > 0 => acks[p] > 0
  BY <1>1 DEF LoopAcked, TypeOK
<1>5. DeliveryInv'
  BY <1>1, <1>2, <1>3 DEF Reliable, DeliveryInv
<1>6. AckInv'
  BY <1>3, <1>4 DEF Reliable, AckInv
<1> QED
  BY <1>3, <1>5, <1>6 DEF Reliable, WireInv

\* Receive: the first datagram is a repetition of the package delivered last, or
\* the package sent last; after the latter, only copies of it are left.
LEMMA ReceiveReliable ==
  ASSUME Overtake = 0, TypeOK, ThreadInv, Reliable, Distinct, Receive
  PROVE  Reliable'
<1>0. /\ sent \in Seq(Package) /\ delivered \in Seq(Package) /\ wire \in Seq(Package)
      /\ back \in Seq(Package) /\ confirmed \in Nat /\ Len(sent) <= confirmed + 1
  BY DEF TypeOK, ThreadInv
<1>1. PICK i \in Deliverable(wire) :
        /\ wire' \in AfterTaking(wire, i)
        /\ back' = Transmit(back, wire[i])
        /\ IF lastRec = wire[i]
             THEN UNCHANGED receiver
             ELSE lastRec' = wire[i] /\ delivered' = Append(delivered, wire[i])
        /\ UNCHANGED <<sender, acks>>
  BY DEF Receive
<1> DEFINE p == wire[1]
           n == Len(sent)
           d == Len(delivered)
<1>2. /\ i = 1 /\ Len(wire) > 0 /\ p \in Package /\ wire' \in Seq(Package)
      /\ \/ wire' = wire
         \/ /\ Len(wire') = Len(wire) - 1
            /\ \A j \in 1 .. Len(wire') : wire'[j] = wire[j + 1]
  BY <1>0, <1>1, TakeFromFifo
<1>3. UNCHANGED <<sent, confirmed, acks>>
  BY <1>1 DEF sender
<1>4. n \in Nat /\ d \in Nat /\ d <= n /\ n <= d + 1 /\ confirmed <= d
  BY <1>0, LenProperties DEF Reliable, DeliveryInv
<1>5. /\ \A j \in 1 .. Len(wire') : \E k \in {d, n} : k > 0 /\ wire'[j] = sent[k]
      /\ \A j, k \in 1 .. Len(wire') : j < k /\ wire'[j] = sent[n] => wire'[k] = sent[n]
      /\ p = sent[n] => \A j \in 1 .. Len(wire') : wire'[j] = sent[n]
  <2>1. /\ \A j \in 1 .. Len(wire) : \E k \in {d, n} : k > 0 /\ wire[j] = sent[k]
        /\ \A j, k \in 1 .. Len(wire) : j < k /\ wire[j] = sent[n] => wire[k] = sent[n]
    BY DEF Reliable, WireInv
  <2>2. Len(wire) \in Nat
    BY <1>0, LenProperties
  <2>3. CASE wire' = wire
    BY <1>2, <2>1, <2>2, <2>3
  <2>4. CASE /\ Len(wire') = Len(wire) - 1
             /\ \A j \in 1 .. Len(wire') : wire'[j] = wire[j + 1]
    <3>1. \A j \in 1 .. Len(wire') : j \in Nat /\ j + 1 \in 1 .. Len(wire) /\ 1 < j + 1
      BY <2>2, <2>4
    <3> HIDE DEF p, n, d
    <3>2. \A j \in 1 .. Len(wire') : \E k \in {d, n} : k > 0 /\ wire'[j] = sent[k]
      BY <2>1, <2>4, <3>1
    <3>3. \A j, k \in 1 .. Len(wire') : j < k /\ wire'[j] = sent[n] => wire'[k] = sent[n]
      BY <2>1, <2>4, <3>1
    <3>4. p = sent[n] => \A j \in 1 .. Len(wire') : wire'[j] = sent[n]
      BY <1>2, <2>1, <2>2, <2>4, <3>1 DEF p
    <3> QED
      BY <3>2, <3>3, <3>4
  <2> QED
    BY <1>2, <2>3, <2>4
<1>6. /\ Len(back') \in {Len(back), Len(back) + 1}
      /\ \A j \in 1 .. Len(back) : back'[j] = back[j]
      /\ Len(back') = Len(back) + 1 => back'[Len(back) + 1] = p
  BY <1>0, <1>1, <1>2, TransmitElements
<1>7. PICK m \in {d, n} : m > 0 /\ p = sent[m]
  BY <1>0, <1>2 DEF Reliable, WireInv
<1>8. lastRec = IF d = 0 THEN NoPackage ELSE sent[d]
  BY DEF Reliable, DeliveryInv
<1>9. CASE lastRec = p
  <2>1. UNCHANGED <<lastRec, delivered>>
    BY <1>1, <1>2, <1>9 DEF receiver
  <2>2. d > 0 /\ p = sent[d]
    BY <1>2, <1>4, <1>8, <1>9, TransportAssumption DEF TransportAssumption
  <2>3. DeliveryInv' /\ WireInv'
    BY <1>3, <1>5, <2>1 DEF Reliable, DeliveryInv, WireInv
  <2>4. \A j \in 1 .. Len(back') : \E k \in 1 .. Len(delivered') : back'[j] = sent[k]
    <3> SUFFICES ASSUME NEW j \in 1 .. Len(back')
                 PROVE  \E k \in 1 .. d : back'[j] = sent[k]
      BY <2>1
    <3>1. CASE j \in 1 .. Len(back)
      BY <1>6, <3>1 DEF Reliable, AckInv
    <3>2. CASE j = Len(back) + 1 /\ Len(back') = Len(back) + 1
      BY <1>4, <1>6, <2>2, <3>2
    <3> QED
      BY <1>0, <1>6, <3>1, <3>2
  <2>5. AckInv'
    BY <1>3, <2>1, <2>4 DEF Reliable, AckInv
  <2> QED
    BY <2>3, <2>5 DEF Reliable
<1>10. CASE lastRec # p
  <2>1. lastRec' = p /\ delivered' = Append(delivered, p)
    BY <1>1, <1>2, <1>10
  <2>2. n = d + 1 /\ p = sent[n]
    BY <1>4, <1>7, <1>8, <1>10
  <2>3. /\ Len(delivered') = n /\ delivered'[n] = p
        /\ \A j \in 1 .. d : delivered'[j] = delivered[j]
    BY <1>0, <1>2, <2>1, <2>2, AppendProperties
  <2>4. DeliveryInv'
    <3>1. \A j \in 1 .. Len(delivered') : delivered'[j] = sent'[j]
      BY <1>3, <1>4, <2>2, <2>3 DEF Reliable, DeliveryInv
    <3>2. /\ confirmed' <= Len(delivered')
          /\ Len(delivered') <= Len(sent')
          /\ lastRec' = IF Len(delivered') = 0 THEN NoPackage ELSE sent'[Len(delivered')]
      BY <1>0, <1>3, <1>4, <2>1, <2>2, <2>3
    <3> QED
      BY <3>1, <3>2 DEF DeliveryInv
  <2>5. WireInv'
    BY <1>3, <1>4, <1>5, <2>2, <2>3 DEF WireInv
  <2>6. \A j \in 1 .. Len(back') : \E k \in 1 .. n : back'[j] = sent[k]
    <3> SUFFICES ASSUME NEW j \in 1 .. Len(back')
                 PROVE  \E k \in 1 .. n : back'[j] = sent[k]
      OBVIOUS
    <3>1. CASE j \in 1 .. Len(back)
      BY <1>4, <1>6, <2>2, <3>1 DEF Reliable, AckInv
    <3>2. CASE j = Len(back) + 1 /\ Len(back') = Len(back) + 1
      BY <1>4, <1>6, <2>2, <3>2
    <3> QED
      BY <1>0, <1>6, <3>1, <3>2
  <2>7. \A q \in Package : acks[q] > 0 => \E k \in 1 .. n : q = sent[k]
    BY <1>4, <2>2 DEF Reliable, AckInv
  <2>8. AckInv'
    BY <1>3, <2>3, <2>6, <2>7 DEF AckInv
  <2> QED
    BY <2>4, <2>5, <2>8 DEF Reliable
<1> QED
  BY <1>9, <1>10

LEMMA ReceiveAckReliable ==
  ASSUME Overtake = 0, TypeOK, Reliable, ReceiveAck
  PROVE  Reliable'
<1>0. back \in Seq(Package) /\ acks \in [Package -> 0 .. MaxAcks]
  BY DEF TypeOK
<1>1. PICK i \in Deliverable(back) :
        /\ acks' = [acks EXCEPT ![back[i]] = @ + 1]
        /\ back' \in AfterTaking(back, i)
        /\ UNCHANGED <<sender, wire, receiver>>
  BY DEF ReceiveAck
<1>2. /\ i = 1 /\ Len(back) > 0
      /\ \/ back' = back
         \/ /\ Len(back') = Len(back) - 1
            /\ \A j \in 1 .. Len(back') : back'[j] = back[j + 1]
  BY <1>0, <1>1, TakeFromFifo
<1>3. UNCHANGED <<sent, confirmed, wire, lastRec, delivered>>
  BY <1>1 DEF sender, receiver
<1>4. PICK m \in 1 .. Len(delivered) : back[i] = sent[m]
  BY <1>0, <1>2 DEF Reliable, AckInv
<1>5. \A p \in Package : acks'[p] > 0 => acks[p] > 0 \/ p = sent[m]
  BY <1>0, <1>1, <1>4
<1>6. \A j \in 1 .. Len(back') : \E k \in 1 .. Len(delivered) : back'[j] = sent[k]
  <2>1. CASE back' = back
    BY <2>1 DEF Reliable, AckInv
  <2>2. CASE /\ Len(back') = Len(back) - 1
             /\ \A j \in 1 .. Len(back') : back'[j] = back[j + 1]
    <3>1. \A j \in 1 .. Len(back') : j + 1 \in 1 .. Len(back)
      BY <1>0, <2>2, LenProperties
    <3> QED
      BY <2>2, <3>1 DEF Reliable, AckInv
  <2> QED
    BY <1>2, <2>1, <2>2
<1>7. \A p \in Package : acks'[p] > 0 => \E k \in 1 .. Len(delivered) : p = sent[k]
  BY <1>4, <1>5 DEF Reliable, AckInv
<1>8. AckInv'
  BY <1>3, <1>6, <1>7 DEF AckInv
<1> QED
  BY <1>3, <1>8 DEF Reliable, DeliveryInv, WireInv

LEMMA LoseReliable ==
  ASSUME Overtake = 0, TypeOK, Reliable, LoseData \/ LoseAck
  PROVE  Reliable'
<1>0. wire \in Seq(Package) /\ back \in Seq(Package)
  BY DEF TypeOK
<1>1. CASE LoseData
  <2>1. /\ Len(wire') = Len(wire) - 1 /\ Len(wire) > 0
        /\ \A j \in 1 .. Len(wire') : wire'[j] = wire[j + 1]
    <3>1. PICK i \in Deliverable(wire) : wire' = RemoveAt(wire, i)
      BY <1>1 DEF LoseData
    <3>2. i = 1 /\ Len(wire) > 0
      BY <1>0, <3>1, LenProperties DEF Deliverable
    <3> QED
      BY <1>0, <3>1, <3>2, RemoveFirstElement
  <2>2. UNCHANGED <<sent, confirmed, back, acks, lastRec, delivered>>
    BY <1>1 DEF LoseData, sender, receiver
  <2>3. \A j \in 1 .. Len(wire') : j + 1 \in 1 .. Len(wire)
    BY <1>0, <2>1, LenProperties
  <2>4. \A j \in 1 .. Len(wire') :
          \E k \in {Len(delivered), Len(sent)} : k > 0 /\ wire'[j] = sent[k]
    BY <2>1, <2>3 DEF Reliable, WireInv
  <2>5. \A j, k \in 1 .. Len(wire') :
          j < k /\ wire'[j] = sent[Len(sent)] => wire'[k] = sent[Len(sent)]
    <3> TAKE j, k \in 1 .. Len(wire')
    <3> HAVE j < k /\ wire'[j] = sent[Len(sent)]
    <3>1. /\ j + 1 \in 1 .. Len(wire) /\ k + 1 \in 1 .. Len(wire) /\ j + 1 < k + 1
          /\ wire[j + 1] = sent[Len(sent)] /\ wire'[k] = wire[k + 1]
      BY <2>1, <2>3
    <3> QED
      BY <3>1 DEF Reliable, WireInv
  <2>6. WireInv'
    BY <2>2, <2>4, <2>5 DEF WireInv
  <2> QED
    BY <2>2, <2>6 DEF Reliable, DeliveryInv, AckInv
<1>2. CASE LoseAck
  <2>1. /\ Len(back') = Len(back) - 1 /\ Len(back) > 0
        /\ \A j \in 1 .. Len(back') : back'[j] = back[j + 1]
    <3>1. PICK i \in Deliverable(back) : back' = RemoveAt(back, i)
      BY <1>2 DEF LoseAck
    <3>2. i = 1 /\ Len(back) > 0
      BY <1>0, <3>1, LenProperties DEF Deliverable
    <3> QED
      BY <1>0, <3>1, <3>2, RemoveFirstElement
  <2>2. UNCHANGED <<sent, confirmed, wire, acks, lastRec, delivered>>
    BY <1>2 DEF LoseAck, sender, receiver
  <2>3. \A j \in 1 .. Len(back') : j + 1 \in 1 .. Len(back)
    BY <1>0, <2>1, LenProperties
  <2>4. \A j \in 1 .. Len(back') : \E k \in 1 .. Len(delivered) : back'[j] = sent[k]
    BY <2>1, <2>3 DEF Reliable, AckInv
  <2>5. AckInv'
    BY <2>2, <2>4 DEF Reliable, AckInv
  <2> QED
    BY <2>2, <2>5 DEF Reliable, DeliveryInv, WireInv
<1> QED
  BY <1>1, <1>2

LEMMA NextReliable ==
  ASSUME Overtake = 0, TypeOK, ThreadInv, Distinct => Reliable, [Next]_vars, Distinct'
  PROVE  Reliable'
<1>1. Distinct /\ Reliable
  BY DistinctBefore
<1>2. CASE SendFirst
  BY <1>1, <1>2, SendFirstReliable
<1>3. CASE Resend
  BY <1>1, <1>3, ResendReliable
<1>4. CASE LoopAcked
  BY <1>1, <1>4, LoopAckedReliable
<1>5. CASE Receive
  BY <1>1, <1>5, ReceiveReliable
<1>6. CASE ReceiveAck
  BY <1>1, <1>6, ReceiveAckReliable
<1>7. CASE LoseData \/ LoseAck
  BY <1>1, <1>7, LoseReliable
<1>8. CASE CheckStop \/ Idle \/ SendFirstRaises \/ ResendRaises \/ CaughtEnds
           \/ LoopCancelled \/ LoopExhausted \/ LoopContinues
           \/ SendOther \/ EndConnection \/ UNCHANGED vars
  <2>1. UNCHANGED <<sent, confirmed, delivered, lastRec, wire, back, acks>>
    BY <1>8 DEF CheckStop, Idle, SendFirstRaises, ResendRaises, CaughtEnds,
     LoopCancelled, LoopExhausted, LoopContinues, LeaveLoop,
       SendOther, EndConnection, vars, sender, receiver
  <2> QED
    BY <1>1, <2>1 DEF Reliable, DeliveryInv, WireInv, AckInv
<1> QED
  BY <1>2, <1>3, <1>4, <1>5, <1>6, <1>7, <1>8 DEF Next, SendThread, SendPkg

\* The stop-and-wait transport is reliable over a FIFO network that loses and
\* duplicates: the run's LinkInv, for every rolling id size, resend limit and
\* buffer size (_send_pkg against _handle_received_pkg).
THEOREM FifoLinkInv ==
  ASSUME Overtake = 0
  PROVE  Spec => []LinkInv
<1>1. Init => LinkInv
  BY InitTyped, InitReliable DEF LinkInv, Reliable
<1>2. TypeOK /\ ThreadInv /\ LinkInv /\ [Next]_vars => LinkInv'
  BY NextTyped, NextReliable DEF LinkInv, Reliable
<1> QED
  BY <1>1, <1>2, TypeCorrect, PTL DEF Spec

\* In the terms of the callers: packages are passed on once and in order, and an
\* ack taken by _send_pkg is for a package _handle_received_pkg passed on.
THEOREM FifoDelivery ==
  ASSUME Overtake = 0
  PROVE  Spec => [](Distinct => DeliveredOnceInOrder /\ AckedWasDelivered)
<1>1. TypeOK /\ LinkInv => (Distinct => DeliveredOnceInOrder /\ AckedWasDelivered)
  <2> SUFFICES ASSUME TypeOK, DeliveryInv
               PROVE  DeliveredOnceInOrder /\ AckedWasDelivered
    BY DEF LinkInv
  <2>1. AckedWasDelivered
    BY DEF DeliveryInv, AckedWasDelivered
  <2>2. DeliveredOnceInOrder
    BY DEF TypeOK, DeliveryInv, DeliveredOnceInOrder, IsPrefix
  <2> QED
    BY <2>1, <2>2
<1> QED
  BY <1>1, TypeCorrect, FifoLinkInv, PTL
-----------------------------------------------------------------------------
(* The rolling id.  Counted from the id f the end started with, the ids in *)
(* use are f up to rolling - 1, passing RollingModulus - 1 at most once.   *)

RollInv ==
  \E f \in RollingId :
    \/ /\ rolling = f + created
       /\ \A i \in 1 .. Len(sent) : f <= sent[i].rid /\ sent[i].rid < rolling
    \/ /\ rolling + RollingModulus = f + created
       /\ \A i \in 1 .. Len(sent) : f <= sent[i].rid \/ sent[i].rid < rolling

\* Neither form of RollInv loses an id while there are ids left to use.
LEMMA CreatePkgRolls ==
  ASSUME MaxCreated <= RollingModulus, TypeOK, RollInv, CreatePkg
  PROVE  /\ \A i \in 1 .. Len(sent) : sent[i].rid # rolling
         /\ \E f \in RollingId :
              \/ /\ rolling' = f + created'
                 /\ f <= rolling /\ rolling < rolling'
                 /\ \A i \in 1 .. Len(sent) : f <= sent[i].rid /\ sent[i].rid < rolling'
              \/ /\ rolling' + RollingModulus = f + created'
                 /\ f <= rolling \/ rolling < rolling'
                 /\ \A i \in 1 .. Len(sent) : f <= sent[i].rid \/ sent[i].rid < rolling'
<1>a. rolling \in 0 .. RollingModulus - 1 /\ created \in 0 .. MaxCreated
  BY DEF TypeOK, RollingId
<1>b. /\ created < MaxCreated /\ created' = created + 1
      /\ rolling' = (rolling + 1) % RollingModulus
  BY DEF CreatePkg
<1>0. /\ created \in Nat /\ RollingModulus \in Nat \ {0}
      /\ created < RollingModulus /\ created' = created + 1
  BY <1>a, <1>b, TransportAssumption DEF TransportAssumption
<1>1. rolling' = IF rolling + 1 = RollingModulus THEN 0 ELSE rolling + 1
  BY <1>0, <1>a, <1>b
<1>2. \A i \in 1 .. Len(sent) : sent[i].rid \in 0 .. RollingModulus - 1
  <2> SUFFICES ASSUME NEW i \in 1 .. Len(sent) PROVE sent[i].rid \in 0 .. RollingModulus - 1
    OBVIOUS
  <2>1. sent[i] \in Package
    BY DEF TypeOK
  <2> QED
    BY <2>1 DEF Package, RollingId
<1> DEFINE rid(i) == sent[i].rid
<1> HIDE DEF rid
<1>3. \A i \in 1 .. Len(sent) : rid(i) \in 0 .. RollingModulus - 1
  BY <1>2 DEF rid
<1>4. PICK f \in 0 .. RollingModulus - 1 :
        \/ /\ rolling = f + created
           /\ \A i \in 1 .. Len(sent) : f <= rid(i) /\ rid(i) < rolling
        \/ /\ rolling + RollingModulus = f + created
           /\ \A i \in 1 .. Len(sent) : f <= rid(i) \/ rid(i) < rolling
  BY DEF RollInv, RollingId, rid
<1>5. \A i \in 1 .. Len(sent) : rid(i) # rolling
  BY <1>0, <1>3, <1>4, <1>a
<1>6. \/ /\ rolling' = f + created'
         /\ f <= rolling /\ rolling < rolling'
         /\ \A i \in 1 .. Len(sent) : f <= rid(i) /\ rid(i) < rolling'
      \/ /\ rolling' + RollingModulus = f + created'
         /\ f <= rolling \/ rolling < rolling'
         /\ \A i \in 1 .. Len(sent) : f <= rid(i) \/ rid(i) < rolling'
  BY <1>0, <1>1, <1>3, <1>4, <1>a
<1> QED
  BY <1>5, <1>6 DEF rid, RollingId

LEMMA SendFirstRolls ==
  ASSUME MaxCreated <= RollingModulus, TypeOK, RollInv, Distinct, SendFirst
  PROVE  RollInv' /\ Distinct'
<1>1. CreatePkg
  BY DEF SendFirst
<1>2. PICK c \in Content : sent' = Append(sent, [rid |-> rolling, content |-> c])
  BY DEF SendFirst
<1> DEFINE p == [rid |-> rolling, content |-> c]
           n == Len(sent) + 1
<1>3. /\ sent \in Seq(Package) /\ p \in Package
  BY DEF TypeOK, Package
<1>4. /\ Len(sent') = n /\ sent'[n] = p /\ p.rid = rolling
      /\ \A i \in 1 .. Len(sent) : sent'[i] = sent[i]
  BY <1>2, <1>3, AppendProperties
<1>5. \A i \in 1 .. n : i = n \/ i \in 1 .. Len(sent)
  BY <1>3, LenProperties
<1>6. Distinct'
  <2> SUFFICES ASSUME NEW i \in 1 .. n, NEW j \in 1 .. n, sent'[i] = sent'[j]
               PROVE  i = j
    BY <1>4 DEF Distinct
  <2> QED
    BY <1>1, <1>4, <1>5, CreatePkgRolls DEF Distinct
<1>7. \A i \in 1 .. n : sent'[i].rid = IF i = n THEN rolling ELSE sent[i].rid
  BY <1>4, <1>5
<1> HIDE DEF n
<1>8. RollInv'
  BY <1>1, <1>4, <1>5, <1>7, CreatePkgRolls DEF RollInv
<1> QED
  BY <1>6, <1>8

\* _rolling_id keeps any two packages apart while an end has created no more
\* packages than it has values, whichever value it starts from (_create_pkg).
THEOREM RollingIdsDistinct ==
  ASSUME MaxCreated <= RollingModulus
  PROVE  Spec => []Distinct
<1>1. Init => RollInv /\ Distinct
  <2> SUFFICES ASSUME Init PROVE RollInv /\ Distinct
    OBVIOUS
  <2>1. /\ rolling \in RollingId /\ created = 0 /\ sent = <<>>
        /\ rolling = rolling + 0
    BY TransportAssumption DEF Init, RollingId, TransportAssumption
  <2>2. \A i \in 1 .. Len(sent) : FALSE
    BY <2>1
  <2> QED
    BY <2>1, <2>2 DEF RollInv, Distinct
<1>2. TypeOK /\ RollInv /\ Distinct /\ [Next]_vars => RollInv' /\ Distinct'
  <2> SUFFICES ASSUME TypeOK, RollInv, Distinct, [Next]_vars
               PROVE  RollInv' /\ Distinct'
    OBVIOUS
  <2>1. CASE SendFirst
    BY <2>1, SendFirstRolls
  <2>2. CASE SendOther
    <3>1. CreatePkg /\ UNCHANGED sent
      BY <2>2 DEF SendOther
    <3> QED
      BY <3>1, CreatePkgRolls DEF RollInv, Distinct
  <2>5. CASE SendFirstRaises
    <3>1. CreatePkg /\ UNCHANGED sent
      BY <2>5 DEF SendFirstRaises
    <3> QED
      BY <3>1, CreatePkgRolls DEF RollInv, Distinct
  <2>3. CASE UNCHANGED <<rolling, created, sent>>
    BY <2>3 DEF RollInv, Distinct
  <2>4. \/ SendFirst \/ SendOther \/ SendFirstRaises \/ UNCHANGED <<rolling, created, sent>>
    BY DEF Next, SendThread, SendPkg, CheckStop, Idle, SendFirstRaises, ResendRaises, CaughtEnds,
       LoopCancelled, LoopAcked, LoopExhausted,
       LoopContinues, Resend, LeaveLoop, Receive, ReceiveAck, EndConnection, LoseData,
       LoseAck, vars, sender
  <2> QED
    BY <2>1, <2>2, <2>3, <2>4, <2>5
<1> QED
  BY <1>1, <1>2, TypeCorrect, PTL DEF Spec
-----------------------------------------------------------------------------
(* Any network: packages may be passed on again, but none is skipped, and  *)
(* no ack is for bytes that were not passed on.                            *)

TracesInv ==
  /\ \A i \in 1 .. Len(wire) : Contains(sent, wire[i])
  /\ \A i \in 1 .. Len(back) : Contains(delivered, back[i])
  /\ \A p \in Package : acks[p] > 0 => Contains(delivered, p)

AnyNetworkInv == TracesInv /\ NoneSkipped /\ AckedWasPassedOn

LEMMA ContainsAppended ==
  ASSUME NEW s \in Seq(Package), NEW p \in Package
  PROVE  /\ Contains(Append(s, p), p)
         /\ \A q : Contains(s, q) => Contains(Append(s, p), q)
<1>1. /\ Len(Append(s, p)) = Len(s) + 1 /\ Append(s, p)[Len(s) + 1] = p /\ Len(s) \in Nat
      /\ \A n \in 1 .. Len(s) : Append(s, p)[n] = s[n]
  BY AppendProperties, LenProperties
<1>2. Len(s) + 1 \in 1 .. Len(Append(s, p)) /\ 1 .. Len(s) \subseteq 1 .. Len(Append(s, p))
  BY <1>1
<1>3. Contains(Append(s, p), p)
  BY <1>1, <1>2 DEF Contains
<1>4. ASSUME NEW q, Contains(s, q) PROVE Contains(Append(s, p), q)
  BY <1>1, <1>2, <1>4 DEF Contains
<1> QED
  BY <1>3, <1>4

\* What remains of a network was there before.
LEMMA RestElements ==
  ASSUME NEW net \in Seq(Package), NEW i \in Deliverable(net), NEW rest \in AfterTaking(net, i)
  PROVE  \A j \in 1 .. Len(rest) : \E k \in 1 .. Len(net) : rest[j] = net[k]
<1> DEFINE R == {net[k] : k \in 1 .. Len(net)}
<1>1. net \in Seq(R) /\ i \in 1 .. Len(net)
  BY LenProperties DEF Deliverable
<1> HIDE DEF R
<1>2. rest \in Seq(R)
  BY <1>1, RemoveAtType DEF AfterTaking
<1>3. \A j \in 1 .. Len(rest) : rest[j] \in R
  BY <1>2
<1> QED
  BY <1>3 DEF R

\* Of a network whose datagrams all occur in s, what remains occurs in s.
LEMMA RestContained ==
  ASSUME NEW net \in Seq(Package), NEW i \in Deliverable(net), NEW rest \in AfterTaking(net, i),
         NEW s, \A k \in 1 .. Len(net) : Contains(s, net[k])
  PROVE  \A j \in 1 .. Len(rest) : Contains(s, rest[j])
<1> SUFFICES ASSUME NEW j \in 1 .. Len(rest) PROVE Contains(s, rest[j])
  OBVIOUS
<1>1. PICK k \in 1 .. Len(net) : rest[j] = net[k]
  BY RestElements
<1> QED
  BY <1>1

\* A transmission adds the package transmitted and nothing else.
LEMMA TransmittedContained ==
  ASSUME NEW net \in Seq(Package), NEW p \in Package,
         NEW s, \A k \in 1 .. Len(net) : Contains(s, net[k]), Contains(s, p)
  PROVE  \A j \in 1 .. Len(Transmit(net, p)) : Contains(s, Transmit(net, p)[j])
<1>1. Len(net) \in Nat
  BY LenProperties
<1> SUFFICES ASSUME NEW j \in 1 .. Len(Transmit(net, p)) PROVE Contains(s, Transmit(net, p)[j])
  OBVIOUS
<1>2. j \in 1 .. Len(net) \/ (j = Len(net) + 1 /\ Len(Transmit(net, p)) = Len(net) + 1)
  <2>1. Len(Transmit(net, p)) = Len(net) \/ Len(Transmit(net, p)) = Len(net) + 1
    BY TransmitElements
  <2> QED
    BY <1>1, <2>1
<1>3. CASE j \in 1 .. Len(net)
  BY <1>3, TransmitElements
<1>4. CASE j = Len(net) + 1 /\ Len(Transmit(net, p)) = Len(net) + 1
  BY <1>4, TransmitElements
<1> QED
  BY <1>2, <1>3, <1>4

LEMMA SendFirstAny ==
  ASSUME TypeOK, ThreadInv, AnyNetworkInv, SendFirst
  PROVE  AnyNetworkInv'
<1>0. /\ sent \in Seq(Package) /\ wire \in Seq(Package) /\ confirmed \in Nat /\ Len(sent) \in Nat
      /\ confirmed = Len(sent) /\ UNCHANGED <<confirmed, delivered, back, acks>>
  BY DEF SendFirst, receiver, TypeOK, ThreadInv
<1>1. PICK p \in Package : sent' = Append(sent, p) /\ wire' = Transmit(wire, p)
  <2>1. \A c \in Content : [rid |-> rolling, content |-> c] \in Package
    BY DEF Package, TypeOK
  <2> QED
    BY <2>1 DEF SendFirst
<1>2. /\ Len(sent') = Len(sent) + 1
      /\ \A k \in 1 .. Len(sent) : sent'[k] = sent[k] /\ k \in 1 .. Len(sent')
  BY <1>0, <1>1, AppendProperties
<1>3. Contains(sent', p) /\ \A q : Contains(sent, q) => Contains(sent', q)
  BY <1>0, <1>1, ContainsAppended
<1>4. \A j \in 1 .. Len(wire') : Contains(sent', wire'[j])
  <2>1. \A k \in 1 .. Len(wire) : Contains(sent', wire[k])
    BY <1>3 DEF AnyNetworkInv, TracesInv
  <2> QED
    BY <1>0, <1>1, <1>3, <2>1, TransmittedContained
<1>5. TracesInv'
  BY <1>0, <1>4 DEF AnyNetworkInv, TracesInv
<1>6. NoneSkipped'
  <2> SUFFICES ASSUME NEW i \in 1 .. Len(delivered)
               PROVE  \E k \in 1 .. Len(sent') :
                        /\ delivered[i] = sent'[k]
                        /\ \A m \in 1 .. k - 1 : \E j \in 1 .. i - 1 : delivered[j] = sent'[m]
    BY <1>0 DEF NoneSkipped
  <2>1. PICK k \in 1 .. Len(sent) :
          /\ delivered[i] = sent[k]
          /\ \A m \in 1 .. k - 1 : \E j \in 1 .. i - 1 : delivered[j] = sent[m]
    BY DEF AnyNetworkInv, NoneSkipped
  <2>2. \A m \in 1 .. k - 1 : m \in 1 .. Len(sent)
    BY <1>0
  <2> QED
    BY <1>2, <2>1, <2>2
<1>7. AckedWasPassedOn'
  BY <1>0, <1>2 DEF AnyNetworkInv, AckedWasPassedOn
<1> QED
  BY <1>5, <1>6, <1>7 DEF AnyNetworkInv

LEMMA ReceiveAny ==
  ASSUME TypeOK, ThreadInv, AnyNetworkInv, Receive,
         lastRec = NoPackage \/ Contains(delivered, lastRec)
  PROVE  AnyNetworkInv' /\ Contains(delivered', lastRec')
<1>0. /\ sent \in Seq(Package) /\ wire \in Seq(Package) /\ back \in Seq(Package)
      /\ delivered \in Seq(Package) /\ confirmed \in Nat /\ Len(sent) \in Nat /\ Len(delivered) \in Nat
  BY DEF TypeOK
<1>1. PICK i \in Deliverable(wire) :
        /\ wire' \in AfterTaking(wire, i)
        /\ back' = Transmit(back, wire[i])
        /\ IF lastRec = wire[i]
             THEN UNCHANGED receiver
             ELSE lastRec' = wire[i] /\ delivered' = Append(delivered, wire[i])
        /\ UNCHANGED <<sender, acks>>
  BY DEF Receive
<1>2. wire[i] \in Package /\ i \in 1 .. Len(wire)
  BY <1>0, DatagramType
<1>3. PICK p \in Package : p = wire[i]
  BY <1>2
<1>4. p # NoPackage /\ Contains(sent, p)
  BY <1>2, <1>3, TransportAssumption DEF AnyNetworkInv, TracesInv
<1>5. UNCHANGED <<sent, confirmed, acks>>
  BY <1>1 DEF sender
<1>6. /\ lastRec' = p
      /\ (delivered' = delivered /\ lastRec = p) \/ delivered' = Append(delivered, p)
  BY <1>1, <1>3 DEF receiver
<1>7. Contains(delivered', p) /\ \A q : Contains(delivered, q) => Contains(delivered', q)
  BY <1>0, <1>4, <1>6, ContainsAppended
<1>8. TracesInv'
  <2>1. \A j \in 1 .. Len(wire') : Contains(sent, wire'[j])
    BY <1>0, <1>1, RestContained DEF AnyNetworkInv, TracesInv
  <2>2. \A j \in 1 .. Len(back') : Contains(delivered', back'[j])
    <3>1. \A k \in 1 .. Len(back) : Contains(delivered', back[k])
      BY <1>7 DEF AnyNetworkInv, TracesInv
    <3>2. back' = Transmit(back, p)
      BY <1>1, <1>3
    <3> QED
      BY <1>0, <1>7, <3>1, <3>2, TransmittedContained
  <2>3. \A q \in Package : acks[q] > 0 => Contains(delivered', q)
    BY <1>7 DEF AnyNetworkInv, TracesInv
  <2> QED
    BY <1>5, <2>1, <2>2, <2>3 DEF TracesInv
<1>9. NoneSkipped' /\ AckedWasPassedOn'
  <2>1. CASE delivered' = delivered
    BY <1>5, <2>1 DEF AnyNetworkInv, NoneSkipped, AckedWasPassedOn
  <2>2. CASE delivered' = Append(delivered, p)
    <3>1. /\ Len(delivered') = Len(delivered) + 1 /\ delivered'[Len(delivered) + 1] = p
          /\ \A j \in 1 .. Len(delivered) : delivered'[j] = delivered[j] /\ j \in 1 .. Len(delivered')
      BY <1>0, <2>2, AppendProperties
    <3>2. AckedWasPassedOn'
      BY <1>5, <3>1 DEF AnyNetworkInv, AckedWasPassedOn
    <3>3. ASSUME NEW n \in 1 .. Len(delivered) + 1
          PROVE  \E k \in 1 .. Len(sent) :
                   /\ delivered'[n] = sent[k]
                   /\ \A m \in 1 .. k - 1 : \E j \in 1 .. n - 1 : delivered'[j] = sent[m]
      <4>1. CASE n \in 1 .. Len(delivered)
        <5>1. PICK k \in 1 .. Len(sent) :
                /\ delivered[n] = sent[k]
                /\ \A m \in 1 .. k - 1 : \E j \in 1 .. n - 1 : delivered[j] = sent[m]
          BY <4>1 DEF AnyNetworkInv, NoneSkipped
        <5>2. \A j \in 1 .. n - 1 : j \in 1 .. Len(delivered)
          BY <1>0, <4>1
        <5> QED
          BY <3>1, <4>1, <5>1, <5>2
      <4>2. CASE n = Len(delivered) + 1
        <5>1. PICK k \in 1 .. Len(sent) : sent[k] = p
          BY <1>4 DEF Contains
        <5>2. ASSUME NEW m \in 1 .. k - 1 PROVE \E j \in 1 .. n - 1 : delivered'[j] = sent[m]
          <6>1. Len(sent) <= confirmed + 1
            BY <1>0 DEF ThreadInv, TypeOK
          <6>2. m \in 1 .. confirmed
            BY <1>0, <6>1
          <6>3. PICK j \in 1 .. Len(delivered) : delivered[j] = sent[m]
            BY <6>2 DEF AnyNetworkInv, AckedWasPassedOn
          <6>4. j \in 1 .. n - 1
            BY <1>0, <4>2
          <6> QED
            BY <3>1, <6>3, <6>4
        <5> QED
          BY <3>1, <4>2, <5>1, <5>2
      <4> QED
        BY <1>0, <4>1, <4>2
    <3>4. NoneSkipped'
      BY <1>5, <3>1, <3>3 DEF NoneSkipped
    <3> QED
      BY <3>2, <3>4
  <2> QED
    BY <1>6, <2>1, <2>2
<1> QED
  BY <1>6, <1>7, <1>8, <1>9 DEF AnyNetworkInv

LEMMA LoopAckedAny ==
  ASSUME TypeOK, ThreadInv, AnyNetworkInv, LoopAcked
  PROVE  AnyNetworkInv'
<1>0. sent \in Seq(Package) /\ confirmed \in Nat /\ acks \in [Package -> 0 .. MaxAcks]
  BY DEF TypeOK
<1>1. Len(sent) = confirmed + 1 /\ Last(sent) = sent[Len(sent)] /\ Last(sent) \in Package
  BY LastElement DEF LoopAcked, ThreadInv, TypeOK
<1>2. confirmed' = confirmed + 1 /\ UNCHANGED <<sent, delivered, wire, back>>
  BY DEF LoopAcked, LeaveLoop, receiver
<1>3. acks[Last(sent)] > 0 /\ acks' = [acks EXCEPT ![Last(sent)] = @ - 1]
  BY DEF LoopAcked
<1>4. \E i \in 1 .. Len(delivered) : delivered[i] = sent[confirmed + 1]
  BY <1>1, <1>3 DEF AnyNetworkInv, TracesInv, Contains
<1>5. \A k \in 1 .. confirmed + 1 : k \in 1 .. confirmed \/ k = confirmed + 1
  BY <1>0
<1>6. AckedWasPassedOn'
  BY <1>2, <1>4, <1>5 DEF AnyNetworkInv, AckedWasPassedOn
<1>7. \A q \in Package : acks'[q] > 0 => acks[q] > 0
  BY <1>0, <1>1, <1>3
<1>8. TracesInv'
  BY <1>2, <1>7 DEF AnyNetworkInv, TracesInv
<1> QED
  BY <1>2, <1>6, <1>8 DEF AnyNetworkInv, NoneSkipped

LEMMA ReceiveAckAny ==
  ASSUME TypeOK, AnyNetworkInv, ReceiveAck
  PROVE  AnyNetworkInv'
<1>0. back \in Seq(Package) /\ acks \in [Package -> 0 .. MaxAcks]
  BY DEF TypeOK
<1>1. PICK i \in Deliverable(back) :
        /\ acks' = [acks EXCEPT ![back[i]] = @ + 1]
        /\ back' \in AfterTaking(back, i)
  BY DEF ReceiveAck
<1>2. UNCHANGED <<sent, confirmed, delivered, wire>>
  BY DEF ReceiveAck, sender, receiver
<1>3. i \in 1 .. Len(back) /\ back[i] \in Package
  BY <1>0, DatagramType
<1>4. \A j \in 1 .. Len(back') : Contains(delivered, back'[j])
  BY <1>0, <1>1, RestContained DEF AnyNetworkInv, TracesInv
<1>5. \A q \in Package : acks'[q] > 0 => acks[q] > 0 \/ q = back[i]
  BY <1>0, <1>1, <1>3
<1>6. \A q \in Package : acks'[q] > 0 => Contains(delivered, q)
  BY <1>3, <1>5 DEF AnyNetworkInv, TracesInv
<1> QED
  BY <1>2, <1>4, <1>6 DEF AnyNetworkInv, TracesInv, NoneSkipped, AckedWasPassedOn

LEMMA LoseAny ==
  ASSUME TypeOK, AnyNetworkInv, LoseData \/ LoseAck
  PROVE  AnyNetworkInv'
<1>0. wire \in Seq(Package) /\ back \in Seq(Package)
  BY DEF TypeOK
<1>1. UNCHANGED <<sent, confirmed, delivered, acks>>
  BY DEF LoseData, LoseAck, sender, receiver
<1>2. \A j \in 1 .. Len(wire') : Contains(sent, wire'[j])
  <2>1. CASE wire' = wire
    BY <2>1 DEF AnyNetworkInv, TracesInv
  <2>2. CASE LoseData
    <3>1. PICK i \in Deliverable(wire) : wire' \in AfterTaking(wire, i)
      BY <2>2 DEF LoseData, AfterTaking
    <3> QED
      BY <1>0, <3>1, RestContained DEF AnyNetworkInv, TracesInv
  <2> QED
    BY <2>1, <2>2 DEF LoseAck
<1>3. \A j \in 1 .. Len(back') : Contains(delivered, back'[j])
  <2>1. CASE back' = back
    BY <2>1 DEF AnyNetworkInv, TracesInv
  <2>2. CASE LoseAck
    <3>1. PICK i \in Deliverable(back) : back' \in AfterTaking(back, i)
      BY <2>2 DEF LoseAck, AfterTaking
    <3> QED
      BY <1>0, <3>1, RestContained DEF AnyNetworkInv, TracesInv
  <2> QED
    BY <2>1, <2>2 DEF LoseData
<1> QED
  BY <1>1, <1>2, <1>3 DEF AnyNetworkInv, TracesInv, NoneSkipped, AckedWasPassedOn

LEMMA ResendAny ==
  ASSUME TypeOK, ThreadInv, AnyNetworkInv, Resend
  PROVE  AnyNetworkInv'
<1>0. sent \in Seq(Package) /\ wire \in Seq(Package) /\ Len(sent) \in Nat /\ confirmed \in Nat
  BY DEF TypeOK
<1>1. UNCHANGED <<sent, confirmed, delivered, back, acks>>
  BY DEF Resend, receiver
<1>2. Len(sent) \in 1 .. Len(sent)
  BY <1>0 DEF Resend, ThreadInv
<1>3. wire' = Transmit(wire, Last(sent)) /\ Last(sent) = sent[Len(sent)] /\ Last(sent) \in Package
  BY <1>0, <1>2, LastElement DEF Resend
<1>4. Contains(sent, Last(sent))
  BY <1>2, <1>3 DEF Contains
<1>5. \A j \in 1 .. Len(wire') : Contains(sent, wire'[j])
  BY <1>0, <1>3, <1>4, TransmittedContained DEF AnyNetworkInv, TracesInv
<1> QED
  BY <1>1, <1>5 DEF AnyNetworkInv, TracesInv, NoneSkipped, AckedWasPassedOn

\* The package remembered has been passed on, so dropping its repetition loses nothing.
RememberedInv == lastRec = NoPackage \/ Contains(delivered, lastRec)

LEMMA StepAny ==
  ASSUME TypeOK, ThreadInv, AnyNetworkInv, RememberedInv, [Next]_vars
  PROVE  AnyNetworkInv' /\ RememberedInv'
<1>1. CASE UNCHANGED <<sent, confirmed, delivered, lastRec, wire, back, acks>>
  BY <1>1 DEF AnyNetworkInv, TracesInv, NoneSkipped, AckedWasPassedOn, RememberedInv
<1>2. ASSUME UNCHANGED receiver PROVE RememberedInv'
  BY <1>2 DEF RememberedInv, receiver
<1>3. CASE SendFirst
  BY <1>2, <1>3, SendFirstAny DEF SendFirst
<1>4. CASE Resend
  BY <1>2, <1>4, ResendAny DEF Resend
<1>5. CASE LoopAcked
  BY <1>2, <1>5, LoopAckedAny DEF LoopAcked, LeaveLoop
<1>6. CASE Receive
  BY <1>6, ReceiveAny DEF RememberedInv
<1>7. CASE ReceiveAck
  BY <1>2, <1>7, ReceiveAckAny DEF ReceiveAck
<1>8. CASE LoseData \/ LoseAck
  BY <1>2, <1>8, LoseAny DEF LoseData, LoseAck
<1>9. CASE CheckStop \/ Idle \/ SendFirstRaises \/ ResendRaises \/ CaughtEnds
           \/ LoopCancelled \/ LoopExhausted \/ LoopContinues \/ SendOther
           \/ EndConnection \/ UNCHANGED vars
  BY <1>1, <1>9 DEF CheckStop, Idle, SendFirstRaises, ResendRaises, CaughtEnds,
     LoopCancelled, LoopExhausted, LoopContinues, LeaveLoop, SendOther,
     EndConnection, vars, sender, receiver
<1> QED
  BY <1>3, <1>4, <1>5, <1>6, <1>7, <1>8, <1>9 DEF Next, SendThread, SendPkg

\* Speaking of bytes, this needs no assumption at all.
LEMMA AnyNetworkBytes == Spec => []AnyNetworkInv
<1>1. Init => AnyNetworkInv /\ RememberedInv
  <2> SUFFICES ASSUME Init PROVE AnyNetworkInv /\ RememberedInv
    OBVIOUS
  <2>1. wire = <<>> /\ back = <<>> /\ delivered = <<>> /\ lastRec = NoPackage /\ confirmed = 0
        /\ \A p \in Package : acks[p] = 0
    BY DEF Init
  <2> QED
    BY <2>1 DEF AnyNetworkInv, TracesInv, NoneSkipped, AckedWasPassedOn, RememberedInv
<1>2. TypeOK /\ ThreadInv /\ AnyNetworkInv /\ RememberedInv /\ [Next]_vars
        => AnyNetworkInv' /\ RememberedInv'
  BY StepAny
<1> QED
  BY <1>1, <1>2, TypeCorrect, PTL DEF Spec

\* Over every network that loses, repeats and reorders: a package is passed on only after
\* all that were sent before it, and an ack that _send_pkg takes is for a package that was
\* passed on.  Distinct makes "a package" of what is compared by bytes: a package that
\* repeats the bytes of the one before it is dropped unseen (transport_wrap).
THEOREM AnyNetworkDelivers == Spec /\ []Distinct => [](NoneSkipped /\ AckedWasPassedOn)
<1>1. AnyNetworkInv => NoneSkipped /\ AckedWasPassedOn
  BY DEF AnyNetworkInv
<1> QED
  BY <1>1, AnyNetworkBytes, PTL
-----------------------------------------------------------------------------
(* Refinement.                                                             *)

LEMMA StepRefines ==
  ASSUME TypeOK, ThreadInv, DeliveryInv, DeliveryInv', [Next]_vars
  PROVE  [Link!Next]_(Link!vars)
<1>0. sent \in Seq(Package) /\ delivered \in Seq(Package) /\ confirmed \in Nat
  BY DEF TypeOK
<1>1. CASE SendFirst
  <2>1. PICK c \in Content : sent' = Append(sent, [rid |-> rolling, content |-> c])
    BY <1>1 DEF SendFirst
  <2>2. [rid |-> rolling, content |-> c] \in Package
    BY DEF TypeOK, Package
  <2>3. confirmed = Len(sent) /\ UNCHANGED <<delivered, confirmed>>
    BY <1>1 DEF SendFirst, ThreadInv, receiver
  <2> QED
    BY <2>1, <2>2, <2>3 DEF Link!Next, Link!Offer
<1>2. CASE Receive
  <2>1. UNCHANGED <<sent, confirmed>>
    BY <1>2 DEF Receive, sender
  <2>2. CASE UNCHANGED delivered
    BY <2>1, <2>2 DEF Link!vars
  <2>3. CASE ~ UNCHANGED delivered
    <3>1. PICK i \in Deliverable(wire) : delivered' = Append(delivered, wire[i])
      BY <1>2, <2>3 DEF Receive, receiver
    <3>2. wire[i] \in Package
      BY DatagramType DEF TypeOK
    <3>3. Len(delivered') = Len(delivered) + 1 /\ delivered'[Len(delivered) + 1] = wire[i]
      BY <1>0, <3>1, <3>2, AppendProperties
    <3>4. Len(delivered) < Len(sent) /\ wire[i] = sent[Len(delivered) + 1]
      BY <1>0, <2>1, <3>3, LenProperties DEF DeliveryInv
    <3> QED
      BY <2>1, <3>1, <3>4 DEF Link!Next, Link!Accept
  <2> QED
    BY <2>2, <2>3
<1>3. CASE LoopAcked
  <2>1. confirmed' = confirmed + 1 /\ UNCHANGED <<sent, delivered>>
    BY <1>3 DEF LoopAcked, LeaveLoop, receiver
  <2>2. confirmed < Len(delivered)
    BY <1>0, <2>1, LenProperties DEF DeliveryInv
  <2> QED
    BY <2>1, <2>2 DEF Link!Next, Link!Confirm
<1>4. CASE UNCHANGED <<sent, delivered, confirmed>>
  BY <1>4 DEF Link!vars
<1>5. SendFirst \/ Receive \/ LoopAcked \/ UNCHANGED <<sent, delivered, confirmed>>
  BY DEF Next, SendThread, SendPkg, CheckStop, Idle, SendFirstRaises, ResendRaises, CaughtEnds,
     LoopCancelled, LoopExhausted, LoopContinues,
     Resend, LeaveLoop, SendOther, ReceiveAck, EndConnection, LoseData, LoseAck,
     vars, sender, receiver
<1> QED
  BY <1>1, <1>2, <1>3, <1>4, <1>5

LEMMA DeliverySendFirst ==
  ASSUME TypeOK, DeliveryInv, SendFirst
  PROVE  DeliveryInv'
<1>1. /\ sent \in Seq(Package) /\ Len(sent) \in Nat /\ Len(delivered) \in Nat
      /\ UNCHANGED <<confirmed, delivered, lastRec>>
  BY LenProperties DEF SendFirst, receiver, TypeOK
<1>2. PICK p \in Package : sent' = Append(sent, p)
  <2>1. \A c \in Content : [rid |-> rolling, content |-> c] \in Package
    BY DEF Package, TypeOK
  <2> QED
    BY <2>1 DEF SendFirst
<1>3. Len(sent') = Len(sent) + 1 /\ \A k \in 1 .. Len(sent) : sent'[k] = sent[k]
  BY <1>1, <1>2, AppendProperties
<1> QED
  BY <1>1, <1>3 DEF DeliveryInv

\* The ack taken is for bytes passed on, hence for the package sent last.
LEMMA DeliveryLoopAcked ==
  ASSUME TypeOK, ThreadInv, TracesInv, DeliveryInv, Distinct, LoopAcked
  PROVE  DeliveryInv'
<1>1. /\ sent \in Seq(Package) /\ confirmed \in Nat /\ Len(delivered) \in Nat /\ Len(sent) \in Nat
      /\ confirmed' = confirmed + 1 /\ UNCHANGED <<sent, delivered, lastRec>>
  BY LenProperties DEF LoopAcked, LeaveLoop, receiver, TypeOK
<1>2. Len(sent) = confirmed + 1 /\ Last(sent) = sent[Len(sent)] /\ Last(sent) \in Package
  BY <1>1, LastElement DEF LoopAcked, ThreadInv
<1>3. PICK k \in 1 .. Len(delivered) : delivered[k] = sent[Len(sent)]
  BY <1>2 DEF LoopAcked, TracesInv, Contains
<1>4. k \in 1 .. Len(sent) /\ sent[k] = sent[Len(sent)] /\ Len(sent) \in 1 .. Len(sent)
  BY <1>1, <1>2, <1>3 DEF DeliveryInv
<1>5. k = Len(sent)
  BY <1>4 DEF Distinct
<1> QED
  BY <1>1, <1>2, <1>5 DEF DeliveryInv

\* What arrives is not late, hence a repetition of the package passed on last or
\* the one after it.
LEMMA DeliveryReceive ==
  ASSUME TypeOK, ThreadInv, TracesInv, DeliveryInv, Distinct, NoneLate, Receive
  PROVE  DeliveryInv'
<1>0. /\ sent \in Seq(Package) /\ wire \in Seq(Package) /\ delivered \in Seq(Package)
      /\ confirmed \in Nat /\ Len(sent) \in Nat /\ Len(delivered) \in Nat
      /\ Len(sent) <= confirmed + 1
  BY LenProperties DEF TypeOK, ThreadInv
<1>1. PICK i \in Deliverable(wire) :
        /\ IF lastRec = wire[i]
             THEN UNCHANGED receiver
             ELSE lastRec' = wire[i] /\ delivered' = Append(delivered, wire[i])
        /\ UNCHANGED <<sender, acks>>
  BY DEF Receive
<1>2. UNCHANGED <<sent, confirmed>>
  BY <1>1 DEF sender
<1>3. i \in 1 .. Len(wire) /\ wire[i] \in Package
  BY <1>0, DatagramType
<1>4. CASE lastRec = wire[i]
  BY <1>1, <1>2, <1>4 DEF DeliveryInv, receiver
<1>5. CASE lastRec # wire[i]
  <2>1. PICK k \in 1 .. Len(sent) : sent[k] = wire[i]
    BY <1>3 DEF TracesInv, Contains
  <2>2. k = Len(delivered) + 1
    <3>1. ~ (k \in 1 .. Len(delivered) - 1)
      <4> SUFFICES ASSUME k \in 1 .. Len(delivered) - 1 PROVE FALSE
        OBVIOUS
      <4>1. k \in 1 .. Len(delivered) /\ delivered[k] = sent[k]
        BY <1>0 DEF DeliveryInv
      <4> QED
        BY <2>1, <4>1 DEF NoneLate
    <3>2. k # Len(delivered)
      BY <1>5, <2>1 DEF DeliveryInv
    <3>3. k <= Len(delivered) + 1
      BY <1>0 DEF DeliveryInv
    <3> QED
      BY <1>0, <3>1, <3>2, <3>3
  <2>3. lastRec' = wire[i] /\ delivered' = Append(delivered, wire[i])
    BY <1>1, <1>5
  <2>4. /\ Len(delivered') = Len(delivered) + 1 /\ delivered'[Len(delivered) + 1] = wire[i]
        /\ \A j \in 1 .. Len(delivered) : delivered'[j] = delivered[j]
    BY <1>0, <1>3, <2>3, AppendProperties
  <2>5. \A j \in 1 .. Len(delivered) + 1 : delivered'[j] = sent[j]
    <3> TAKE j \in 1 .. Len(delivered) + 1
    <3>1. j \in 1 .. Len(delivered) \/ j = Len(delivered) + 1
      BY <1>0
    <3> QED
      BY <2>1, <2>2, <2>4, <3>1 DEF DeliveryInv
  <2>6. confirmed <= Len(delivered)
    BY DEF DeliveryInv
  <2> QED
    BY <1>0, <1>2, <2>1, <2>2, <2>3, <2>4, <2>5, <2>6 DEF DeliveryInv
<1> QED
  BY <1>4, <1>5

LEMMA DeliveryStep ==
  ASSUME TypeOK, ThreadInv, TracesInv, DeliveryInv, Distinct, NoneLate, [Next]_vars
  PROVE  DeliveryInv'
<1>1. CASE SendFirst
  BY <1>1, DeliverySendFirst
<1>2. CASE LoopAcked
  BY <1>2, DeliveryLoopAcked
<1>3. CASE Receive
  BY <1>3, DeliveryReceive
<1>4. CASE UNCHANGED <<sent, confirmed, delivered, lastRec>>
  BY <1>4 DEF DeliveryInv
<1>5. SendFirst \/ LoopAcked \/ Receive \/ UNCHANGED <<sent, confirmed, delivered, lastRec>>
  BY DEF Next, SendThread, SendPkg, CheckStop, Idle, SendFirstRaises, ResendRaises, CaughtEnds,
     LoopCancelled, LoopExhausted, LoopContinues, Resend, LeaveLoop, SendOther, ReceiveAck,
     EndConnection, LoseData, LoseAck, vars, sender, receiver
<1> QED
  BY <1>1, <1>2, <1>3, <1>4, <1>5

\* _send_pkg and _handle_received_pkg are ReliableLink, for any number of packages and
\* over any network, in every behaviour in which no two packages consist of the same
\* bytes and no datagram arrives when a later package has been passed on.  The code
\* provides for neither condition: they say what it relies on.
THEOREM RefinesReliableLink == Spec /\ [](Distinct /\ NoneLate) => ImplementsLink
<1>1. Init => Link!Init /\ DeliveryInv
  BY DEF Init, Link!Init, DeliveryInv
<1>2. /\ TypeOK /\ ThreadInv /\ AnyNetworkInv /\ DeliveryInv /\ Distinct /\ NoneLate
      /\ [Next]_vars
      => DeliveryInv' /\ [Link!Next]_(Link!vars)
  BY DeliveryStep, StepRefines DEF AnyNetworkInv
<1> QED
  BY <1>1, <1>2, TypeCorrect, AnyNetworkBytes, PTL DEF Spec, ImplementsLink, Link!Spec

\* A FIFO network delivers nothing late, so that there distinct packages are enough; the
\* rolling id provides them for as many packages as it has values (RollingIdsDistinct).
THEOREM FifoRefinesReliableLink ==
  ASSUME Overtake = 0
  PROVE  Spec /\ []Distinct => ImplementsLink
<1>1. TypeOK /\ ThreadInv /\ LinkInv /\ Distinct => NoneLate
  <2> SUFFICES ASSUME TypeOK, DeliveryInv, WireInv, Distinct,
                      NEW i \in Deliverable(wire), NEW k \in 1 .. Len(delivered) - 1
               PROVE  wire[i] # delivered[k]
    BY DEF LinkInv, NoneLate
  <2>1. /\ wire \in Seq(Package) /\ Len(sent) \in Nat /\ Len(delivered) \in Nat
        /\ Len(delivered) <= Len(sent)
    BY LenProperties DEF TypeOK, DeliveryInv
  <2>2. PICK m \in {Len(delivered), Len(sent)} : m > 0 /\ wire[i] = sent[m]
    BY <2>1, DatagramType DEF WireInv
  <2>3. m \in 1 .. Len(sent) /\ k \in 1 .. Len(sent) /\ k # m /\ k \in 1 .. Len(delivered)
    BY <2>1, <2>2
  <2>4. delivered[k] = sent[k] /\ sent[k] # sent[m]
    BY <2>3 DEF DeliveryInv, Distinct
  <2> QED
    BY <2>2, <2>4
<1> QED
  BY <1>1, TypeCorrect, FifoLinkInv, RefinesReliableLink, PTL
=============================================================================
