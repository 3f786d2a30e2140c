----------------------------- MODULE Transport ------------------------------
(***************************************************************************)
(* The stop-and-wait transport of class Punchline: one sending thread in   *)
(* _send_pkg, the receive thread of the same end that files incoming acks, *)
(* and the receive thread of the other end, over UDP.  The two sockets are *)
(* modelled from how the code uses them: a datagram may be lost or         *)
(* delivered again, and may be overtaken by at most Overtake later ones.   *)
(***************************************************************************)
EXTENDS Naturals, Sequences, SequencesExt

CONSTANTS
  Content,          \* type, sequence id and data of a DAT, JDT, CON or END package
  RollingModulus,   \* number of values of _rolling_id (256)
  MaxResendTries,   \* _MAX_RESEND_TRIES (5)
  Overtake,         \* datagrams that may overtake an older one (0: FIFO)
  NoPackage,        \* _last_rec_ack_ret_pkg = b''
  MaxCreated,       \* bound: packages this end creates
  MaxInFlight,      \* bound: datagrams in one direction, further ones are lost
  MaxAcks           \* bound: equal hashes in _ack_hash_list

RollingId == 0 .. RollingModulus - 1

\* The bytes of a package, without the version both ends share.  SHA-256 is
\* taken to be injective: a package stands for its own hash.
Package == [rid : RollingId, content : Content]

ASSUME TransportAssumption ==
  /\ RollingModulus \in Nat \ {0}
  /\ MaxResendTries \in Nat
  /\ Overtake \in Nat
  /\ MaxCreated \in Nat
  /\ MaxInFlight \in Nat
  /\ MaxAcks \in Nat
  /\ NoPackage \notin Package

VARIABLES
  rolling,      \* _rolling_id of the sending end
  created,      \* packages created so far
  pc,           \* where the sending thread is
  resends,      \* local variable of _send_pkg
  cancel,       \* _cancel_send_pkg
  stop,         \* _stop_all_threads
  acks,         \* _ack_hash_list, as a multiset
  wire,         \* datagrams on their way to the receiving end
  back,         \* ACK datagrams on their way to the sending end
  lastRec,      \* _last_rec_ack_ret_pkg of the receiving end
  raised,       \* in_thread_error_queue holds a TimeoutError
  sent,         \* history: packages whose first sendto _send_pkg got through
  delivered,    \* history: packages _handle_received_pkg returned
  confirmed     \* history: packages whose ack _send_pkg took

sender == <<rolling, created, pc, resends, cancel, stop, raised, sent, confirmed>>
receiver == <<lastRec, delivered>>
vars == <<sender, acks, wire, back, receiver>>

TypeOK ==
  /\ rolling \in RollingId
  /\ created \in 0 .. MaxCreated
  /\ pc \in {"top", "ready", "wait", "due", "caught", "dead"}
  /\ resends \in 0 .. MaxResendTries
  /\ cancel \in BOOLEAN /\ stop \in BOOLEAN /\ raised \in BOOLEAN
  /\ acks \in [Package -> 0 .. MaxAcks]
  /\ wire \in Seq(Package) /\ back \in Seq(Package)
  /\ lastRec \in Package \cup {NoPackage}
  /\ sent \in Seq(Package) /\ delivered \in Seq(Package)
  /\ confirmed \in Nat

Init ==
  /\ rolling \in RollingId
  /\ created = 0
  /\ pc = "top"
  /\ resends = 0
  /\ cancel = FALSE /\ stop = FALSE /\ raised = FALSE
  /\ acks = [p \in Package |-> 0]
  /\ wire = <<>> /\ back = <<>>
  /\ lastRec = NoPackage
  /\ sent = <<>> /\ delivered = <<>>
  /\ confirmed = 0
-----------------------------------------------------------------------------
(* The network.                                                            *)

Transmit(net, p) == IF Len(net) < MaxInFlight THEN Append(net, p) ELSE net

\* Positions from which the next datagram may be taken.
Deliverable(net) == {i \in 1 .. Len(net) : i <= Overtake + 1}

\* A datagram taken from the network is gone, or a duplicate of it remains.
AfterTaking(net, i) == {net, RemoveAt(net, i)}

LoseData ==
  /\ \E i \in Deliverable(wire) : wire' = RemoveAt(wire, i)
  /\ UNCHANGED <<sender, acks, back, receiver>>

LoseAck ==
  /\ \E i \in Deliverable(back) : back' = RemoveAt(back, i)
  /\ UNCHANGED <<sender, acks, wire, receiver>>
-----------------------------------------------------------------------------
(* Creating packages.  Every thread of an end draws from one rolling id.   *)

\* Mutant: the rolling id is not reduced to a byte.
CreatePkgUnbounded ==
  /\ created < MaxCreated
  /\ created' = created + 1
  /\ rolling' = rolling + 1

CreatePkg ==
  /\ created < MaxCreated
  /\ created' = created + 1
  /\ rolling' = (rolling + 1) % RollingModulus

\* A package that asks for no ack (KAL, FAF, JFF, ACK) passes through _send_pkg
\* in this or another thread: it uses up a rolling id and resets the cancel flag.
SendOther ==
  /\ CreatePkg
  /\ cancel' = FALSE
  /\ UNCHANGED <<pc, resends, stop, raised, sent, confirmed, acks, wire, back, receiver>>
-----------------------------------------------------------------------------
(* The sending thread.                                                     *)

CheckStop ==
  /\ pc = "top"
  /\ pc' = IF stop THEN "dead" ELSE "ready"
  /\ UNCHANGED <<rolling, created, resends, cancel, stop, raised, sent, confirmed,
                 acks, wire, back, receiver>>

\* Nothing is queued: the thread sleeps and goes round its loop.  Where another
\* thread empties the queue before the get(), the thread stays at "ready".
Idle ==
  /\ pc = "ready"
  /\ pc' = "top"
  /\ UNCHANGED <<rolling, created, resends, cancel, stop, raised, sent, confirmed,
                 acks, wire, back, receiver>>

\* The first sendto of _send_pkg and the assignments before its loop.
SendFirst ==
  /\ pc = "ready"
  /\ CreatePkg
  /\ \E c \in Content : LET p == [rid |-> rolling, content |-> c] IN
        /\ sent' = Append(sent, p)
        /\ wire' = Transmit(wire, p)
  /\ resends' = 0
  /\ cancel' = FALSE
  /\ pc' = "wait"
  /\ UNCHANGED <<stop, raised, confirmed, acks, back, receiver>>

\* The first sendto raises an OSError: the package taken from the queue, or the
\* keepalive, goes to nobody.
SendFirstRaises ==
  /\ pc = "ready"
  /\ CreatePkg
  /\ pc' = "caught"
  /\ UNCHANGED <<resends, cancel, stop, raised, sent, confirmed, acks, wire, back, receiver>>

\* Mutant: too many resends go unnoticed.
LeaveLoopSilently ==
  /\ pc' = "top"
  /\ UNCHANGED <<rolling, created, resends, cancel, stop, raised, sent, wire, back, receiver>>

\* After the loop: too many resends raise a TimeoutError even when the loop was
\* left because of an ack.  PunchlineClient._send_pkg answers with _end_connection.
LeaveLoop ==
  /\ pc' = "top"
  /\ LET timedOut == resends >= MaxResendTries IN
        /\ raised' = (raised \/ timedOut)
        /\ stop' = (stop \/ timedOut)
        /\ cancel' = (cancel \/ timedOut)
  /\ UNCHANGED <<rolling, created, resends, sent, wire, back, receiver>>

LoopCancelled ==
  /\ pc = "wait"
  /\ cancel
  /\ LeaveLoop
  /\ UNCHANGED <<acks, confirmed>>

LoopAcked ==
  /\ pc = "wait"
  /\ ~cancel
  /\ acks[Last(sent)] > 0
  /\ acks' = [acks EXCEPT ![Last(sent)] = @ - 1]
  /\ confirmed' = confirmed + 1
  /\ LeaveLoop

LoopExhausted ==
  /\ pc = "wait"
  /\ ~cancel
  /\ acks[Last(sent)] = 0
  /\ resends >= MaxResendTries
  /\ LeaveLoop
  /\ UNCHANGED <<acks, confirmed>>

\* The loop condition held when it was evaluated; by the time of the sendto
\* the ack or a cancellation may have arrived.
LoopContinues ==
  /\ pc = "wait"
  /\ ~cancel
  /\ acks[Last(sent)] = 0
  /\ resends < MaxResendTries
  /\ pc' = "due"
  /\ UNCHANGED <<rolling, created, resends, cancel, stop, raised, sent, confirmed,
                 acks, wire, back, receiver>>

\* Mutant: the resend is not counted.
ResendUncounted ==
  /\ pc = "due"
  /\ wire' = Transmit(wire, Last(sent))
  /\ pc' = "wait"
  /\ UNCHANGED <<rolling, created, resends, cancel, stop, raised, sent, confirmed, acks, back,
                 receiver>>

Resend ==
  /\ pc = "due"
  /\ wire' = Transmit(wire, Last(sent))
  /\ resends' = resends + 1
  /\ pc' = "wait"
  /\ UNCHANGED <<rolling, created, cancel, stop, raised, sent, confirmed, acks, back, receiver>>

\* The sendto of a resend raises an OSError, which leaves _send_pkg without an
\* ack and without the TimeoutError that ends the connection.
ResendRaises ==
  /\ pc = "due"
  /\ pc' = "caught"
  /\ UNCHANGED <<rolling, created, resends, cancel, stop, raised, sent, confirmed,
                 acks, wire, back, receiver>>

\* The except clause calls disconnect(), which waits for a queue that this thread
\* alone sends from: it goes on to its own _end_connection when another thread
\* has ended the connection and cleared the queue.
CaughtEnds ==
  /\ pc = "caught"
  /\ stop
  /\ cancel' = TRUE
  /\ pc' = "top"
  /\ UNCHANGED <<rolling, created, resends, stop, raised, sent, confirmed,
                 acks, wire, back, receiver>>
-----------------------------------------------------------------------------
(* The receive threads and the threads that end the connection.            *)

\* Mutant: a repetition is handed on like any package.
ReceiveWithoutCheck ==
  \E i \in Deliverable(wire) :
    /\ wire' \in AfterTaking(wire, i)
    /\ back' = Transmit(back, wire[i])
    /\ lastRec' = wire[i]
    /\ delivered' = Append(delivered, wire[i])
    /\ UNCHANGED <<sender, acks>>

\* The other end: the ACK goes out first, then a repetition is dropped.  A sendto
\* of the ACK that raises passes nothing on: to the sender the datagram was lost.
Receive ==
  \E i \in Deliverable(wire) :
    /\ wire' \in AfterTaking(wire, i)
    /\ back' = Transmit(back, wire[i])
    /\ IF lastRec = wire[i]
         THEN UNCHANGED receiver
         ELSE /\ lastRec' = wire[i]
              /\ delivered' = Append(delivered, wire[i])
    /\ UNCHANGED <<sender, acks>>

\* This end files the hash an ACK carries, whether or not anyone waits for it.
ReceiveAck ==
  \E i \in Deliverable(back) :
    /\ acks[back[i]] < MaxAcks
    /\ acks' = [acks EXCEPT ![back[i]] = @ + 1]
    /\ back' \in AfterTaking(back, i)
    /\ UNCHANGED <<sender, wire, receiver>>

\* _end_connection in another thread: END received, or disconnect() called.
EndConnection ==
  /\ stop' = TRUE
  /\ cancel' = TRUE
  /\ UNCHANGED <<rolling, created, pc, resends, raised, sent, confirmed,
                 acks, wire, back, receiver>>
-----------------------------------------------------------------------------
\* The loop of _send_pkg.
SendPkg ==
  LoopCancelled \/ LoopAcked \/ LoopExhausted \/ LoopContinues \/ Resend \/ ResendRaises

SendThread ==
  CheckStop \/ Idle \/ SendFirst \/ SendFirstRaises \/ SendPkg \/ CaughtEnds

Next ==
  \/ SendThread \/ SendOther
  \/ Receive \/ ReceiveAck \/ EndConnection
  \/ LoseData \/ LoseAck

Spec == Init /\ [][Next]_vars

\* The interpreter keeps running a thread that is in the loop of _send_pkg; nothing
\* is assumed of the thread elsewhere, where get() and disconnect() may block it,
\* nor of the network, of the other end or of the application.
FairSpec == Spec /\ WF_vars(SendPkg)
-----------------------------------------------------------------------------
(* The argument why a FIFO network makes the transport reliable.           *)

\* No two packages the sending thread has sent consist of the same bytes.
Distinct == \A i, j \in 1 .. Len(sent) : sent[i] = sent[j] => i = j

\* No datagram that may arrive next is an old one: a copy of a package passed on
\* before the one passed on last.
NoneLate ==
  \A i \in Deliverable(wire) : \A k \in 1 .. Len(delivered) - 1 : wire[i] # delivered[k]

\* What the sending thread knows: it starts a package only with every earlier
\* one confirmed, for it gives one up only together with the connection or with
\* itself, in the disconnect() of its except clause.
ThreadInv ==
  /\ cancel => stop
  /\ pc = "due" => resends < MaxResendTries
  /\ pc \in {"wait", "due"} => Len(sent) = confirmed + 1
  /\ pc \in {"top", "ready", "dead"} =>
       \/ Len(sent) = confirmed
       \/ Len(sent) = confirmed + 1 /\ stop /\ pc # "ready"
  /\ pc = "caught" => Len(sent) \in {confirmed, confirmed + 1}

\* What the receiving end has passed on, and the one package it remembers.
DeliveryInv ==
  /\ confirmed <= Len(delivered)
  /\ Len(delivered) <= Len(sent)
  /\ \A i \in 1 .. Len(delivered) : delivered[i] = sent[i]
  /\ lastRec = IF Len(delivered) = 0 THEN NoPackage ELSE sent[Len(delivered)]

\* On the wire, copies of the package delivered last come before copies of the
\* package sent last, and nothing else is left.
WireInv ==
  /\ \A i \in 1 .. Len(wire) :
       \E k \in {Len(delivered), Len(sent)} : k > 0 /\ wire[i] = sent[k]
  /\ \A i, j \in 1 .. Len(wire) :
       i < j /\ wire[i] = sent[Len(sent)] => wire[j] = sent[Len(sent)]

\* An acknowledgement, on its way or filed, is for a package that was delivered.
AckInv ==
  /\ \A i \in 1 .. Len(back) : \E k \in 1 .. Len(delivered) : back[i] = sent[k]
  /\ \A p \in Package : acks[p] > 0 => \E k \in 1 .. Len(delivered) : p = sent[k]

\* The inductive strengthening of DeliveredOnceInOrder and AckedWasDelivered
\* (_send_pkg and _handle_received_pkg over a FIFO network): it holds as long
\* as no package repeats the bytes of an earlier one.
LinkInv == ThreadInv /\ (Distinct => DeliveryInv /\ WireInv /\ AckInv)
-----------------------------------------------------------------------------
Link == INSTANCE ReliableLink WITH offered <- sent, accepted <- delivered

\* Packages reach the other end's handler once and in order, and _send_pkg takes
\* an acknowledgement only of a package that was handed to that handler
\* (_send_pkg with _handle_received_pkg): the transport is a reliable link.
ImplementsLink == Link!Spec

\* The packages handed to _handle_received_pkg's caller are a prefix of those
\* _send_pkg was called with: none twice, none skipped, none out of order.
DeliveredOnceInOrder == IsPrefix(delivered, sent)

\* No message is lost in silence: when _send_pkg takes an ack for a package,
\* the other end's _handle_received_pkg has passed that package on.
AckedWasDelivered == confirmed <= Len(delivered)

\* Whatever the network reorders or repeats, a package is passed on only with all that
\* were sent before it already passed on (_handle_received_pkg).  Packages are compared
\* by their bytes, as the code does: this speaks of packages as long as they are Distinct;
\* otherwise one dropped as the repetition of an equal one counts as passed on, while it
\* is lost in silence (run transport_wrap).
NoneSkipped ==
  \A i \in 1 .. Len(delivered) : \E k \in 1 .. Len(sent) :
    /\ delivered[i] = sent[k]
    /\ \A m \in 1 .. k - 1 : \E j \in 1 .. i - 1 : delivered[j] = sent[m]

\* An ack that _send_pkg takes is for bytes that the other end has passed on; for the
\* package itself, again as long as the packages are distinct.
AckedWasPassedOn == \A k \in 1 .. confirmed : \E i \in 1 .. Len(delivered) : delivered[i] = sent[k]

\* Whatever the network and the other threads do, the loop of _send_pkg ends: it returns,
\* or the sendto of a resend raises.
SendReturns == pc \in {"wait", "due"} ~> pc \in {"top", "caught"}
=============================================================================
