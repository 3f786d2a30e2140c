------------------------- MODULE PunchlineClientProofs -------------------------
(***************************************************************************)
(* Proofs about PunchlineClient: its types, that data given up is the last *)
(* of its connection, that disconnect() waits for data, that               *)
(* get() blocks only when the connection is over, and, for a client that   *)
(* connects once, that data goes to the other client.  The three threads   *)
(* may interleave in any way, and any number of packages may be sent.      *)
(***************************************************************************)
EXTENDS PunchlineClient, TLAPS

USE ClientAssumption DEF ClientAssumption

\* A thread in _send_pkg, or about to call it with a package from the queue, has one.
PendingInv == \A t \in Thread : pc[t] \in Awaiting \cup {"send"} => pending[t] \in Pending

\* Only _end_connection cancels, and stop is never reset.
CancelInv == cancel => stop

ClientInv == TypeOK /\ PendingInv /\ CancelInv

\* While the client is not linked there is no data: the link is not up, send()
\* refuses, and the queue and the send thread have other packages only.
UnlinkedInv ==
  dest # "peer" =>
    /\ ~connected /\ pc["rcv"] # "link" /\ pc["app"] # "put"
    /\ queue \in Seq({"CON", "END"})
    /\ pc["snd"] = "send" => pending["snd"].type # "DAT"

\* A client that connects once has no destination before it has resolved the address
\* of the server, and one when it handles a CON.
UnresolvedInv ==
  /\ connects = 0 \/ pc["app"] = "resolve" => dest = None
  /\ pc["app"] = "resolve" => connects # 0
  /\ pc["rcv"] = "con" => dest # None

DestInv == UnlinkedInv /\ UnresolvedInv /\ DataGoesToPeer
\* Before anything is taken from the queue by _end_connection, the threads are told.
DrainInv == \A t \in Thread : pc[t] \in {"drain", "take"} => stop

\* Only the send thread has data in _send_pkg.
HolderInv ==
  \A t \in Thread : pc[t] \in Awaiting /\ pending[t].type = "DAT" => t = "snd" /\ pc[t] = "awaitSend"

\* A thread is started by the first connect_async, unless a connection has ended before.
FreshInv ==
  ~stop => /\ connects # 0 => connecting \/ connected
           /\ pc["app"] = "resolve" => connects # 0
           /\ connects = 0 \/ pc["app"] = "resolve" => pc["snd"] = "none" /\ ~abandoned

\* When the send thread gives data up and has not ended the connection yet, it is on
\* its way through disconnect() to do so, or dies on the way.
Failing == {"caught", "check", "choose", "putEnd", "flush", "leave", "awaitLeave", "end", "dead"}
AbandonedInv == abandoned /\ ~stop => pc["snd"] \in Failing

\* While the application flushes, nothing comes behind its END but an END of another
\* thread, and the send thread that has taken it is done with what was before it.
FlushingInv ==
  pc["app"] = "flush" /\ ~stop =>
    IF queue = <<>>
    THEN ~abandoned /\ ~(pc["snd"] \in {"send", "awaitSend"} /\ pending["snd"].type = "DAT")
    ELSE queue[Len(queue)] = "END"

FlushInv == DrainInv /\ HolderInv /\ FreshInv /\ AbandonedInv /\ FlushingInv
-----------------------------------------------------------------------------
(* One case per action; the actions of disconnect and _end_connection are  *)
(* those of any thread.                                                    *)

LEMMA StartSendTypes ==
  ASSUME TypeOK, NEW t \in Thread, NEW type \in PkgType, StartSend(t, type)
  PROVE  pending' \in [Thread -> Pending \cup {None}] /\ acked' \subseteq Thread
<1>1. [type |-> type, to |-> dest] \in Pending
  BY DEF TypeOK, Pending
<1> QED
  BY <1>1 DEF TypeOK, StartSend

LEMMA InitClient == Init => ClientInv
<1> SUFFICES ASSUME Init PROVE ClientInv
  OBVIOUS
<1> USE DEF Init, Thread, Home
<1>1. pc \in [Thread -> Label] /\ next \in [Thread -> {"idle", "top", "caught", "dead"}]
  BY DEF Label
<1>2. pending \in [Thread -> Pending \cup {None}] /\ acked \subseteq Thread /\ dest \in Place \cup {None}
  OBVIOUS
<1>3. queue \in Seq(PkgType) /\ connects \in 0 .. MaxConnects /\ data \in 0 .. MaxData
  OBVIOUS
<1>4. TypeOK
  BY <1>1, <1>2, <1>3 DEF TypeOK
<1>5. PendingInv /\ CancelInv
  BY DEF PendingInv, Awaiting, CancelInv
<1> QED
  BY <1>4, <1>5 DEF ClientInv

LEMMA EndingClient ==
  ASSUME ClientInv, NEW t \in Thread, Ending(t)
  PROVE  ClientInv'
<1> USE DEF ClientInv, TypeOK, PendingInv, CancelInv,
       flags, waits, calls, history, Goto, Home, Awaiting,
       Thread, Label, Pending, PkgType, AckType, Place
<1>1. CASE SendReturns(t)
  BY <1>1 DEF SendReturns, LeaveLoop
<1>2. CASE SendTimesOut(t)
  BY <1>2 DEF SendTimesOut, LeaveLoop
<1>3. CASE EndFlags(t)
  BY <1>3 DEF EndFlags, Move
<1>4. CASE Drain(t)
  BY <1>4 DEF Drain
<1>5. CASE DrainTake(t)
  BY <1>5 DEF DrainTake, Move
<1>6. CASE Caught(t)
  BY <1>6 DEF Caught, Move
<1>7. CASE CheckConnected(t)
  BY <1>7 DEF CheckConnected
<1>8. CASE QueueEnd(t)
  BY <1>8 DEF QueueEnd, Move
<1>9. CASE SkipQueue(t)
  BY <1>9 DEF SkipQueue
<1>10. CASE Flushed(t)
  BY <1>10 DEF Flushed, Move
<1>11. CASE SendLeave(t)
  BY <1>11 DEF SendLeave, Move, StartSend
<1>12. CASE LeaveRaises(t)
  BY <1>12 DEF LeaveRaises, Move
<1>13. CASE Linked(t)
  BY <1>13 DEF Linked, Move
<1>14. CASE ResendRaises(t)
  BY <1>14 DEF ResendRaises, LeaveLoop
<1> QED
  BY <1>1, <1>2, <1>3, <1>4, <1>5, <1>6, <1>7, <1>8, <1>9, <1>10, <1>11, <1>12, <1>13, <1>14 DEF Ending

LEMMA AppClient ==
  ASSUME ClientInv, AppCalls \/ ConnectGoes \/ ConnectRaises \/ PollOver \/ ConnectReturns \/ SendPut
  PROVE  ClientInv'
<1> USE DEF ClientInv, TypeOK, PendingInv, CancelInv,
       flags, waits, calls, history, Goto, Home, Awaiting,
       Thread, Label, Pending, PkgType, AckType, Place
<1>1. CASE Connect
  BY <1>1 DEF Connect, Move
<1>2. CASE Send
  BY <1>2 DEF Send, Move
<1>3. CASE Disconnect
  BY <1>3 DEF Disconnect, Move
<1>4. CASE ConnectGoes
  BY <1>4 DEF ConnectGoes
<1>5. CASE ConnectRaises
  BY <1>5 DEF ConnectRaises, Move
<1>6. CASE PollOver
  BY <1>6 DEF PollOver, Move
<1>7. CASE ConnectReturns
  BY <1>7 DEF ConnectReturns, Move
<1>8. CASE SendPut
  BY <1>8 DEF SendPut, Move
<1> QED
  BY <1>1, <1>2, <1>3, <1>4, <1>5, <1>6, <1>7, <1>8 DEF AppCalls

LEMMA SendThreadClient ==
  ASSUME ClientInv, SendTop \/ SendLook \/ SendIdle \/ SendGet \/ SendStart \/ SendRaises
  PROVE  ClientInv'
<1> USE DEF ClientInv, TypeOK, PendingInv, CancelInv,
       flags, waits, calls, history, Goto, Home, Awaiting,
       Thread, Label, Pending, PkgType, AckType, Place
<1>1. CASE SendTop
  BY <1>1 DEF SendTop
<1>2. CASE SendLook
  BY <1>2 DEF SendLook, Move
<1>3. CASE SendIdle
  <2>1. TypeOK'
    <3>1. cancel' \in BOOLEAN
      BY <1>3 DEF SendIdle
    <3>2. pc' \in [Thread -> Label]
      <4>1. Goto("snd", "top") \/ Goto("snd", "caught")
        BY <1>3 DEF SendIdle, Move
      <4> QED
        BY <4>1
    <3> QED
      BY <1>3, <3>1, <3>2 DEF SendIdle
  <2>2. PendingInv'
    BY <1>3 DEF SendIdle, Move
  <2>3. CancelInv'
    BY <1>3 DEF SendIdle, Move
  <2> QED
    BY <2>1, <2>2, <2>3
<1>4. CASE SendGet
  BY <1>4 DEF SendGet, Move
<1>5. CASE SendStart
  BY <1>5 DEF SendStart, StartSend
<1>6. CASE SendRaises
  BY <1>6 DEF SendRaises, Move
<1> QED
  BY <1>1, <1>2, <1>3, <1>4, <1>5, <1>6

LEMMA ReceiveThreadClient ==
  ASSUME ClientInv, Datagram \/ ReceiveTop \/ HandleCon \/ HandleLink \/ HandleEnd \/ HandleVersion
  PROVE  ClientInv'
<1> USE DEF ClientInv, TypeOK, PendingInv, CancelInv,
       flags, waits, calls, history, Goto, Home, Awaiting,
       Thread, Label, Pending, PkgType, AckType, Place
<1>1. CASE ReceiveTop
  BY <1>1 DEF ReceiveTop
<1>2. CASE ReceiveStray
  BY <1>2 DEF ReceiveStray, Move
<1>3. CASE ReceiveAck
  BY <1>3 DEF ReceiveAck, Move, FromDest
<1>4. CASE ReceivePlain
  BY <1>4 DEF ReceivePlain, Move, FromDest
<1>5. CASE ReceiveData
  BY <1>5 DEF ReceiveData, Move, FromDest
<1>6. CASE ReceiveCon
  BY <1>6 DEF ReceiveCon, Move, FromDest
<1>7. CASE ReceiveEnd
  BY <1>7 DEF ReceiveEnd, Move, FromDest
<1>8. CASE ReceiveOtherVersion
  BY <1>8 DEF ReceiveOtherVersion, Move, FromDest
<1>9. CASE ReceiveRaises
  BY <1>9 DEF ReceiveRaises, Move, FromDest
<1>10. CASE HandleCon
  BY <1>10 DEF HandleCon
<1>11. CASE HandleLink
  <2>1. TypeOK'
    BY <1>11 DEF HandleLink, Move
  <2>2. PendingInv'
    BY <1>11 DEF HandleLink, Move
  <2>3. CancelInv'
    BY <1>11 DEF HandleLink, Move
  <2> QED
    BY <2>1, <2>2, <2>3
<1>12. CASE HandleEnd
  BY <1>12 DEF HandleEnd, Move
<1>13. CASE HandleVersion
  <2>1. TypeOK'
    <3>1. pc' \in [Thread -> Label]
      BY <1>13 DEF HandleVersion, Move
    <3>2. pending' \in [Thread -> Pending \cup {None}] /\ acked' \subseteq Thread
      <4>1. CASE StartSend("rcv", "END")
        BY <4>1, StartSendTypes
      <4>2. CASE UNCHANGED <<waits, cancel>>
        BY <4>2
      <4> QED
        BY <1>13, <4>1, <4>2 DEF HandleVersion
    <3>3. cancel' \in BOOLEAN
      BY <1>13 DEF HandleVersion, StartSend
    <3> QED
      BY <1>13, <3>1, <3>2, <3>3 DEF HandleVersion
  <2>2. PendingInv'
    BY <1>13 DEF HandleVersion, Move, StartSend
  <2>3. CancelInv'
    BY <1>13 DEF HandleVersion, Move, StartSend
  <2> QED
    BY <2>1, <2>2, <2>3
<1> QED
  BY <1>1, <1>2, <1>3, <1>4, <1>5, <1>6, <1>7, <1>8, <1>9, <1>10, <1>11, <1>12, <1>13 DEF Datagram

LEMMA StepClient ==
  ASSUME ClientInv, [Next]_vars
  PROVE  ClientInv'
<1>1. CASE AppCalls \/ AppGoesOn
  BY <1>1, AppClient, EndingClient DEF AppGoesOn, Thread
<1>2. CASE SendThread
  BY <1>2, SendThreadClient, EndingClient DEF SendThread, Thread
<1>3. CASE Datagram \/ ReceiveGoesOn
  BY <1>3, ReceiveThreadClient, EndingClient DEF ReceiveGoesOn, Thread
<1>4. CASE UNCHANGED vars
  BY <1>4 DEF vars, flags, waits, calls, history, ClientInv, TypeOK, PendingInv, CancelInv
<1> QED
  BY <1>1, <1>2, <1>3, <1>4 DEF Next

-----------------------------------------------------------------------------
(* The destination.                                                        *)

LEMMA InitDest == Init => DestInv
BY DEF Init, DestInv, UnlinkedInv, UnresolvedInv, DataGoesToPeer, Thread

LEMMA EndingClientDest ==
  ASSUME MaxConnects <= 1, ClientInv, DestInv, NEW t \in Thread, Ending(t)
  PROVE  DestInv'
<1> USE DEF ClientInv, TypeOK, PendingInv, UnlinkedInv, UnresolvedInv, DataGoesToPeer, DestInv,
       flags, waits, calls, history, Goto, Home, Awaiting,
       Thread, Label, Pending, PkgType, AckType, Place
<1>1. CASE SendReturns(t)
  BY <1>1 DEF SendReturns, LeaveLoop
<1>2. CASE SendTimesOut(t)
  BY <1>2 DEF SendTimesOut, LeaveLoop
<1>3. CASE EndFlags(t)
  BY <1>3 DEF EndFlags, Move
<1>4. CASE Drain(t)
  BY <1>4 DEF Drain
<1>5. CASE DrainTake(t)
  BY <1>5 DEF DrainTake, Move
<1>6. CASE Caught(t)
  BY <1>6 DEF Caught, Move
<1>7. CASE CheckConnected(t)
  BY <1>7 DEF CheckConnected
<1>8. CASE QueueEnd(t)
  BY <1>8 DEF QueueEnd, Move
<1>9. CASE SkipQueue(t)
  BY <1>9 DEF SkipQueue
<1>10. CASE Flushed(t)
  BY <1>10 DEF Flushed, Move
<1>11. CASE SendLeave(t)
  BY <1>11 DEF SendLeave, Move, StartSend
<1>12. CASE LeaveRaises(t)
  BY <1>12 DEF LeaveRaises, Move
<1>13. CASE Linked(t)
  BY <1>13 DEF Linked, Move
<1>14. CASE ResendRaises(t)
  BY <1>14 DEF ResendRaises, LeaveLoop
<1> QED
  BY <1>1, <1>2, <1>3, <1>4, <1>5, <1>6, <1>7, <1>8, <1>9, <1>10, <1>11, <1>12, <1>13, <1>14 DEF Ending

LEMMA AppClientDest ==
  ASSUME MaxConnects <= 1, ClientInv, DestInv,
         AppCalls \/ ConnectGoes \/ ConnectRaises \/ PollOver \/ ConnectReturns \/ SendPut
  PROVE  DestInv'
<1> USE DEF ClientInv, TypeOK, PendingInv, UnlinkedInv, UnresolvedInv, DataGoesToPeer, DestInv,
       flags, waits, calls, history, Goto, Home, Awaiting,
       Thread, Label, Pending, PkgType, AckType, Place
<1>1. CASE Connect
  BY <1>1 DEF Connect, Move
<1>2. CASE Send
  BY <1>2 DEF Send, Move
<1>3. CASE Disconnect
  BY <1>3 DEF Disconnect, Move
<1>4. CASE ConnectGoes
  <2>1. UnlinkedInv'
    BY <1>4 DEF ConnectGoes
  <2>2. UnresolvedInv'
    BY <1>4 DEF ConnectGoes
  <2>3. DataGoesToPeer'
    BY <1>4 DEF ConnectGoes
  <2> QED
    BY <2>1, <2>2, <2>3
<1>5. CASE ConnectRaises
  BY <1>5 DEF ConnectRaises, Move
<1>6. CASE PollOver
  BY <1>6 DEF PollOver, Move
<1>7. CASE ConnectReturns
  BY <1>7 DEF ConnectReturns, Move
<1>8. CASE SendPut
  BY <1>8 DEF SendPut, Move
<1> QED
  BY <1>1, <1>2, <1>3, <1>4, <1>5, <1>6, <1>7, <1>8 DEF AppCalls

LEMMA SendThreadClientDest ==
  ASSUME MaxConnects <= 1, ClientInv, DestInv,
         SendTop \/ SendLook \/ SendIdle \/ SendGet \/ SendStart \/ SendRaises
  PROVE  DestInv'
<1> USE DEF ClientInv, TypeOK, PendingInv, UnlinkedInv, UnresolvedInv, DataGoesToPeer, DestInv,
       flags, waits, calls, history, Goto, Home, Awaiting,
       Thread, Label, Pending, PkgType, AckType, Place
<1>1. CASE SendTop
  BY <1>1 DEF SendTop
<1>2. CASE SendLook
  BY <1>2 DEF SendLook, Move
<1>3. CASE SendIdle
  <2>1. CASE Move("snd", "look", "top")
    BY <1>3, <2>1 DEF SendIdle, Move
  <2>2. CASE Move("snd", "look", "caught")
    BY <1>3, <2>2 DEF SendIdle, Move
  <2> QED
    BY <1>3, <2>1, <2>2 DEF SendIdle
<1>4. CASE SendGet
  BY <1>4 DEF SendGet, Move
<1>5. CASE SendStart
  BY <1>5 DEF SendStart, StartSend
<1>6. CASE SendRaises
  BY <1>6 DEF SendRaises, Move
<1> QED
  BY <1>1, <1>2, <1>3, <1>4, <1>5, <1>6

LEMMA ReceiveThreadClientDest ==
  ASSUME MaxConnects <= 1, ClientInv, DestInv,
         Datagram \/ ReceiveTop \/ HandleCon \/ HandleLink \/ HandleEnd \/ HandleVersion
  PROVE  DestInv'
<1> USE DEF ClientInv, TypeOK, PendingInv, UnlinkedInv, UnresolvedInv, DataGoesToPeer, DestInv,
       flags, waits, calls, history, Goto, Home, Awaiting,
       Thread, Label, Pending, PkgType, AckType, Place
<1>1. CASE ReceiveTop
  BY <1>1 DEF ReceiveTop
<1>2. CASE ReceiveStray
  BY <1>2 DEF ReceiveStray, Move
<1>3. CASE ReceiveAck
  BY <1>3 DEF ReceiveAck, Move, FromDest
<1>4. CASE ReceivePlain
  BY <1>4 DEF ReceivePlain, Move, FromDest
<1>5. CASE ReceiveData
  BY <1>5 DEF ReceiveData, Move, FromDest
<1>6. CASE ReceiveCon
  BY <1>6 DEF ReceiveCon, Move, FromDest
<1>7. CASE ReceiveEnd
  BY <1>7 DEF ReceiveEnd, Move, FromDest
<1>8. CASE ReceiveOtherVersion
  BY <1>8 DEF ReceiveOtherVersion, Move, FromDest
<1>9. CASE ReceiveRaises
  BY <1>9 DEF ReceiveRaises, Move, FromDest
<1>10. CASE HandleCon
  <2>1. UnlinkedInv'
    BY <1>10 DEF HandleCon
  <2>2. UnresolvedInv'
    BY <1>10 DEF HandleCon
  <2>3. DataGoesToPeer'
    BY <1>10 DEF HandleCon
  <2> QED
    BY <2>1, <2>2, <2>3
<1>11. CASE HandleLink
  <2>1. CASE Move("rcv", "link", "top")
    BY <1>11, <2>1 DEF HandleLink, Move
  <2>2. CASE Move("rcv", "link", "caught")
    BY <1>11, <2>2 DEF HandleLink, Move
  <2> QED
    BY <1>11, <2>1, <2>2 DEF HandleLink
<1>12. CASE HandleEnd
  BY <1>12 DEF HandleEnd, Move
<1>13. CASE HandleVersion
  <2>1. UnlinkedInv'
    BY <1>13 DEF HandleVersion, Move, StartSend
  <2>2. UnresolvedInv'
    BY <1>13 DEF HandleVersion, Move, StartSend
  <2>3. DataGoesToPeer'
    BY <1>13 DEF HandleVersion, Move, StartSend
  <2> QED
    BY <2>1, <2>2, <2>3
<1> QED
  BY <1>1, <1>2, <1>3, <1>4, <1>5, <1>6, <1>7, <1>8, <1>9, <1>10, <1>11, <1>12, <1>13 DEF Datagram

LEMMA StepDest ==
  ASSUME MaxConnects <= 1, ClientInv, DestInv, [Next]_vars
  PROVE  DestInv'
<1>1. CASE AppCalls \/ AppGoesOn
  BY <1>1, AppClientDest, EndingClientDest DEF AppGoesOn, Thread
<1>2. CASE SendThread
  BY <1>2, SendThreadClientDest, EndingClientDest DEF SendThread, Thread
<1>3. CASE Datagram \/ ReceiveGoesOn
  BY <1>3, ReceiveThreadClientDest, EndingClientDest DEF ReceiveGoesOn, Thread
<1>4. CASE UNCHANGED vars
  BY <1>4 DEF vars, flags, waits, calls, history, DestInv, UnlinkedInv, UnresolvedInv,
     DataGoesToPeer
<1> QED
  BY <1>1, <1>2, <1>3, <1>4 DEF Next
-----------------------------------------------------------------------------
(* The flush of disconnect().                                              *)

LEMMA TailKeepsLast ==
  ASSUME NEW S, NEW q \in Seq(S), q # <<>>, Len(q) # 1
  PROVE  Tail(q) # <<>> /\ Tail(q)[Len(Tail(q))] = q[Len(q)]
<1>1. Len(q) \in Nat /\ Len(q) # 0 /\ Len(q) # 1
  OBVIOUS
<1>2. Len(Tail(q)) = Len(q) - 1 /\ \A i \in 1 .. Len(q) - 1 : Tail(q)[i] = q[i + 1]
  BY <1>1
<1>3. ASSUME NEW n \in Nat, n # 0, n # 1
      PROVE  n - 1 \in 1 .. n - 1 /\ (n - 1) + 1 = n /\ n - 1 # 0
  BY <1>3
<1>4. Len(q) - 1 \in 1 .. Len(q) - 1 /\ (Len(q) - 1) + 1 = Len(q) /\ Len(q) - 1 # 0
  BY ONLY <1>1, <1>3
<1>5. Tail(q)[Len(q) - 1] = q[(Len(q) - 1) + 1]
  BY <1>2, <1>4
<1>6. Tail(q) # <<>>
  BY <1>2, <1>4
<1> QED
  BY <1>2, <1>4, <1>5, <1>6

LEMMA InitFlush == Init => FlushInv
BY DEF Init, FlushInv, DrainInv, HolderInv, FreshInv, AbandonedInv, FlushingInv, Awaiting, Thread, Home

LEMMA EndingClientFlush ==
  ASSUME ClientInv, FlushInv, NEW t \in Thread, Ending(t)
  PROVE  FlushInv'
<1> USE DEF ClientInv, TypeOK, PendingInv, CancelInv, FlushInv, DrainInv, HolderInv, FreshInv,
       AbandonedInv, Failing, FlushingInv, flags, waits, calls, history, Goto, Home, Awaiting,
       Thread, Label, Pending, PkgType, AckType, Place
<1>1. CASE SendReturns(t)
  <2>1. DrainInv'
    BY <1>1 DEF SendReturns, LeaveLoop
  <2>2. HolderInv'
    BY <1>1 DEF SendReturns, LeaveLoop
  <2>3. AbandonedInv'
    BY <1>1 DEF SendReturns, LeaveLoop
  <2>4. FlushingInv'
    BY <1>1 DEF SendReturns, LeaveLoop
  <2>5. FreshInv'
    BY <1>1 DEF SendReturns, LeaveLoop
  <2> QED
    BY <2>1, <2>2, <2>3, <2>4, <2>5
<1>2. CASE SendTimesOut(t)
  <2>1. DrainInv'
    BY <1>2 DEF SendTimesOut, LeaveLoop
  <2>2. HolderInv'
    BY <1>2 DEF SendTimesOut, LeaveLoop
  <2>3. AbandonedInv'
    BY <1>2 DEF SendTimesOut, LeaveLoop
  <2>4. FlushingInv'
    BY <1>2 DEF SendTimesOut, LeaveLoop
  <2>5. FreshInv'
    BY <1>2 DEF SendTimesOut, LeaveLoop
  <2> QED
    BY <2>1, <2>2, <2>3, <2>4, <2>5
<1>3. CASE EndFlags(t)
  <2>1. DrainInv'
    BY <1>3 DEF EndFlags, Move
  <2>2. HolderInv'
    BY <1>3 DEF EndFlags, Move
  <2>3. AbandonedInv'
    BY <1>3 DEF EndFlags, Move
  <2>4. FlushingInv'
    BY <1>3 DEF EndFlags, Move
  <2>5. FreshInv'
    BY <1>3 DEF EndFlags, Move
  <2> QED
    BY <2>1, <2>2, <2>3, <2>4, <2>5
<1>4. CASE Drain(t)
  <2>1. DrainInv'
    BY <1>4 DEF Drain
  <2>2. HolderInv'
    BY <1>4 DEF Drain
  <2>3. AbandonedInv'
    BY <1>4 DEF Drain
  <2>4. FlushingInv'
    BY <1>4 DEF Drain
  <2>5. FreshInv'
    BY <1>4 DEF Drain
  <2> QED
    BY <2>1, <2>2, <2>3, <2>4, <2>5
<1>5. CASE DrainTake(t)
  <2>1. DrainInv'
    BY <1>5 DEF DrainTake, Move
  <2>2. HolderInv'
    BY <1>5 DEF DrainTake, Move
  <2>3. AbandonedInv'
    BY <1>5 DEF DrainTake, Move
  <2>4. FlushingInv'
    BY <1>5 DEF DrainTake, Move
  <2>5. FreshInv'
    BY <1>5 DEF DrainTake, Move
  <2> QED
    BY <2>1, <2>2, <2>3, <2>4, <2>5
<1>6. CASE Caught(t)
  <2>1. DrainInv'
    BY <1>6 DEF Caught, Move
  <2>2. HolderInv'
    BY <1>6 DEF Caught, Move
  <2>3. AbandonedInv'
    BY <1>6 DEF Caught, Move
  <2>4. FlushingInv'
    BY <1>6 DEF Caught, Move
  <2>5. FreshInv'
    BY <1>6 DEF Caught, Move
  <2> QED
    BY <2>1, <2>2, <2>3, <2>4, <2>5
<1>7. CASE CheckConnected(t)
  <2>1. DrainInv'
    BY <1>7 DEF CheckConnected
  <2>2. HolderInv'
    BY <1>7 DEF CheckConnected
  <2>3. AbandonedInv'
    BY <1>7 DEF CheckConnected
  <2>4. FlushingInv'
    BY <1>7 DEF CheckConnected
  <2>5. FreshInv'
    BY <1>7 DEF CheckConnected
  <2> QED
    BY <2>1, <2>2, <2>3, <2>4, <2>5
<1>8. CASE QueueEnd(t)
  <2>1. DrainInv'
    BY <1>8 DEF QueueEnd, Move
  <2>2. HolderInv'
    BY <1>8 DEF QueueEnd, Move
  <2>3. AbandonedInv'
    BY <1>8 DEF QueueEnd, Move
  <2>4. FlushingInv'
    BY <1>8 DEF QueueEnd, Move
  <2>5. FreshInv'
    BY <1>8 DEF QueueEnd, Move
  <2> QED
    BY <2>1, <2>2, <2>3, <2>4, <2>5
<1>9. CASE SkipQueue(t)
  <2>1. DrainInv'
    BY <1>9 DEF SkipQueue
  <2>2. HolderInv'
    BY <1>9 DEF SkipQueue
  <2>3. AbandonedInv'
    BY <1>9 DEF SkipQueue
  <2>4. FlushingInv'
    BY <1>9 DEF SkipQueue
  <2>5. FreshInv'
    BY <1>9 DEF SkipQueue
  <2> QED
    BY <2>1, <2>2, <2>3, <2>4, <2>5
<1>10. CASE Flushed(t)
  <2>1. DrainInv'
    BY <1>10 DEF Flushed, Move
  <2>2. HolderInv'
    BY <1>10 DEF Flushed, Move
  <2>3. AbandonedInv'
    BY <1>10 DEF Flushed, Move
  <2>4. FlushingInv'
    BY <1>10 DEF Flushed, Move
  <2>5. FreshInv'
    BY <1>10 DEF Flushed, Move
  <2> QED
    BY <2>1, <2>2, <2>3, <2>4, <2>5
<1>11. CASE SendLeave(t)
  <2>1. DrainInv'
    BY <1>11 DEF SendLeave, Move, StartSend
  <2>2. HolderInv'
    BY <1>11 DEF SendLeave, Move, StartSend
  <2>3. AbandonedInv'
    BY <1>11 DEF SendLeave, Move, StartSend
  <2>4. FlushingInv'
    BY <1>11 DEF SendLeave, Move, StartSend
  <2>5. FreshInv'
    BY <1>11 DEF SendLeave, Move, StartSend
  <2> QED
    BY <2>1, <2>2, <2>3, <2>4, <2>5
<1>12. CASE LeaveRaises(t)
  <2>1. DrainInv'
    BY <1>12 DEF LeaveRaises, Move
  <2>2. HolderInv'
    BY <1>12 DEF LeaveRaises, Move
  <2>3. AbandonedInv'
    BY <1>12 DEF LeaveRaises, Move
  <2>4. FlushingInv'
    BY <1>12 DEF LeaveRaises, Move
  <2>5. FreshInv'
    BY <1>12 DEF LeaveRaises, Move
  <2> QED
    BY <2>1, <2>2, <2>3, <2>4, <2>5
<1>13. CASE Linked(t)
  <2>1. DrainInv'
    BY <1>13 DEF Linked, Move
  <2>2. HolderInv'
    BY <1>13 DEF Linked, Move
  <2>3. AbandonedInv'
    BY <1>13 DEF Linked, Move
  <2>4. FlushingInv'
    BY <1>13 DEF Linked, Move
  <2>5. FreshInv'
    BY <1>13 DEF Linked, Move
  <2> QED
    BY <2>1, <2>2, <2>3, <2>4, <2>5
<1>14. CASE ResendRaises(t)
  <2>1. DrainInv'
    BY <1>14 DEF ResendRaises, LeaveLoop
  <2>2. HolderInv'
    BY <1>14 DEF ResendRaises, LeaveLoop
  <2>3. AbandonedInv'
    BY <1>14 DEF ResendRaises, LeaveLoop
  <2>4. FlushingInv'
    BY <1>14 DEF ResendRaises, LeaveLoop
  <2>5. FreshInv'
    BY <1>14 DEF ResendRaises, LeaveLoop
  <2> QED
    BY <2>1, <2>2, <2>3, <2>4, <2>5
<1> QED
  BY <1>1, <1>2, <1>3, <1>4, <1>5, <1>6, <1>7, <1>8, <1>9, <1>10, <1>11, <1>12, <1>13, <1>14 DEF Ending

LEMMA AppClientFlush ==
  ASSUME ClientInv, FlushInv,
         AppCalls \/ ConnectGoes \/ ConnectRaises \/ PollOver \/ ConnectReturns \/ SendPut
  PROVE  FlushInv'
<1> USE DEF ClientInv, TypeOK, PendingInv, CancelInv, FlushInv, DrainInv, HolderInv, FreshInv,
       AbandonedInv, Failing, FlushingInv, flags, waits, calls, history, Goto, Home, Awaiting,
       Thread, Label, Pending, PkgType, AckType, Place
<1>1. CASE Connect
  <2>1. DrainInv'
    BY <1>1 DEF Connect, Move
  <2>2. HolderInv'
    BY <1>1 DEF Connect, Move
  <2>3. AbandonedInv'
    BY <1>1 DEF Connect, Move
  <2>4. FlushingInv'
    BY <1>1 DEF Connect, Move
  <2>5. FreshInv'
    BY <1>1 DEF Connect, Move
  <2> QED
    BY <2>1, <2>2, <2>3, <2>4, <2>5
<1>2. CASE Send
  <2>1. DrainInv'
    BY <1>2 DEF Send, Move
  <2>2. HolderInv'
    BY <1>2 DEF Send, Move
  <2>3. AbandonedInv'
    BY <1>2 DEF Send, Move
  <2>4. FlushingInv'
    BY <1>2 DEF Send, Move
  <2>5. FreshInv'
    BY <1>2 DEF Send, Move
  <2> QED
    BY <2>1, <2>2, <2>3, <2>4, <2>5
<1>3. CASE Disconnect
  <2>1. DrainInv'
    BY <1>3 DEF Disconnect, Move
  <2>2. HolderInv'
    BY <1>3 DEF Disconnect, Move
  <2>3. AbandonedInv'
    BY <1>3 DEF Disconnect, Move
  <2>4. FlushingInv'
    BY <1>3 DEF Disconnect, Move
  <2>5. FreshInv'
    BY <1>3 DEF Disconnect, Move
  <2> QED
    BY <2>1, <2>2, <2>3, <2>4, <2>5
<1>4. CASE ConnectGoes
  <2>1. DrainInv'
    BY <1>4 DEF ConnectGoes
  <2>2. HolderInv'
    BY <1>4 DEF ConnectGoes
  <2>3. AbandonedInv'
    BY <1>4 DEF ConnectGoes
  <2>4. FlushingInv'
    BY <1>4 DEF ConnectGoes
  <2>5. FreshInv'
    BY <1>4 DEF ConnectGoes
  <2> QED
    BY <2>1, <2>2, <2>3, <2>4, <2>5
<1>5. CASE ConnectRaises
  <2>1. DrainInv'
    BY <1>5 DEF ConnectRaises, Move
  <2>2. HolderInv'
    BY <1>5 DEF ConnectRaises, Move
  <2>3. AbandonedInv'
    BY <1>5 DEF ConnectRaises, Move
  <2>4. FlushingInv'
    BY <1>5 DEF ConnectRaises, Move
  <2>5. FreshInv'
    BY <1>5 DEF ConnectRaises, Move
  <2> QED
    BY <2>1, <2>2, <2>3, <2>4, <2>5
<1>6. CASE PollOver
  <2>1. DrainInv'
    BY <1>6 DEF PollOver, Move
  <2>2. HolderInv'
    BY <1>6 DEF PollOver, Move
  <2>3. AbandonedInv'
    BY <1>6 DEF PollOver, Move
  <2>4. FlushingInv'
    BY <1>6 DEF PollOver, Move
  <2>5. FreshInv'
    BY <1>6 DEF PollOver, Move
  <2> QED
    BY <2>1, <2>2, <2>3, <2>4, <2>5
<1>7. CASE ConnectReturns
  <2>1. DrainInv'
    BY <1>7 DEF ConnectReturns, Move
  <2>2. HolderInv'
    BY <1>7 DEF ConnectReturns, Move
  <2>3. AbandonedInv'
    BY <1>7 DEF ConnectReturns, Move
  <2>4. FlushingInv'
    BY <1>7 DEF ConnectReturns, Move
  <2>5. FreshInv'
    BY <1>7 DEF ConnectReturns, Move
  <2> QED
    BY <2>1, <2>2, <2>3, <2>4, <2>5
<1>8. CASE SendPut
  <2>1. DrainInv'
    BY <1>8 DEF SendPut, Move
  <2>2. HolderInv'
    BY <1>8 DEF SendPut, Move
  <2>3. AbandonedInv'
    BY <1>8 DEF SendPut, Move
  <2>4. FlushingInv'
    BY <1>8 DEF SendPut, Move
  <2>5. FreshInv'
    BY <1>8 DEF SendPut, Move
  <2> QED
    BY <2>1, <2>2, <2>3, <2>4, <2>5
<1> QED
  BY <1>1, <1>2, <1>3, <1>4, <1>5, <1>6, <1>7, <1>8 DEF AppCalls

LEMMA SendThreadClientFlush ==
  ASSUME ClientInv, FlushInv,
         SendTop \/ SendLook \/ SendIdle \/ SendGet \/ SendStart \/ SendRaises
  PROVE  FlushInv'
<1> USE DEF ClientInv, TypeOK, PendingInv, CancelInv, FlushInv, DrainInv, HolderInv, FreshInv,
       AbandonedInv, Failing, FlushingInv, flags, waits, calls, history, Goto, Home, Awaiting,
       Thread, Label, Pending, PkgType, AckType, Place
<1>1. CASE SendTop
  <2>1. DrainInv'
    BY <1>1 DEF SendTop
  <2>2. HolderInv'
    BY <1>1 DEF SendTop
  <2>3. AbandonedInv'
    BY <1>1 DEF SendTop
  <2>4. FlushingInv'
    BY <1>1 DEF SendTop
  <2>5. FreshInv'
    BY <1>1 DEF SendTop
  <2> QED
    BY <2>1, <2>2, <2>3, <2>4, <2>5
<1>2. CASE SendLook
  <2>1. DrainInv'
    BY <1>2 DEF SendLook, Move
  <2>2. HolderInv'
    BY <1>2 DEF SendLook, Move
  <2>3. AbandonedInv'
    BY <1>2 DEF SendLook, Move
  <2>4. FlushingInv'
    BY <1>2 DEF SendLook, Move
  <2>5. FreshInv'
    BY <1>2 DEF SendLook, Move
  <2> QED
    BY <2>1, <2>2, <2>3, <2>4, <2>5
<1>3. CASE SendIdle
  <2>1. DrainInv'
    BY <1>3 DEF SendIdle, Move
  <2>2. HolderInv'
    BY <1>3 DEF SendIdle, Move
  <2>3. AbandonedInv'
    BY <1>3 DEF SendIdle, Move
  <2>4. FlushingInv'
    BY <1>3 DEF SendIdle, Move
  <2>5. FreshInv'
    BY <1>3 DEF SendIdle, Move
  <2> QED
    BY <2>1, <2>2, <2>3, <2>4, <2>5
<1>4. CASE SendGet
  <2>1. DrainInv'
    BY <1>4 DEF SendGet, Move
  <2>2. HolderInv'
    BY <1>4 DEF SendGet, Move
  <2>3. AbandonedInv'
    BY <1>4 DEF SendGet, Move
  <2>4. FlushingInv'
    <3> SUFFICES ASSUME pc["app"] = "flush", ~stop
                 PROVE  IF queue' = <<>>
                        THEN ~abandoned /\ pending'["snd"].type # "DAT"
                        ELSE queue'[Len(queue')] = "END"
      BY <1>4 DEF SendGet, Move
    <3>1. /\ queue # <<>> /\ queue \in Seq(PkgType) /\ queue' = Tail(queue)
          /\ queue[Len(queue)] = "END" /\ ~abandoned
          /\ pending'["snd"].type = Head(queue)
      BY <1>4 DEF SendGet, Move
    <3>2. CASE Len(queue) = 1
      BY <3>1, <3>2
    <3>3. CASE Len(queue) # 1
      BY <3>1, <3>3, TailKeepsLast
    <3> QED
      BY <3>2, <3>3
  <2>5. FreshInv'
    BY <1>4 DEF SendGet, Move
  <2> QED
    BY <2>1, <2>2, <2>3, <2>4, <2>5
<1>5. CASE SendStart
  <2>1. DrainInv'
    BY <1>5 DEF SendStart, StartSend
  <2>2. HolderInv'
    BY <1>5 DEF SendStart, StartSend
  <2>3. AbandonedInv'
    BY <1>5 DEF SendStart, StartSend
  <2>4. FlushingInv'
    BY <1>5 DEF SendStart, StartSend
  <2>5. FreshInv'
    BY <1>5 DEF SendStart, StartSend
  <2> QED
    BY <2>1, <2>2, <2>3, <2>4, <2>5
<1>6. CASE SendRaises
  <2>1. DrainInv'
    BY <1>6 DEF SendRaises, Move
  <2>2. HolderInv'
    BY <1>6 DEF SendRaises, Move
  <2>3. AbandonedInv'
    BY <1>6 DEF SendRaises, Move
  <2>4. FlushingInv'
    BY <1>6 DEF SendRaises, Move
  <2>5. FreshInv'
    BY <1>6 DEF SendRaises, Move
  <2> QED
    BY <2>1, <2>2, <2>3, <2>4, <2>5
<1> QED
  BY <1>1, <1>2, <1>3, <1>4, <1>5, <1>6

LEMMA ReceiveThreadClientFlush ==
  ASSUME ClientInv, FlushInv,
         Datagram \/ ReceiveTop \/ HandleCon \/ HandleLink \/ HandleEnd \/ HandleVersion
  PROVE  FlushInv'
<1> USE DEF ClientInv, TypeOK, PendingInv, CancelInv, FlushInv, DrainInv, HolderInv, FreshInv,
       AbandonedInv, Failing, FlushingInv, flags, waits, calls, history, Goto, Home, Awaiting,
       Thread, Label, Pending, PkgType, AckType, Place
<1>1. CASE ReceiveTop
  <2>1. DrainInv'
    BY <1>1 DEF ReceiveTop
  <2>2. HolderInv'
    BY <1>1 DEF ReceiveTop
  <2>3. AbandonedInv'
    BY <1>1 DEF ReceiveTop
  <2>4. FlushingInv'
    BY <1>1 DEF ReceiveTop
  <2>5. FreshInv'
    BY <1>1 DEF ReceiveTop
  <2> QED
    BY <2>1, <2>2, <2>3, <2>4, <2>5
<1>2. CASE ReceiveStray
  <2>1. DrainInv'
    BY <1>2 DEF ReceiveStray, Move
  <2>2. HolderInv'
    BY <1>2 DEF ReceiveStray, Move
  <2>3. AbandonedInv'
    BY <1>2 DEF ReceiveStray, Move
  <2>4. FlushingInv'
    BY <1>2 DEF ReceiveStray, Move
  <2>5. FreshInv'
    BY <1>2 DEF ReceiveStray, Move
  <2> QED
    BY <2>1, <2>2, <2>3, <2>4, <2>5
<1>3. CASE ReceiveAck
  <2>1. DrainInv'
    BY <1>3 DEF ReceiveAck, Move, FromDest
  <2>2. HolderInv'
    BY <1>3 DEF ReceiveAck, Move, FromDest
  <2>3. AbandonedInv'
    BY <1>3 DEF ReceiveAck, Move, FromDest
  <2>4. FlushingInv'
    BY <1>3 DEF ReceiveAck, Move, FromDest
  <2>5. FreshInv'
    BY <1>3 DEF ReceiveAck, Move, FromDest
  <2> QED
    BY <2>1, <2>2, <2>3, <2>4, <2>5
<1>4. CASE ReceivePlain
  <2>1. DrainInv'
    BY <1>4 DEF ReceivePlain, Move, FromDest
  <2>2. HolderInv'
    BY <1>4 DEF ReceivePlain, Move, FromDest
  <2>3. AbandonedInv'
    BY <1>4 DEF ReceivePlain, Move, FromDest
  <2>4. FlushingInv'
    BY <1>4 DEF ReceivePlain, Move, FromDest
  <2>5. FreshInv'
    BY <1>4 DEF ReceivePlain, Move, FromDest
  <2> QED
    BY <2>1, <2>2, <2>3, <2>4, <2>5
<1>5. CASE ReceiveData
  <2>1. DrainInv'
    BY <1>5 DEF ReceiveData, Move, FromDest
  <2>2. HolderInv'
    BY <1>5 DEF ReceiveData, Move, FromDest
  <2>3. AbandonedInv'
    BY <1>5 DEF ReceiveData, Move, FromDest
  <2>4. FlushingInv'
    BY <1>5 DEF ReceiveData, Move, FromDest
  <2>5. FreshInv'
    BY <1>5 DEF ReceiveData, Move, FromDest
  <2> QED
    BY <2>1, <2>2, <2>3, <2>4, <2>5
<1>6. CASE ReceiveCon
  <2>1. DrainInv'
    BY <1>6 DEF ReceiveCon, Move, FromDest
  <2>2. HolderInv'
    BY <1>6 DEF ReceiveCon, Move, FromDest
  <2>3. AbandonedInv'
    BY <1>6 DEF ReceiveCon, Move, FromDest
  <2>4. FlushingInv'
    BY <1>6 DEF ReceiveCon, Move, FromDest
  <2>5. FreshInv'
    BY <1>6 DEF ReceiveCon, Move, FromDest
  <2> QED
    BY <2>1, <2>2, <2>3, <2>4, <2>5
<1>7. CASE ReceiveEnd
  <2>1. DrainInv'
    BY <1>7 DEF ReceiveEnd, Move, FromDest
  <2>2. HolderInv'
    BY <1>7 DEF ReceiveEnd, Move, FromDest
  <2>3. AbandonedInv'
    BY <1>7 DEF ReceiveEnd, Move, FromDest
  <2>4. FlushingInv'
    BY <1>7 DEF ReceiveEnd, Move, FromDest
  <2>5. FreshInv'
    BY <1>7 DEF ReceiveEnd, Move, FromDest
  <2> QED
    BY <2>1, <2>2, <2>3, <2>4, <2>5
<1>8. CASE ReceiveOtherVersion
  <2>1. DrainInv'
    BY <1>8 DEF ReceiveOtherVersion, Move, FromDest
  <2>2. HolderInv'
    BY <1>8 DEF ReceiveOtherVersion, Move, FromDest
  <2>3. AbandonedInv'
    BY <1>8 DEF ReceiveOtherVersion, Move, FromDest
  <2>4. FlushingInv'
    BY <1>8 DEF ReceiveOtherVersion, Move, FromDest
  <2>5. FreshInv'
    BY <1>8 DEF ReceiveOtherVersion, Move, FromDest
  <2> QED
    BY <2>1, <2>2, <2>3, <2>4, <2>5
<1>9. CASE ReceiveRaises
  <2>1. DrainInv'
    BY <1>9 DEF ReceiveRaises, Move, FromDest
  <2>2. HolderInv'
    BY <1>9 DEF ReceiveRaises, Move, FromDest
  <2>3. AbandonedInv'
    BY <1>9 DEF ReceiveRaises, Move, FromDest
  <2>4. FlushingInv'
    BY <1>9 DEF ReceiveRaises, Move, FromDest
  <2>5. FreshInv'
    BY <1>9 DEF ReceiveRaises, Move, FromDest
  <2> QED
    BY <2>1, <2>2, <2>3, <2>4, <2>5
<1>10. CASE HandleCon
  <2>1. DrainInv'
    BY <1>10 DEF HandleCon
  <2>2. HolderInv'
    BY <1>10 DEF HandleCon
  <2>3. AbandonedInv'
    BY <1>10 DEF HandleCon
  <2>4. FlushingInv'
    BY <1>10 DEF HandleCon
  <2>5. FreshInv'
    BY <1>10 DEF HandleCon
  <2> QED
    BY <2>1, <2>2, <2>3, <2>4, <2>5
<1>11. CASE HandleLink
  <2>1. DrainInv'
    BY <1>11 DEF HandleLink, Move
  <2>2. HolderInv'
    BY <1>11 DEF HandleLink, Move
  <2>3. AbandonedInv'
    BY <1>11 DEF HandleLink, Move
  <2>4. FlushingInv'
    BY <1>11 DEF HandleLink, Move
  <2>5. FreshInv'
    BY <1>11 DEF HandleLink, Move
  <2> QED
    BY <2>1, <2>2, <2>3, <2>4, <2>5
<1>12. CASE HandleEnd
  <2>1. DrainInv'
    BY <1>12 DEF HandleEnd, Move
  <2>2. HolderInv'
    BY <1>12 DEF HandleEnd, Move
  <2>3. AbandonedInv'
    BY <1>12 DEF HandleEnd, Move
  <2>4. FlushingInv'
    BY <1>12 DEF HandleEnd, Move
  <2>5. FreshInv'
    BY <1>12 DEF HandleEnd, Move
  <2> QED
    BY <2>1, <2>2, <2>3, <2>4, <2>5
<1>13. CASE HandleVersion
  <2>1. DrainInv'
    BY <1>13 DEF HandleVersion, Move, StartSend
  <2>2. HolderInv'
    BY <1>13 DEF HandleVersion, Move, StartSend
  <2>3. AbandonedInv'
    BY <1>13 DEF HandleVersion, Move, StartSend
  <2>4. FlushingInv'
    BY <1>13 DEF HandleVersion, Move, StartSend
  <2>5. FreshInv'
    BY <1>13 DEF HandleVersion, Move, StartSend
  <2> QED
    BY <2>1, <2>2, <2>3, <2>4, <2>5
<1> QED
  BY <1>1, <1>2, <1>3, <1>4, <1>5, <1>6, <1>7, <1>8, <1>9, <1>10, <1>11, <1>12, <1>13 DEF Datagram

LEMMA StepFlush ==
  ASSUME ClientInv, FlushInv, [Next]_vars
  PROVE  FlushInv'
<1>1. CASE AppCalls \/ AppGoesOn
  BY <1>1, AppClientFlush, EndingClientFlush DEF AppGoesOn, Thread
<1>2. CASE SendThread
  BY <1>2, SendThreadClientFlush, EndingClientFlush DEF SendThread, Thread
<1>3. CASE Datagram \/ ReceiveGoesOn
  BY <1>3, ReceiveThreadClientFlush, EndingClientFlush DEF ReceiveGoesOn, Thread
<1>4. CASE UNCHANGED vars
  BY <1>4 DEF vars, flags, waits, calls, history, FlushInv, DrainInv, HolderInv, FreshInv,
     AbandonedInv, Failing, FlushingInv
<1> QED
  BY <1>1, <1>2, <1>3, <1>4 DEF Next

-----------------------------------------------------------------------------
(* Who may empty the queue: the send thread itself, or a thread that has   *)
(* set _stop_all_threads.                                                  *)

GetKept ==
  /\ stop => stop'
  /\ pc'["snd"] = "get" => stop' \/ queue' # <<>> \/ (queue = <<>> /\ pc["snd"] = "get")

LEMMA AppKeepsGet ==
  ASSUME ClientInv, AppCalls \/ (AppGoesOn /\ ~Ending("app"))
  PROVE  GetKept
<1>0. queue \in Seq(PkgType) /\ pc \in [Thread -> Label]
  BY DEF ClientInv, TypeOK
<1>1. \A type \in PkgType : Append(queue, type) # <<>>
  BY <1>0
<1>2. CASE Connect \/ Send \/ Disconnect \/ ConnectRaises \/ PollOver \/ ConnectReturns
  <2>1. UNCHANGED <<stop, queue>>
    BY <1>2 DEF Connect, Send, Disconnect, ConnectRaises, PollOver, ConnectReturns, flags
  <2>2. \E l \in Label : pc' = [pc EXCEPT !["app"] = l]
    BY <1>2 DEF Connect, Send, Disconnect, ConnectRaises, PollOver, ConnectReturns, Move, Goto, Label
  <2>3. pc'["snd"] = pc["snd"]
    BY <1>0, <2>2 DEF Thread
  <2> QED
    BY <2>1, <2>3 DEF GetKept
<1>3. CASE ConnectGoes
  <2>1. queue' = Append(queue, "CON") /\ stop' = stop
    BY <1>3 DEF ConnectGoes, flags
  <2> QED
    BY <1>1, <2>1 DEF GetKept, PkgType, AckType
<1>4. CASE SendPut
  <2>1. stop' = stop /\ \E type \in PkgType : queue' = Append(queue, type)
    BY <1>4 DEF SendPut, flags, PkgType, AckType
  <2> QED
    BY <1>1, <2>1 DEF GetKept
<1> QED
  BY <1>2, <1>3, <1>4 DEF AppCalls, AppGoesOn

LEMMA SendThreadKeepsGet ==
  ASSUME ClientInv, SendThread, ~Ending("snd")
  PROVE  GetKept
<1>0. pc \in [Thread -> Label] /\ "snd" \in Thread
  BY DEF ClientInv, TypeOK, Thread
<1> USE DEF Move, Goto, flags, GetKept
<1>1. CASE SendTop
  BY <1>0, <1>1 DEF SendTop
<1>2. CASE SendLook
  BY <1>0, <1>2 DEF SendLook
<1>3. CASE SendIdle
  BY <1>0, <1>3 DEF SendIdle
<1>4. CASE SendGet
  BY <1>0, <1>4 DEF SendGet
<1>5. CASE SendStart
  BY <1>0, <1>5 DEF SendStart
<1>6. CASE SendRaises
  BY <1>0, <1>6 DEF SendRaises
<1> QED
  BY <1>1, <1>2, <1>3, <1>4, <1>5, <1>6 DEF SendThread

LEMMA ReceiveThreadKeepsGet ==
  ASSUME ClientInv, Datagram \/ (ReceiveGoesOn /\ ~Ending("rcv"))
  PROVE  GetKept
<1>0. pc \in [Thread -> Label]
  BY DEF ClientInv, TypeOK
<1>1. UNCHANGED <<stop, queue>>
  BY DEF Datagram, ReceiveGoesOn, ReceiveStray, ReceiveAck, ReceivePlain, ReceiveData, ReceiveCon,
     ReceiveEnd, ReceiveOtherVersion, ReceiveRaises, ReceiveTop, HandleCon, HandleLink, HandleEnd,
     HandleVersion, FromDest, flags
<1>2. \E l \in Label : pc' = [pc EXCEPT !["rcv"] = l]
  BY DEF Datagram, ReceiveGoesOn, ReceiveStray, ReceiveAck, ReceivePlain, ReceiveData, ReceiveCon,
     ReceiveEnd, ReceiveOtherVersion, ReceiveRaises, ReceiveTop, HandleCon, HandleLink, HandleEnd,
     HandleVersion, FromDest, Move, Goto, Label
<1>3. pc'["snd"] = pc["snd"]
  BY <1>0, <1>2 DEF Thread
<1> QED
  BY <1>1, <1>3 DEF GetKept

\* Of the steps of disconnect and _end_connection one takes from the queue.
LEMMA EndingKeepsGet ==
  ASSUME ClientInv, FlushInv, NEW t \in Thread, Ending(t)
  PROVE  GetKept
<1>0. pc \in [Thread -> Label] /\ next \in [Thread -> {"idle", "top", "caught", "dead"}]
  BY DEF ClientInv, TypeOK
<1>1. CASE DrainTake(t)
  <2>1. stop /\ stop' = stop
    BY <1>1 DEF DrainTake, Move, FlushInv, DrainInv, flags
  <2> QED
    BY <2>1 DEF GetKept
<1>2. CASE ~DrainTake(t)
  <2>1. stop => stop'
    BY <1>2 DEF Ending, SendReturns, SendTimesOut, ResendRaises, LeaveLoop, EndFlags, Drain,
       Caught, CheckConnected,
       Linked, QueueEnd, SkipQueue, Flushed, SendLeave, LeaveRaises, flags
  <2>2. queue' = queue \/ queue' = Append(queue, "END")
    BY <1>2 DEF Ending, SendReturns, SendTimesOut, ResendRaises, LeaveLoop, EndFlags, Drain,
       Caught, CheckConnected,
       Linked, QueueEnd, SkipQueue, Flushed, SendLeave, LeaveRaises
  <2>3. Append(queue, "END") # <<>>
    BY DEF ClientInv, TypeOK, PkgType, AckType
  <2>4. \E l \in Label \ {"get"} : pc' = [pc EXCEPT ![t] = l]
    BY <1>0, <1>2 DEF Ending, SendReturns, SendTimesOut, ResendRaises, LeaveLoop, EndFlags,
       Drain, Caught,
       CheckConnected, Linked, QueueEnd, SkipQueue, Flushed, SendLeave, LeaveRaises, Move, Goto, Label, Awaiting
  <2>5. pc'["snd"] = "get" => pc["snd"] = "get"
    BY <1>0, <2>4
  <2> QED
    BY <2>1, <2>2, <2>3, <2>5 DEF GetKept
<1> QED
  BY <1>1, <1>2

LEMMA StepBlocks ==
  ASSUME ClientInv, FlushInv, BlocksOnlyAtEnd, [Next]_vars
  PROVE  BlocksOnlyAtEnd'
<1>1. GetKept
  <2>1. CASE UNCHANGED vars
    BY <2>1 DEF vars, flags, GetKept
  <2> QED
    BY <2>1, AppKeepsGet, SendThreadKeepsGet, ReceiveThreadKeepsGet, EndingKeepsGet
    DEF Next, Thread, AppGoesOn, SendThread, ReceiveGoesOn
<1>2. DrainInv'
  BY StepFlush DEF FlushInv
<1> QED
  BY <1>1, <1>2 DEF GetKept, DrainInv, BlocksOnlyAtEnd
-----------------------------------------------------------------------------
\* The invariant behind the results: a thread in _send_pkg has a package,
\* and what cancels a package also stops the threads for good.
THEOREM ClientInvariant == Spec => []ClientInv
BY InitClient, StepClient, PTL DEF Spec

\* The types of PunchlineClient.
THEOREM ClientTypeCorrect == Spec => []TypeOK
<1>1. ClientInv => TypeOK
  BY DEF ClientInv
<1> QED
  BY <1>1, ClientInvariant, PTL

\* A data package given up, by cancellation, by timeout or by an error of sendto, is the
\* last one of its connection, however often the client connects and whatever it sends.
THEOREM DataGivenUpIsLast == Spec => []NothingFollowsGivenUp
<1>1. ClientInv /\ FlushInv /\ [Next]_vars => FlushInv'
  BY StepFlush
<1>2. FlushInv => NothingFollowsGivenUp
  BY DEF FlushInv, AbandonedInv, Failing, NothingFollowsGivenUp
<1> QED
  BY <1>1, <1>2, InitFlush, ClientInvariant, PTL DEF Spec

\* The data of a client that connects once goes to the other client, never to the
\* server, though flags and destination change under the threads.
THEOREM DataGoesToPeerOnce ==
  ASSUME MaxConnects <= 1
  PROVE  Spec => []DataGoesToPeer
<1>1. ClientInv /\ DestInv /\ [Next]_vars => DestInv'
  BY StepDest
<1>2. DestInv => DataGoesToPeer
  BY DEF DestInv
<1> QED
  BY <1>1, <1>2, InitDest, ClientInvariant, PTL DEF Spec

\* disconnect() ends the connection only when the other client has acknowledged all
\* data that was queued before, whatever the other threads do, unless one of them
\* has ended the connection.
THEOREM DisconnectFlushesData == Spec => DisconnectFlushes
<1>1. ClientInv /\ FlushInv /\ [Next]_vars => FlushInv'
  BY StepFlush
<1>2. FlushInv /\ [Next]_vars =>
        [Flushed("app") /\ ~stop =>
           /\ ~abandoned
           /\ ~(pc["snd"] \in {"send", "awaitSend"} /\ pending["snd"].type = "DAT")]_vars
  BY DEF FlushInv, FlushingInv, Flushed, Move
<1> QED
  BY <1>1, <1>2, InitFlush, ClientInvariant, PTL DEF Spec, DisconnectFlushes

\* Only _end_connection takes packages from under the send thread, and it has set
\* _stop_all_threads before: get() blocks in no connection that goes on.
THEOREM GetBlocksOnlyAtEnd == Spec => []BlocksOnlyAtEnd
<1>1. Init => BlocksOnlyAtEnd
  BY DEF Init, BlocksOnlyAtEnd, Thread
<1>2. ClientInv /\ FlushInv /\ BlocksOnlyAtEnd /\ [Next]_vars => BlocksOnlyAtEnd'
  BY StepBlocks, StepFlush
<1>3. ClientInv /\ FlushInv /\ [Next]_vars => FlushInv'
  BY StepFlush
<1> QED
  BY <1>1, <1>2, <1>3, InitFlush, ClientInvariant, PTL DEF Spec
==============================================================================
