--------------------------- MODULE PunchlineClient ---------------------------
(***************************************************************************)
(* One PunchlineClient object and its three threads: the application that  *)
(* calls it, its send thread and its receive thread, which share its flags *)
(* and _out_pkg_queue without a lock, and all of which may run disconnect  *)
(* and _end_connection.  The server and the other client are modelled by   *)
(* the datagrams they may send in each phase.  Resend counts and package   *)
(* bytes are in Transport: here a package is its type, its way through     *)
(* _send_pkg ends with an ack, a cancellation, a TimeoutError, or an       *)
(* OSError that a sendto raises.                                           *)
(***************************************************************************)
EXTENDS Naturals, Sequences

CONSTANTS
  MaxConnects,  \* bound: calls of connect_async
  MaxData,      \* bound: calls of send
  None

ASSUME ClientAssumption ==
  /\ MaxConnects \in Nat /\ MaxData \in Nat
  /\ None \notin {"server", "peer"}

\* DAT stands for JDT and FAF for JFF, which differ in their decoding only.
AckType == {"CON", "DAT", "END"}
PkgType == AckType \cup {"FAF"}
Place == {"server", "peer"}
Pending == [type : PkgType, to : Place \cup {None}]

Thread == {"app", "snd", "rcv"}
Label == {"none", "idle", "resolve", "poll", "judge", "put", "top", "look", "get", "send", "recv",
          "con", "link", "ended", "version", "caught", "dead",
          "check", "choose", "putEnd", "flush", "leave", "end", "drain", "take",
          "awaitSend", "awaitLeave", "awaitVersion"}

VARIABLES
  pc,           \* where each thread is
  next,         \* where each thread goes on after _end_connection
  pending,      \* the package each thread passes to _send_pkg
  acked,        \* threads whose package's hash is in _ack_hash_list
  stop,         \* _stop_all_threads
  connecting,   \* _connecting
  connected,    \* _connected_to_other_client
  cancel,       \* _cancel_send_pkg
  dest,         \* _destination_address_port
  queue,        \* _out_pkg_queue
  error,        \* in_thread_error_queue is not empty
  asked,        \* history: a CON was sent to the server
  abandoned,    \* history: _send_pkg gave up a data package without an ack or at its sendto
  connects, data    \* calls of connect_async and send so far

flags == <<stop, connecting, connected, cancel>>
waits == <<pending, acked>>
calls == <<connects, data>>
history == <<asked, abandoned>>
vars == <<pc, next, waits, flags, dest, queue, error, history, calls>>

TypeOK ==
  /\ pc \in [Thread -> Label]
  /\ next \in [Thread -> {"idle", "top", "caught", "dead"}]
  /\ pending \in [Thread -> Pending \cup {None}]
  /\ acked \subseteq Thread
  /\ stop \in BOOLEAN /\ connecting \in BOOLEAN
  /\ connected \in BOOLEAN /\ cancel \in BOOLEAN
  /\ dest \in Place \cup {None}
  /\ queue \in Seq(PkgType)
  /\ error \in BOOLEAN /\ asked \in BOOLEAN /\ abandoned \in BOOLEAN
  /\ connects \in 0 .. MaxConnects /\ data \in 0 .. MaxData

\* Where a thread is when disconnect has returned.
Home(t) == IF t = "app" THEN "idle" ELSE "top"

Init ==
  /\ pc = [t \in Thread |-> IF t = "app" THEN "idle" ELSE "none"]
  /\ next = [t \in Thread |-> Home(t)]
  /\ pending = [t \in Thread |-> None]
  /\ acked = {}
  /\ stop = FALSE /\ connecting = FALSE /\ connected = FALSE /\ cancel = FALSE
  /\ dest = None
  /\ queue = <<>>
  /\ error = FALSE
  /\ asked = FALSE /\ abandoned = FALSE
  /\ connects = 0 /\ data = 0

Goto(t, l) == pc' = [pc EXCEPT ![t] = l]
Move(t, l, m) == pc[t] = l /\ Goto(t, m)
-----------------------------------------------------------------------------
(* _send_pkg.  Whichever thread calls it, it resets the cancel flag of all. *)

\* The first sendto and the reset.
StartSend(t, type) ==
  /\ pending' = [pending EXCEPT ![t] = [type |-> type, to |-> dest]]
  /\ acked' = acked \ {t}
  /\ cancel' = FALSE

Awaiting == {"awaitSend", "awaitLeave", "awaitVersion"}

\* The thread is done with its package.
LeaveLoop(t) ==
  /\ pc[t] \in Awaiting
  /\ pending' = [pending EXCEPT ![t] = None]
  /\ acked' = acked \ {t}
  /\ abandoned' = (abandoned \/ (pending[t].type = "DAT" /\ t \notin acked))
  /\ UNCHANGED <<flags, dest, queue, error, asked, calls>>

\* The loop is left because of an ack or a cancellation.
SendReturns(t) ==
  /\ LeaveLoop(t)
  /\ cancel \/ t \in acked
  /\ Goto(t, CASE pc[t] = "awaitSend" -> "top"
               [] pc[t] = "awaitLeave" -> "end"
               [] pc[t] = "awaitVersion" -> "caught")
  /\ next' = [next EXCEPT ![t] = Home(t)]

\* Mutant: the TimeoutError is ignored, as the server does.
SendTimesOutIgnored(t) ==
  /\ LeaveLoop(t)
  /\ Goto(t, Home(t))
  /\ UNCHANGED next

\* The TimeoutError of _send_pkg: _end_connection, then raised again.  Raised by
\* disconnect, it reaches the application or kills the thread.
SendTimesOut(t) ==
  /\ LeaveLoop(t)
  /\ Goto(t, "end")
  /\ next' = [next EXCEPT ![t] = IF pc[t] # "awaitLeave" THEN "caught"
                                 ELSE IF t = "app" THEN "idle" ELSE "dead"]

\* The sendto of a resend raises, which calls no _end_connection.  Raised in
\* disconnect, it reaches the application or kills the thread.
ResendRaises(t) ==
  /\ LeaveLoop(t)
  /\ Goto(t, IF pc[t] # "awaitLeave" THEN "caught" ELSE IF t = "app" THEN "idle" ELSE "dead")
  /\ UNCHANGED next
-----------------------------------------------------------------------------
(* _end_connection.                                                        *)

\* Mutant: the threads are not told to stop before the queue is cleared.
EndFlagsRunning(t) ==
  /\ Move(t, "end", "drain")
  /\ cancel' = TRUE
  /\ connecting' = FALSE /\ connected' = FALSE
  /\ UNCHANGED <<next, waits, stop, dest, queue, error, history, calls>>

EndFlags(t) ==
  /\ Move(t, "end", "drain")
  /\ stop' = TRUE /\ cancel' = TRUE
  /\ connecting' = FALSE /\ connected' = FALSE
  /\ UNCHANGED <<next, waits, dest, queue, error, history, calls>>

\* while not empty(): get().  The get blocks if another thread was faster.
Drain(t) ==
  /\ pc[t] = "drain"
  /\ Goto(t, IF queue = <<>> THEN next[t] ELSE "take")
  /\ UNCHANGED <<next, waits, flags, dest, queue, error, history, calls>>

DrainTake(t) ==
  /\ Move(t, "take", "drain")
  /\ queue # <<>>
  /\ queue' = Tail(queue)
  /\ UNCHANGED <<next, waits, flags, dest, error, history, calls>>
-----------------------------------------------------------------------------
(* disconnect, called by the application or by a thread's except clause.   *)

Caught(t) ==
  /\ Move(t, "caught", "check")
  /\ error' = TRUE
  /\ UNCHANGED <<next, waits, flags, dest, queue, history, calls>>

CheckConnected(t) ==
  /\ pc[t] = "check"
  /\ Goto(t, IF connected \/ connecting THEN "choose" ELSE "end")
  /\ next' = [next EXCEPT ![t] = Home(t)]
  /\ UNCHANGED <<waits, flags, dest, queue, error, history, calls>>

Linked(t) ==
  /\ Move(t, "choose", "putEnd")
  /\ connected
  /\ UNCHANGED <<next, waits, flags, dest, queue, error, history, calls>>

\* By now another thread may have ended the connection and cleared the queue.
QueueEnd(t) ==
  /\ Move(t, "putEnd", "flush")
  /\ queue' = Append(queue, "END")
  /\ UNCHANGED <<next, waits, flags, dest, error, history, calls>>

\* Not linked (any more): tell the server, unless everything has ended meanwhile.
SkipQueue(t) ==
  /\ pc[t] = "choose"
  /\ ~connected
  /\ Goto(t, IF connecting THEN "leave" ELSE "end")
  /\ UNCHANGED <<next, waits, flags, dest, queue, error, history, calls>>

\* Mutant: disconnect does not wait for the queue.
FlushedAtOnce(t) ==
  /\ Move(t, "flush", "end")
  /\ UNCHANGED <<next, waits, flags, dest, queue, error, history, calls>>

\* while get_send_progress() > 0: sleep
Flushed(t) ==
  /\ Move(t, "flush", "end")
  /\ queue = <<>>
  /\ UNCHANGED <<next, waits, flags, dest, queue, error, history, calls>>

SendLeave(t) ==
  /\ Move(t, "leave", "awaitLeave")
  /\ dest # None
  /\ StartSend(t, "END")
  /\ UNCHANGED <<next, stop, connecting, connected, dest, queue, error, history, calls>>

\* sendto raises: the flags stay as they are, a thread dies in its except clause.
LeaveRaises(t) ==
  /\ Move(t, "leave", IF t = "app" THEN "idle" ELSE "dead")
  /\ UNCHANGED <<next, waits, flags, dest, queue, error, history, calls>>

Ending(t) ==
  \/ SendReturns(t) \/ SendTimesOut(t) \/ ResendRaises(t)
  \/ EndFlags(t) \/ Drain(t) \/ DrainTake(t)
  \/ Caught(t) \/ CheckConnected(t) \/ Linked(t) \/ QueueEnd(t) \/ SkipQueue(t)
  \/ Flushed(t) \/ SendLeave(t) \/ LeaveRaises(t)
-----------------------------------------------------------------------------
(* The application.                                                        *)

Connect ==
  /\ Move("app", "idle", "resolve")
  /\ connects < MaxConnects /\ connects' = connects + 1
  /\ ~connected /\ ~connecting
  /\ connecting' = TRUE
  /\ UNCHANGED <<next, waits, stop, connected, cancel, dest, queue, error, history, data>>

\* The server is known: start both threads and queue the CON.  A thread of an
\* earlier connection may still run; the new one stops at once then, as stop is set.
\* connect_async returns here, connect goes on to poll.
ConnectGoes ==
  /\ pc["app"] = "resolve"
  /\ \E label \in {"idle", "poll"} :
       pc' = [t \in Thread |-> IF t = "app" THEN label
                               ELSE IF pc[t] \in {"none", "dead"} THEN "top" ELSE pc[t]]
  /\ dest' = "server"
  /\ queue' = Append(queue, "CON")
  /\ UNCHANGED <<next, waits, flags, error, history, calls>>

\* The list of servers cannot be had: connect_async raises.
ConnectRaises ==
  /\ Move("app", "resolve", "idle")
  /\ UNCHANGED <<next, waits, flags, dest, queue, error, history, calls>>

\* connect: while is_connecting(): sleep
PollOver ==
  /\ Move("app", "poll", "judge")
  /\ ~connecting
  /\ UNCHANGED <<next, waits, flags, dest, queue, error, history, calls>>

\* connect returns True, or raises: the error it takes from the queue, which may
\* not be the last one there, or an error that says nothing when it finds none.
ConnectReturns ==
  /\ Move("app", "judge", "idle")
  /\ IF connected /\ ~connecting THEN UNCHANGED error ELSE error' \in {FALSE, error}
  /\ UNCHANGED <<next, waits, flags, dest, queue, history, calls>>

\* Mutant: sending is allowed before the link is up.
SendWhileConnecting ==
  /\ Move("app", "idle", "put")
  /\ connected \/ connecting
  /\ data < MaxData /\ data' = data + 1
  /\ UNCHANGED <<next, waits, flags, dest, queue, error, history, connects>>

Send ==
  /\ Move("app", "idle", "put")
  /\ connected /\ ~connecting
  /\ data < MaxData /\ data' = data + 1
  /\ UNCHANGED <<next, waits, flags, dest, queue, error, history, connects>>

SendPut ==
  /\ Move("app", "put", "idle")
  /\ \E type \in {"DAT", "FAF"} : queue' = Append(queue, type)
  /\ UNCHANGED <<next, waits, flags, dest, error, history, calls>>

Disconnect ==
  /\ Move("app", "idle", "check")
  /\ UNCHANGED <<next, waits, flags, dest, queue, error, history, calls>>

\* What the application does of its own accord, and what it has begun.
AppCalls == Connect \/ Send \/ Disconnect
AppGoesOn ==
  ConnectGoes \/ ConnectRaises \/ PollOver \/ ConnectReturns \/ SendPut \/ Ending("app")
-----------------------------------------------------------------------------
(* The send thread.                                                        *)

\* Mutant: the thread ends on the cancel flag, which the next _send_pkg resets.
SendTopByCancel ==
  /\ pc["snd"] = "top"
  /\ Goto("snd", IF cancel THEN "dead" ELSE "look")
  /\ UNCHANGED <<next, waits, flags, dest, queue, error, history, calls>>

SendTop ==
  /\ pc["snd"] = "top"
  /\ Goto("snd", IF stop THEN "dead" ELSE "look")
  /\ UNCHANGED <<next, waits, flags, dest, queue, error, history, calls>>

SendLook ==
  /\ Move("snd", "look", "get")
  /\ queue # <<>>
  /\ UNCHANGED <<next, waits, flags, dest, queue, error, history, calls>>

\* Nothing to send: a keepalive if it is time for one, whose sendto may raise.
SendIdle ==
  /\ queue = <<>>
  /\ \/ Move("snd", "look", "top") /\ cancel' \in {cancel, FALSE}
     \/ Move("snd", "look", "caught") /\ UNCHANGED cancel
  /\ UNCHANGED <<next, waits, stop, connecting, connected, dest, queue, error, history, calls>>

\* get() blocks while the queue is empty.  The destination is read when it is sent.
SendGet ==
  /\ Move("snd", "get", "send")
  /\ queue # <<>>
  /\ pending' = [pending EXCEPT !["snd"] = [type |-> Head(queue), to |-> None]]
  /\ queue' = Tail(queue)
  /\ UNCHANGED <<next, acked, flags, dest, error, history, calls>>

SendStart ==
  /\ pc["snd"] = "send"
  /\ LET type == pending["snd"].type
     IN /\ StartSend("snd", type)
        /\ Goto("snd", IF type \in AckType THEN "awaitSend" ELSE "top")
        /\ asked' = (asked \/ (type = "CON" /\ dest = "server"))
  /\ UNCHANGED <<next, stop, connecting, connected, dest, queue, error, abandoned, calls>>

\* The first sendto raises: the package taken from the queue is gone.
SendRaises ==
  /\ Move("snd", "send", "caught")
  /\ abandoned' = (abandoned \/ pending["snd"].type = "DAT")
  /\ UNCHANGED <<next, waits, flags, dest, queue, error, asked, calls>>

SendThread ==
  SendTop \/ SendLook \/ SendIdle \/ SendGet \/ SendStart \/ SendRaises \/ Ending("snd")
-----------------------------------------------------------------------------
(* The receive thread.                                                     *)

ReceiveTop ==
  /\ pc["rcv"] = "top"
  /\ Goto("rcv", IF stop THEN "dead" ELSE "recv")
  /\ UNCHANGED <<next, waits, flags, dest, queue, error, history, calls>>

\* A datagram from an address other than dest: ignored.
ReceiveStray ==
  /\ Move("rcv", "recv", "top")
  /\ UNCHANGED <<next, waits, flags, dest, queue, error, history, calls>>

\* A datagram from dest: the first one after the link ends the connecting phase.
FromDest(l) ==
  /\ Move("rcv", "recv", l)
  /\ dest # None
  /\ connecting' = (connecting /\ ~connected)
  /\ UNCHANGED <<next, stop, connected, dest, queue, error, history, calls>>

\* The ack of a package that was sent to the address that is now dest.
ReceiveAck ==
  /\ FromDest("top")
  /\ \E t \in Thread :
       /\ pc[t] \in Awaiting /\ pending[t].to = dest
       /\ acked' = acked \cup {t}
  /\ UNCHANGED <<pending, cancel>>

\* KAL, FAF or JFF: no ack is returned.
ReceivePlain ==
  /\ FromDest("top")
  /\ dest = "peer"
  /\ UNCHANGED <<waits, cancel>>

\* DAT or JDT of the other client, or a repetition of any package that is
\* acknowledged; the ack goes out through _send_pkg.
ReceiveData ==
  /\ FromDest("top")
  /\ dest = "peer"
  /\ cancel' = FALSE
  /\ UNCHANGED waits

\* The server answers a CON; sending the ack resets the cancel flag.
ReceiveCon ==
  /\ FromDest("con")
  /\ dest = "server" /\ asked
  /\ cancel' = FALSE
  /\ UNCHANGED waits

ReceiveEnd ==
  /\ FromDest("ended")
  /\ dest = "peer" \/ asked
  /\ cancel' = FALSE
  /\ UNCHANGED waits

ReceiveOtherVersion ==
  /\ FromDest("version")
  /\ dest = "peer" \/ asked
  /\ UNCHANGED <<waits, cancel>>

\* The sendto of the ack, or the decoding of the data, raises.
ReceiveRaises ==
  /\ FromDest("caught")
  /\ dest = "peer" \/ asked
  /\ UNCHANGED <<waits, cancel>>

\* Mutant: the data of the package is taken for an address as it is.
HandleConUnparsed ==
  /\ pc["rcv"] = "con"
  /\ Goto("rcv", IF connected THEN "top" ELSE "link")
  /\ dest' = IF connected THEN dest ELSE "bytes"
  /\ UNCHANGED <<next, waits, flags, queue, error, history, calls>>

\* The address changes first, then the link is up.
HandleCon ==
  /\ pc["rcv"] = "con"
  /\ Goto("rcv", IF connected THEN "top" ELSE "link")
  /\ dest' = IF connected THEN dest ELSE "peer"
  /\ UNCHANGED <<next, waits, flags, queue, error, history, calls>>

\* The link is up, then a first keepalive is sent to the other client.
HandleLink ==
  /\ connected' = TRUE
  /\ \/ Move("rcv", "link", "top") /\ cancel' = FALSE
     \/ Move("rcv", "link", "caught") /\ UNCHANGED cancel
  /\ UNCHANGED <<next, waits, stop, connecting, dest, queue, error, history, calls>>

\* Mutant: the error is raised before the connection is ended.
HandleEndRaisesFirst ==
  /\ Move("rcv", "ended", IF connecting /\ ~connected THEN "caught" ELSE "end")
  /\ next' = [next EXCEPT !["rcv"] = "top"]
  /\ UNCHANGED <<waits, flags, dest, queue, error, history, calls>>

\* END: an answer to the CON raises a TimeoutError once the connection is ended.
HandleEnd ==
  /\ Move("rcv", "ended", "end")
  /\ next' = [next EXCEPT !["rcv"] = IF connecting /\ ~connected THEN "caught" ELSE "top"]
  /\ UNCHANGED <<waits, flags, dest, queue, error, history, calls>>

\* A VersionError is answered with an END, whose ack only this thread could receive.
HandleVersion ==
  /\ \/ Move("rcv", "version", "awaitVersion") /\ StartSend("rcv", "END")
     \/ Move("rcv", "version", "caught") /\ UNCHANGED <<waits, cancel>>
  /\ UNCHANGED <<next, stop, connecting, connected, dest, queue, error, history, calls>>

Datagram ==
  \/ ReceiveStray \/ ReceiveAck \/ ReceivePlain \/ ReceiveData
  \/ ReceiveCon \/ ReceiveEnd \/ ReceiveOtherVersion \/ ReceiveRaises
ReceiveGoesOn ==
  ReceiveTop \/ HandleCon \/ HandleLink \/ HandleEnd \/ HandleVersion \/ Ending("rcv")
-----------------------------------------------------------------------------
Next == AppCalls \/ AppGoesOn \/ SendThread \/ Datagram \/ ReceiveGoesOn

Spec == Init /\ [][Next]_vars

\* Every thread that can go on does.  The application need not call anything, and
\* no datagram need arrive.
FairSpec ==
  /\ Spec
  /\ WF_vars(AppGoesOn) /\ WF_vars(SendThread) /\ WF_vars(ReceiveGoesOn)
-----------------------------------------------------------------------------
\* A data package that _send_pkg gives up is the last one of its connection, whether it
\* was cancelled, timed out, or its sendto raised (_send_pkg, _send_pkg_thread_func):
\* while the connection goes on, the send thread sends and takes nothing more.
NothingFollowsGivenUp ==
  abandoned => stop \/ pc["snd"] \notin {"top", "look", "get", "send", "awaitSend"}

\* What send() queues goes to the other client, never to the server, although the
\* destination and the flags change under the threads (send, _send_pkg_thread_func).
DataGoesToPeer ==
  \A t \in Thread : pc[t] = "awaitSend" /\ pending[t].type = "DAT" => pending[t].to = "peer"

\* A thread that found the queue not empty and then blocks in get(), because another
\* one was faster, does so only when the connection has ended (_send_pkg_thread_func,
\* _end_connection): get() never holds up a connection that goes on.
BlocksOnlyAtEnd ==
  queue = <<>> /\ (pc["snd"] = "get" \/ \E t \in Thread : pc[t] = "take") => stop

\* disconnect() of a linked client waits for its data: when it stops waiting while
\* the connection lasts, every data package before its END has been acknowledged.
DisconnectFlushes ==
  [][Flushed("app") /\ ~stop =>
       /\ ~abandoned
       /\ ~(pc["snd"] \in {"send", "awaitSend"} /\ pending["snd"].type = "DAT")]_vars

\* _end_connection stops the send thread for good, however cancellations are overwritten and
\* packages queued meanwhile (_send_pkg_thread_func): it ends, or it blocks for ever,
\* in get() of a queue that another thread has emptied, or in disconnect() with an END
\* that it would have to take itself.
EndStopsSender ==
  stop ~> [](\/ pc["snd"] \in {"none", "dead"}
             \/ pc["snd"] \in {"get", "take"} /\ queue = <<>>
             \/ pc["snd"] = "flush" /\ queue # <<>>)

\* The server's END is never lost on a client that is connecting: is_connecting()
\* becomes false, however the other threads interfere (_handle_received_pkg).
EndEndsConnecting == pc["rcv"] = "ended" /\ connecting ~> ~connecting

\* The CON that a call of connect_async has queued is sent, or cleared with the
\* connection, and the call was not in vain.
ConGoesOut == (\E i \in 1 .. Len(queue) : queue[i] = "CON") ~> (\A i \in 1 .. Len(queue) : queue[i] # "CON")

\* disconnect() returns.
DisconnectReturns == pc["app"] = "check" ~> pc["app"] = "idle"
=============================================================================
