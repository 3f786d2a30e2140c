------------------------------ MODULE Messages ------------------------------
(***************************************************************************)
(* The data of one direction of an established connection: send() cuts it  *)
(* into chunks and queues them, the send thread passes them one by one to  *)
(* _send_pkg, the other client's receive thread collects the chunks and    *)
(* queues the assembled data for receive().  Acknowledged packages travel  *)
(* on a ReliableLink, which Transport implements; FAF and JFF packages are *)
(* plain datagrams.  JDT stands for DAT and JFF for FAF.                   *)
(***************************************************************************)
EXTENDS Naturals, Sequences, SequencesExt

CONSTANTS
  MaxChunks,    \* bound: chunks of one message
  MaxMessages,  \* bound: calls of send() that ask for acknowledgement
  MaxFaf,       \* bound: calls of send() with fire_and_forget
  MaxWaiting,   \* bound: data waiting for receive() when a FAF arrives
  None

\* A chunk stands for its bytes: the part of message msg that id parts follow.  In
\* a FAF or END, msg is the number of messages that were queued before it.
Chunk == [type : {"DAT"}, msg : 1 .. MaxMessages, id : 0 .. MaxChunks - 1]
Single == [type : {"FAF", "END"}, msg : 0 .. MaxMessages, id : {0}]
Faf == {p \in Single : p.type = "FAF"}
AckPackage == Chunk \cup {p \in Single : p.type = "END"}
Package == Chunk \cup Single

ASSUME MessagesAssumption ==
  /\ MaxChunks \in Nat \ {0} /\ MaxMessages \in Nat /\ MaxFaf \in Nat /\ MaxWaiting \in Nat
  /\ None \notin Nat /\ None \notin Chunk

VARIABLES
  todo,         \* chunks of the message send() is queueing
  queue,        \* _out_pkg_queue
  ending,       \* a thread other than the send thread is in disconnect()
  flushing,     \* None, or the messages queued ahead of the END it waits for
  stop,         \* _stop_all_threads of the sending client
  snd,          \* its send thread, see TypeOK
  offered, accepted, confirmed,   \* the link, see ReliableLink
  air,          \* FAF packages on their way
  collection,   \* _current_data_collection of the receiving client, slot 0 first
  lastId,       \* _current_data_collection_last_id
  rcv,          \* its state, see TypeOK
  inData,       \* _in_data_queue
  sent,         \* history: the chunks of each message given to send()
  arrived,      \* history: messages assembled before the receiving client left
  fafs          \* calls of send() with fire_and_forget so far

writer == <<todo, sent, fafs>>
sender == <<ending, flushing, stop, snd>>
link == <<offered, accepted, confirmed>>
collector == <<collection, lastId>>
receiver == <<collector, rcv, inData, arrived>>
vars == <<writer, queue, sender, link, air, receiver>>

TypeOK ==
  /\ todo \in Seq(Chunk) /\ sent \in Seq(Seq(Chunk)) /\ fafs \in 0 .. MaxFaf
  /\ queue \in Seq(Package)
  /\ ending \in BOOLEAN /\ flushing \in 0 .. MaxMessages \cup {None} /\ stop \in BOOLEAN
  \* in its loop; before get(); in _send_pkg; in its except clause, at the two steps
  \* of its own disconnect(); returned
  /\ snd \in {"top", "get", "wait", "caught", "putEnd", "flush", "dead"}
  /\ offered \in Seq(AckPackage) /\ accepted \in Seq(AckPackage) /\ confirmed \in Nat
  /\ air \subseteq Faf
  /\ collection \in Seq(Chunk \cup {None}) /\ Len(collection) <= MaxChunks
  /\ lastId \in 0 .. MaxChunks - 1 \cup {None}
  \* connected; in disconnect() of its own; after the END of the sending client;
  \* after the end of its own disconnect() or an exception in its receive thread
  /\ rcv \in {"up", "leaving", "ended", "gone"}
  /\ inData \in Seq(Seq(Chunk \cup Faf)) /\ arrived \in Seq(Seq(Chunk))

Init ==
  /\ todo = <<>> /\ sent = <<>> /\ fafs = 0
  /\ queue = <<>>
  /\ ending = FALSE /\ flushing = None /\ stop = FALSE
  /\ snd = "top"
  /\ offered = <<>> /\ accepted = <<>> /\ confirmed = 0
  /\ air = {}
  /\ collection = <<>> /\ lastId = None
  /\ rcv = "up"
  /\ inData = <<>> /\ arrived = <<>>

Link == INSTANCE ReliableLink WITH Package <- AckPackage
-----------------------------------------------------------------------------
(* The application of the sending client.                                  *)

\* Mutant: the sequence ids end at 1.
ChunksFromOne(m, n) == [i \in 1 .. n |-> [type |-> "DAT", msg |-> m, id |-> n - i + 1]]

\* Sequence ids count down, the last chunk has id 0.
Chunks(m, n) == [i \in 1 .. n |-> [type |-> "DAT", msg |-> m, id |-> n - i]]

\* send(): is the connection up, and into how many chunks is the data cut?  Data
\* of length 0 is cut into none, which queues nothing and is no step.
Send ==
  /\ todo = <<>>
  /\ ~stop
  /\ Len(sent) < MaxMessages
  /\ \E n \in 1 .. MaxChunks : todo' = Chunks(Len(sent) + 1, n)
  /\ sent' = Append(sent, todo')
  /\ UNCHANGED <<fafs, queue, sender, link, air, receiver>>

\* One turn of the loop of _append_data_packages; other threads come in between.
PutChunk ==
  /\ todo # <<>>
  /\ queue' = Append(queue, Head(todo))
  /\ todo' = Tail(todo)
  /\ UNCHANGED <<sent, fafs, sender, link, air, receiver>>

FafPackage == [type |-> "FAF", msg |-> Len(sent), id |-> 0]

\* Mutant: a fire-and-forget package goes ahead of what is queued.
SendFafAhead ==
  /\ todo = <<>>
  /\ ~stop
  /\ fafs < MaxFaf
  /\ fafs' = fafs + 1
  /\ queue' = <<FafPackage>> \o queue
  /\ UNCHANGED <<todo, sent, sender, link, air, receiver>>

SendFaf ==
  /\ todo = <<>>
  /\ ~stop
  /\ fafs < MaxFaf
  /\ fafs' = fafs + 1
  /\ queue' = Append(queue, FafPackage)
  /\ UNCHANGED <<todo, sent, sender, link, air, receiver>>
-----------------------------------------------------------------------------
(* The end of the connection.                                              *)

EndPackage ==
  [type |-> "END", msg |-> IF todo = <<>> THEN Len(sent) ELSE Len(sent) - 1, id |-> 0]

\* disconnect() of the application or, while send() is at work, of the receive thread
\* that caught an exception: the connection is up, so its END is to be queued.
Disconnect ==
  /\ ~ending /\ ~stop
  /\ ending' = TRUE
  /\ UNCHANGED <<writer, queue, flushing, stop, snd, link, air, receiver>>

\* By now another thread may have ended the connection; nobody takes this END then.
QueueEnd ==
  /\ ending /\ flushing = None
  /\ queue' = Append(queue, EndPackage)
  /\ flushing' = EndPackage.msg
  /\ UNCHANGED <<writer, ending, stop, snd, link, air, receiver>>

\* _end_connection; what send() queues afterwards stays in the queue.
EndConnection ==
  /\ stop' = TRUE
  /\ queue' = <<>>

\* Mutant: disconnect() does not wait.
FlushedAtOnce ==
  /\ flushing # None /\ ~stop
  /\ EndConnection
  /\ UNCHANGED <<writer, ending, flushing, snd, link, air, receiver>>

\* while get_send_progress() > 0: sleep
Flushed ==
  /\ flushing # None /\ queue = <<>> /\ ~stop
  /\ EndConnection
  /\ UNCHANGED <<writer, ending, flushing, snd, link, air, receiver>>

\* The receiving client calls disconnect(), and its END arrives.
Leave ==
  /\ rcv = "up"
  /\ rcv' = "leaving"
  /\ UNCHANGED <<writer, queue, sender, link, air, collector, inData, arrived>>

HearEnd ==
  /\ rcv \in {"leaving", "gone"} /\ ~stop
  /\ EndConnection
  /\ UNCHANGED <<writer, ending, flushing, snd, link, air, receiver>>

\* Its receive thread finds _stop_all_threads set.
Left ==
  /\ rcv = "leaving"
  /\ rcv' = "gone"
  /\ UNCHANGED <<writer, queue, sender, link, air, collector, inData, arrived>>
-----------------------------------------------------------------------------
(* The send thread.                                                        *)


Look ==
  /\ snd = "top" /\ ~stop
  /\ queue # <<>>
  /\ snd' = "get"
  /\ UNCHANGED <<writer, queue, ending, flushing, stop, link, air, receiver>>

\* get() and the first sendto of _send_pkg.  get() blocks on a queue that
\* _end_connection has cleared, until another package is queued.
Get ==
  /\ snd = "get"
  /\ queue # <<>>
  /\ queue' = Tail(queue)
  /\ \/ /\ Head(queue).type = "FAF"
        /\ air' = air \cup {Head(queue)}
        /\ snd' = "top"
        /\ UNCHANGED link
     \/ /\ Head(queue).type # "FAF"
        /\ Link!Offer /\ offered' = Append(offered, Head(queue))
        /\ snd' = "wait"
        /\ UNCHANGED air
  /\ UNCHANGED <<writer, ending, flushing, stop, receiver>>

\* The first sendto raises an OSError: the package taken from the queue is gone.
GetRaises ==
  /\ snd = "get"
  /\ queue # <<>>
  /\ queue' = Tail(queue)
  /\ snd' = "caught"
  /\ UNCHANGED <<writer, ending, flushing, stop, link, air, receiver>>

\* So does the sendto of a keepalive.
KeepaliveRaises ==
  /\ snd = "top" /\ ~stop
  /\ queue = <<>>
  /\ snd' = "caught"
  /\ UNCHANGED <<writer, queue, ending, flushing, stop, link, air, receiver>>

Acked ==
  /\ snd = "wait"
  /\ Link!Confirm
  /\ snd' = "top"
  /\ UNCHANGED <<writer, queue, ending, flushing, stop, air, receiver>>

\* The connection was ended by another thread.
Cancelled ==
  /\ snd = "wait" /\ stop
  /\ snd' = "top"
  /\ UNCHANGED <<writer, queue, ending, flushing, stop, link, air, receiver>>

\* The sendto of a resend raises an OSError.
ResendRaises ==
  /\ snd = "wait"
  /\ snd' = "caught"
  /\ UNCHANGED <<writer, queue, ending, flushing, stop, link, air, receiver>>

\* Mutant: the send thread goes on after a TimeoutError.
TimesOutIgnored ==
  /\ snd = "wait"
  /\ Link!Confirm \/ UNCHANGED link
  /\ snd' = "top"
  /\ UNCHANGED <<writer, queue, ending, flushing, stop, air, receiver>>

\* The last resend is not answered, or too late to count.
TimesOut ==
  /\ snd = "wait"
  /\ Link!Confirm \/ UNCHANGED link
  /\ EndConnection
  /\ snd' = "caught"
  /\ UNCHANGED <<writer, ending, flushing, air, receiver>>

StopSending ==
  /\ snd = "top" /\ stop
  /\ snd' = "dead"
  /\ UNCHANGED <<writer, queue, ending, flushing, stop, link, air, receiver>>

\* Mutant: the exception is only logged.
CaughtIgnored ==
  /\ snd = "caught"
  /\ snd' = "top"
  /\ UNCHANGED <<writer, queue, ending, flushing, stop, link, air, receiver>>

\* The except clause: disconnect(), which ends a connection that is over once more.
CaughtDisconnects ==
  /\ snd = "caught"
  /\ IF stop
       THEN snd' = "top" /\ EndConnection
       ELSE snd' = "putEnd" /\ UNCHANGED <<queue, stop>>
  /\ UNCHANGED <<writer, ending, flushing, link, air, receiver>>

CaughtQueuesEnd ==
  /\ snd = "putEnd"
  /\ queue' = Append(queue, EndPackage)
  /\ snd' = "flush"
  /\ UNCHANGED <<writer, ending, flushing, stop, link, air, receiver>>

\* It is the thread that empties the queue, so it waits until another one clears it.
CaughtFlushed ==
  /\ snd = "flush" /\ queue = <<>>
  /\ EndConnection
  /\ snd' = "top"
  /\ UNCHANGED <<writer, ending, flushing, link, air, receiver>>

SendThread ==
  \/ Look \/ Get \/ GetRaises \/ KeepaliveRaises
  \/ Acked \/ Cancelled \/ ResendRaises \/ TimesOut
  \/ CaughtDisconnects \/ CaughtQueuesEnd \/ CaughtFlushed
  \/ StopSending
-----------------------------------------------------------------------------
(* The receive thread and the application of the receiving client.         *)

Receiving == rcv \in {"up", "leaving"}

\* None and 0 are both false: the last transmission was done.
StartsAfresh == lastId \in {None, 0}

\* The package the receive thread is about to handle.
Arriving == offered[Len(accepted) + 1]

\* Mutant: a chunk that continues the data gets the slot below its own.
CollectedBelow(p) ==
  IF ~StartsAfresh /\ p.id <= lastId
  THEN [collection EXCEPT ![p.id] = p]
  ELSE [i \in 1 .. p.id + 1 |-> IF i = p.id + 1 THEN p ELSE None]

\* _current_data_collection once p has its slot: a chunk that continues the data
\* is put into the collection, any other one starts a new collection.
Collected(p) ==
  IF ~StartsAfresh /\ p.id <= lastId
  THEN [collection EXCEPT ![p.id + 1] = p]
  ELSE [i \in 1 .. p.id + 1 |-> IF i = p.id + 1 THEN p ELSE None]

Complete(c) == \A i \in DOMAIN c : c[i] # None

\* Mutant: the chunks are joined in the order of their slots.
AssembledBySlot(p) == Collected(p)

\* b''.join(collection[::-1]): the highest sequence id comes first.
Assembled(p) == Reverse(Collected(p))

\* A chunk with others to come.
ReceiveChunk ==
  /\ Receiving
  /\ Link!Accept
  /\ Arriving.type = "DAT" /\ Arriving.id > 0
  /\ collection' = Collected(Arriving)
  /\ lastId' = Arriving.id
  /\ UNCHANGED <<writer, queue, sender, air, rcv, inData, arrived>>

\* The last chunk.  The collection is dropped; the last id stays 0, which counts
\* as none.
ReceiveLastChunk ==
  /\ Receiving
  /\ Link!Accept
  /\ Arriving.type = "DAT" /\ Arriving.id = 0
  /\ Complete(Collected(Arriving))
  /\ inData' = Append(inData, Assembled(Arriving))
  /\ arrived' = IF rcv = "up" THEN Append(arrived, Assembled(Arriving)) ELSE arrived
  /\ collection' = <<>>
  /\ lastId' = 0
  /\ UNCHANGED <<writer, queue, sender, air, rcv>>

\* The last chunk of data with a part missing: join raises a TypeError, upon which
\* the receive thread calls disconnect().
ReceiveRaises ==
  /\ Receiving
  /\ Link!Accept
  /\ Arriving.type = "DAT" /\ Arriving.id = 0
  /\ ~Complete(Collected(Arriving))
  /\ collection' = Collected(Arriving)
  /\ lastId' = 0
  /\ rcv' = "gone"
  /\ UNCHANGED <<writer, queue, sender, air, inData, arrived>>

ReceiveEnd ==
  /\ Receiving
  /\ Link!Accept
  /\ Arriving.type = "END"
  /\ rcv' = IF rcv = "up" THEN "ended" ELSE "gone"
  /\ UNCHANGED <<writer, queue, sender, air, collector, inData, arrived>>

\* A FAF datagram; the network may deliver it again.
ReceiveFaf ==
  /\ Receiving
  /\ Len(inData) < MaxWaiting
  /\ \E p \in air :
       /\ air' \in {air, air \ {p}}
       /\ inData' = Append(inData, <<p>>)
  /\ UNCHANGED <<writer, queue, sender, link, collector, rcv, arrived>>

LoseFaf ==
  /\ \E p \in air : air' = air \ {p}
  /\ UNCHANGED <<writer, queue, sender, link, receiver>>

\* receive(), called when the queue is not empty.
Receive ==
  /\ inData # <<>>
  /\ inData' = Tail(inData)
  /\ UNCHANGED <<writer, queue, sender, link, air, collector, rcv, arrived>>

ReceiveThread == ReceiveChunk \/ ReceiveLastChunk \/ ReceiveRaises \/ ReceiveEnd \/ ReceiveFaf
-----------------------------------------------------------------------------
Next ==
  \/ Send \/ PutChunk \/ SendFaf
  \/ Disconnect \/ QueueEnd \/ Flushed \/ Leave \/ HearEnd \/ Left
  \/ SendThread
  \/ ReceiveThread \/ LoseFaf \/ Receive

Spec == Init /\ [][Next]_vars

\* Threads that can go on do.  The link need not accept anything: then TimesOut.
FairSpec == Spec /\ WF_vars(PutChunk) /\ WF_vars(SendThread)
-----------------------------------------------------------------------------
Data == {Chunks(m, n) : m \in 1 .. MaxMessages, n \in 1 .. MaxChunks}

Messages == INSTANCE MessageQueue WITH Message <- Data

\* The data assembled from chunks is what send() was given, whole, once and in
\* order, wherever the connection ends, until the receiving client itself leaves
\* (_append_data_packages with _collect_multi_package_data).
ImplementsMessageQueue == Messages!Spec

\* Nothing overtakes an acknowledged message: when a fire-and-forget package goes
\* out, or the END of disconnect() is handled, all data queued before it has been
\* queued for receive() (send, disconnect and _send_pkg_thread_func).
EarlierDataFirst ==
  rcv \in {"up", "ended"} =>
    /\ \A p \in air : p.msg <= Len(arrived)
    /\ \A i \in 1 .. Len(accepted) : accepted[i].type = "END" => accepted[i].msg <= Len(arrived)

\* The send thread takes the next package only when all earlier ones are confirmed, so
\* that Link!Offer in Get keeps it from nothing (_send_pkg_thread_func).
OneAtATime == snd = "get" => confirmed = Len(offered)

\* The send thread is in its except clause.
Failing == snd \in {"caught", "putEnd", "flush"}

\* The chunks send() has cut that are not with the receiving client.
OnItsWay == Range(todo) \cup Range(queue) \cup {offered[i] : i \in Len(accepted) + 1 .. Len(offered)}

\* While the connection lasts no chunk is lost between the threads: every chunk of a
\* message that has not arrived is still to be queued, queued, on the link or collected.
\* Only an exception of the send thread's sendto loses a package, and after one the
\* thread sends nothing any more, so that no gap can go unnoticed
\* (_append_data_packages, _send_pkg_thread_func, _collect_multi_package_data).
NothingLost ==
  rcv \in {"up", "ended"} /\ ~stop /\ ~Failing =>
    \A m \in Len(arrived) + 1 .. Len(sent) : Range(sent[m]) \subseteq OnItsWay \cup Range(collection)

\* A client that has not called disconnect() never meets a gap among the chunks of a
\* message, which would raise a TypeError and end the connection
\* (_collect_multi_package_data).
NoGapWhileUp == [][ReceiveRaises => rcv # "up"]_vars

\* disconnect() stops waiting for its queue, while the connection lasts, only when all
\* data that send() had queued before its END is queued for the receive() of the other
\* client, even if the END itself was lost to an exception of sendto (disconnect,
\* get_send_progress).
DisconnectDelivers ==
  [][Flushed /\ rcv \in {"up", "ended"} => flushing <= Len(arrived)]_vars

=============================================================================
