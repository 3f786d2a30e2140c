--------------------------- MODULE MessagesProofs ---------------------------
(***************************************************************************)
(* Proofs about Messages, for messages of any number and length: its types *)
(* and that it implements MessageQueue; that nothing is lost while the     *)
(* connection lasts, and what disconnect() has delivered when it returns.  *)
(***************************************************************************)
EXTENDS Messages, SequenceTheorems, TLAPS

(* Chunk id of message m, and which chunks there are.                      *)
Ch(m, id) == [type |-> "DAT", msg |-> m, id |-> id]
Valid(c) == c.msg \in 1 .. Len(sent) /\ c.id < Len(sent[c.msg])

\* c comes before d in the order in which the chunks were cut.
Before(c, d) == c.msg < d.msg \/ (c.msg = d.msg /\ c.id > d.id)

\* The message the receiving client is about to complete, what it has of it, and the
\* chunk that continues it.
Now == Len(arrived) + 1
Received(c) == c.msg < Now \/ (c.msg = Now /\ ~StartsAfresh /\ c.id >= lastId)
Expected(c) ==
  /\ c.msg = Now /\ Now <= Len(sent)
  /\ c.id = IF StartsAfresh THEN Len(sent[Now]) - 1 ELSE lastId - 1

InFlight == Len(accepted) < Len(offered)

\* Until the receiving client leaves by itself.
InOrder == rcv \in {"up", "ended"}
-----------------------------------------------------------------------------
SentInv ==
  /\ Len(sent) <= MaxMessages
  /\ \A m \in 1 .. Len(sent) :
       Len(sent[m]) \in 1 .. MaxChunks /\ sent[m] = Chunks(m, Len(sent[m]))

TodoInv ==
  todo # <<>> =>
    /\ Len(sent) > 0 /\ Len(todo) <= Len(sent[Len(sent)])
    /\ \A i \in 1 .. Len(todo) : todo[i] = Ch(Len(sent), Len(todo) - i)

\* One package at a time, and none while the send thread waits for nothing.
LinkInv ==
  /\ confirmed <= Len(accepted) /\ Len(accepted) <= Len(offered)
  /\ Len(offered) <= confirmed + 1
  /\ snd = "get" \/ (snd = "top" /\ ~stop) => confirmed = Len(offered)

\* get() blocks only on a queue that was cleared because the other client left.
GetInv == snd = "get" => IF stop THEN ~InOrder ELSE queue # <<>>

TypeInv == TypeOK /\ SentInv /\ TodoInv /\ LinkInv /\ GetInv
-----------------------------------------------------------------------------
\* What was collected of the present message.
CollectionInv ==
  InOrder =>
    /\ Len(arrived) <= Len(sent)
    /\ ~StartsAfresh =>
         /\ Now <= Len(sent) /\ lastId < Len(sent[Now])
         /\ collection = [i \in 1 .. Len(sent[Now]) |-> IF i > lastId THEN Ch(Now, i - 1) ELSE None]

\* The package on its way is the one that continues what has arrived.
FlightInv ==
  InOrder /\ InFlight =>
    IF Arriving.type = "DAT" THEN Expected(Arriving) ELSE Arriving.msg <= Len(arrived)

\* The chunks in the queue, and behind them those send() still has to queue, are
\* the ones that have not been sent, in order and none missing.
OrderInv ==
  /\ \A i \in 1 .. Len(queue) : queue[i].type = "DAT" =>
       /\ Valid(queue[i]) /\ ~Received(queue[i])
       /\ \A j \in i + 1 .. Len(queue) : queue[j].type = "DAT" => Before(queue[i], queue[j])
       /\ \A j \in 1 .. Len(todo) : Before(queue[i], todo[j])
       /\ InFlight /\ Arriving.type = "DAT" => Before(Arriving, queue[i])
  /\ \A i \in 1 .. Len(todo) :
       /\ ~Received(todo[i])
       /\ InFlight /\ Arriving.type = "DAT" => Before(Arriving, todo[i])

\* Until an exception of the send thread's sendto loses a package.
CompleteInv ==
  \A c \in Chunk : Valid(c) /\ ~Received(c) =>
    \/ InFlight /\ c = Arriving
    \/ \E i \in 1 .. Len(queue) : c = queue[i]
    \/ \E i \in 1 .. Len(todo) : c = todo[i]

\* A fire-and-forget package or END is behind the chunks of earlier messages.
SingleInv ==
  \A i \in 1 .. Len(queue) : queue[i].type # "DAT" =>
    /\ queue[i].msg <= Len(sent)
    /\ \A j \in i + 1 .. Len(queue) : queue[j].type = "DAT" => queue[j].msg > queue[i].msg
    /\ todo # <<>> => queue[i].msg < Len(sent)

AheadInv == InOrder /\ ~stop => OrderInv /\ (~Failing => CompleteInv) /\ SingleInv

StreamInv == CollectionInv /\ FlightInv /\ AheadInv /\ EarlierDataFirst
-----------------------------------------------------------------------------
(* Types.                                                                  *)

USE MessagesAssumption DEF MessagesAssumption

LEMMA ChunksType ==
  ASSUME NEW m \in 1 .. MaxMessages, NEW n \in 1 .. MaxChunks
  PROVE  /\ Chunks(m, n) \in Seq(Chunk) /\ Len(Chunks(m, n)) = n
         /\ \A i \in 1 .. n : Chunks(m, n)[i] = Ch(m, n - i)
BY DEF Chunks, Chunk, Ch

LEMMA PackageTypes ==
  /\ \A p \in Package : /\ p.type \in {"DAT", "FAF", "END"} /\ p.msg \in 0 .. MaxMessages
                        /\ p.type = "DAT" => p \in Chunk /\ p.msg \in 1 .. MaxMessages
                        /\ p.type = "FAF" => p \in Faf
                        /\ p.type # "FAF" => p \in AckPackage
                        /\ p.id \in Nat
  /\ AckPackage \subseteq Package /\ Chunk \subseteq Package
  /\ \A c \in Chunk : c.type = "DAT" /\ c.id \in 0 .. MaxChunks - 1
                      /\ c.msg \in 1 .. MaxMessages /\ c = Ch(c.msg, c.id)
BY DEF Package, Chunk, Single, Faf, AckPackage, Ch

LEMMA InitTypes == Init => TypeInv
<1> SUFFICES ASSUME Init PROVE TypeInv
  OBVIOUS
<1> USE DEF Init
<1>1. /\ todo \in Seq(Chunk) /\ queue \in Seq(Package)
      /\ offered \in Seq(AckPackage) /\ accepted \in Seq(AckPackage)
      /\ collection \in Seq(Chunk \cup {None}) /\ Len(collection) = 0
      /\ Len(sent) = 0 /\ Len(offered) = 0 /\ Len(accepted) = 0
  OBVIOUS
<1>2. /\ sent \in Seq(Seq(Chunk)) /\ arrived \in Seq(Seq(Chunk))
      /\ inData \in Seq(Seq(Chunk \cup Faf))
  OBVIOUS
<1>3. TypeOK
  <2>1. fafs \in 0 .. MaxFaf /\ confirmed \in Nat
    OBVIOUS
  <2>3. ending \in BOOLEAN /\ flushing \in 0 .. MaxMessages \cup {None} /\ stop \in BOOLEAN
    OBVIOUS
  <2>4. /\ snd \in {"top", "get", "wait", "caught", "putEnd", "flush", "dead"} /\ air \subseteq Faf
        /\ lastId \in 0 .. MaxChunks - 1 \cup {None} /\ rcv \in {"up", "leaving", "ended", "gone"}
    OBVIOUS
  <2>2. Len(collection) <= MaxChunks
    BY <1>1
  <2> QED
    BY <1>1, <1>2, <2>1, <2>2, <2>3, <2>4 DEF TypeOK
<1>4. SentInv /\ TodoInv /\ LinkInv /\ GetInv
  BY <1>1 DEF SentInv, TodoInv, LinkInv, GetInv
<1> QED
  BY <1>3, <1>4 DEF TypeInv

LEMMA EndPackageType ==
  ASSUME TypeInv
  PROVE  /\ EndPackage \in Package /\ EndPackage.type = "END"
         /\ EndPackage.msg \in 0 .. MaxMessages /\ EndPackage.msg <= Len(sent)
         /\ todo # <<>> => EndPackage.msg < Len(sent)
<1> DEFINE complete == IF todo = <<>> THEN Len(sent) ELSE Len(sent) - 1
<1>1. complete \in 0 .. MaxMessages /\ complete <= Len(sent) /\ (todo # <<>> => complete < Len(sent))
  BY DEF TypeInv, TypeOK, SentInv, TodoInv
<1>2. EndPackage = [type |-> "END", msg |-> complete, id |-> 0]
  BY DEF EndPackage
<1> HIDE DEF complete
<1> QED
  BY <1>1, <1>2 DEF Package, Single

LEMMA SendingTypes ==
  ASSUME TypeInv, Send \/ PutChunk \/ SendFaf \/ QueueEnd \/ Disconnect \/ Flushed \/ Leave \/ HearEnd \/ Left
  PROVE  TypeInv'
<1> USE PackageTypes DEF TypeInv, writer, sender, link, collector, receiver
<1>1. CASE Send
  <2> DEFINE m == Len(sent) + 1
  <2>a. PICK n \in 1 .. MaxChunks : todo' = Chunks(m, n)
    BY <1>1 DEF Send
  <2>b. m \in 1 .. MaxMessages /\ sent' = Append(sent, todo')
    BY <1>1 DEF Send, TypeOK
  <2>c. /\ todo' \in Seq(Chunk) /\ Len(todo') = n
        /\ \A i \in 1 .. n : todo'[i] = Ch(m, n - i)
    BY <2>a, <2>b, ChunksType
  <2>d. /\ sent' \in Seq(Seq(Chunk)) /\ Len(sent') = m /\ sent'[m] = todo'
        /\ \A i \in 1 .. m - 1 : sent'[i] = sent[i]
    BY <2>b, <2>c, AppendProperties DEF TypeOK
  <2> HIDE DEF m
  <2>1. TypeOK'
    BY <1>1, <2>c, <2>d DEF Send, TypeOK
  <2>2. SentInv' /\ TodoInv'
    <3>1. SentInv'
      BY <2>a, <2>b, <2>c, <2>d DEF SentInv, m
    <3>2. TodoInv'
      BY <2>b, <2>c, <2>d DEF TodoInv
    <3> QED
      BY <3>1, <3>2
  <2>3. LinkInv' /\ GetInv'
    BY <1>1 DEF Send, TypeOK, LinkInv, GetInv, InOrder, Receiving
  <2> QED
    BY <2>1, <2>2, <2>3
<1>2. CASE PutChunk
  <2>1. TypeOK'
    BY <1>2 DEF PutChunk, TypeOK
  <2>a. todo # <<>> /\ todo' = Tail(todo) /\ queue' = Append(queue, Head(todo)) /\ UNCHANGED sent
    BY <1>2 DEF PutChunk
  <2>b. /\ todo' \in Seq(Chunk) /\ Len(todo') = Len(todo) - 1
        /\ \A i \in 1 .. Len(todo') : todo'[i] = todo[i + 1]
    BY <2>a, HeadTailProperties DEF TypeOK
  <2>2. SentInv' /\ TodoInv'
    <3>1. SentInv'
      BY <2>a DEF SentInv
    <3>2. TodoInv'
      <4> SUFFICES ASSUME Len(todo') > 0 PROVE TodoInv'
        BY <2>b DEF TodoInv
      <4>1. Len(todo) \in Nat /\ Len(sent[Len(sent)]) \in Nat
        BY <2>a DEF TypeOK, TodoInv
      <4> QED
        BY <2>a, <2>b, <4>1 DEF TodoInv
    <3> QED
      BY <3>1, <3>2
  <2>c. Head(todo) \in Package
    BY <2>a, HeadTailProperties DEF TypeOK
  <2>d. queue' # <<>>
    <3>1. queue' = Append(queue, Head(todo)) /\ queue \in Seq(Package)
      BY <2>a DEF TypeOK
    <3> QED
      BY <2>c, <3>1, AppendProperties
  <2>3. LinkInv' /\ GetInv'
    BY <1>2, <2>d DEF PutChunk, TypeOK, LinkInv, GetInv, InOrder, Receiving
  <2> QED
    BY <2>1, <2>2, <2>3
<1>3. CASE SendFaf
  <2>a. FafPackage \in Package
    BY DEF FafPackage, Package, Single, SentInv, TypeOK
  <2>b. queue' \in Seq(Package) /\ queue' # <<>>
    <3>1. queue' = Append(queue, FafPackage) /\ queue \in Seq(Package)
      BY <1>3 DEF SendFaf, TypeOK
    <3> QED
      BY <2>a, <3>1, AppendProperties
  <2>c. fafs' \in 0 .. MaxFaf
    BY <1>3 DEF SendFaf, TypeOK
  <2>1. TypeOK'
    BY <1>3, <2>b, <2>c DEF SendFaf, TypeOK
  <2>2. SentInv' /\ TodoInv'
    BY <1>3 DEF SendFaf, SentInv, TodoInv
  <2>3. LinkInv' /\ GetInv'
    BY <1>3, <2>b DEF SendFaf, TypeOK, LinkInv, GetInv, InOrder, Receiving
  <2> QED
    BY <2>1, <2>2, <2>3
<1>4. CASE QueueEnd
  <2>a. EndPackage \in Package /\ EndPackage.msg \in 0 .. MaxMessages
    BY EndPackageType
  <2>b. queue' = Append(queue, EndPackage) /\ flushing' = EndPackage.msg
    BY <1>4 DEF QueueEnd
  <2>c. queue' \in Seq(Package) /\ queue' # <<>>
    <3>1. queue \in Seq(Package)
      BY DEF TypeOK
    <3> HIDE DEF EndPackage
    <3> QED
      BY <2>a, <2>b, <3>1, AppendProperties
  <2>1. TypeOK'
    BY <1>4, <2>a, <2>b, <2>c DEF QueueEnd, TypeOK
  <2>2. SentInv' /\ TodoInv'
    BY <1>4 DEF QueueEnd, SentInv, TodoInv
  <2>3. LinkInv' /\ GetInv'
    BY <1>4, <2>c DEF QueueEnd, TypeOK, LinkInv, GetInv, InOrder, Receiving
  <2> QED
    BY <2>1, <2>2, <2>3
<1>9. CASE Disconnect
  <2>1. TypeOK'
    BY <1>9 DEF Disconnect, TypeOK
  <2>2. SentInv' /\ TodoInv'
    BY <1>9 DEF Disconnect, SentInv, TodoInv
  <2>3. LinkInv' /\ GetInv'
    BY <1>9 DEF Disconnect, TypeOK, LinkInv, GetInv, InOrder, Receiving
  <2> QED
    BY <2>1, <2>2, <2>3
<1>5. CASE Flushed
  <2>1. TypeOK'
    BY <1>5 DEF Flushed, EndConnection, TypeOK
  <2>2. SentInv' /\ TodoInv'
    BY <1>5 DEF Flushed, EndConnection, SentInv, TodoInv
  <2>3. LinkInv' /\ GetInv'
    BY <1>5 DEF Flushed, EndConnection, TypeOK, LinkInv, GetInv, InOrder, Receiving
  <2> QED
    BY <2>1, <2>2, <2>3
<1>6. CASE Leave
  <2>1. TypeOK'
    BY <1>6 DEF Leave, TypeOK
  <2>2. SentInv' /\ TodoInv'
    BY <1>6 DEF Leave, SentInv, TodoInv
  <2>3. LinkInv' /\ GetInv'
    BY <1>6 DEF Leave, TypeOK, LinkInv, GetInv, InOrder, Receiving
  <2> QED
    BY <2>1, <2>2, <2>3
<1>7. CASE HearEnd
  <2>1. TypeOK'
    BY <1>7 DEF HearEnd, EndConnection, TypeOK
  <2>2. SentInv' /\ TodoInv'
    BY <1>7 DEF HearEnd, EndConnection, SentInv, TodoInv
  <2>3. LinkInv' /\ GetInv'
    BY <1>7 DEF HearEnd, EndConnection, TypeOK, LinkInv, GetInv, InOrder, Receiving
  <2> QED
    BY <2>1, <2>2, <2>3
<1>8. CASE Left
  <2>1. TypeOK'
    BY <1>8 DEF Left, TypeOK
  <2>2. SentInv' /\ TodoInv'
    BY <1>8 DEF Left, SentInv, TodoInv
  <2>3. LinkInv' /\ GetInv'
    BY <1>8 DEF Left, TypeOK, LinkInv, GetInv, InOrder, Receiving
  <2> QED
    BY <2>1, <2>2, <2>3
<1> QED
  BY <1>1, <1>2, <1>3, <1>4, <1>5, <1>6, <1>7, <1>8, <1>9

LEMMA SendThreadTypes ==
  ASSUME TypeInv, Look \/ Get \/ Acked \/ Cancelled \/ TimesOut \/ StopSending
  PROVE  TypeInv'
<1> USE PackageTypes DEF TypeInv, writer, sender, link, collector, receiver
<1>1. CASE Look
  <2>1. TypeOK'
    BY <1>1 DEF Look, TypeOK
  <2>2. SentInv' /\ TodoInv'
    BY <1>1 DEF Look, SentInv, TodoInv
  <2>3. LinkInv' /\ GetInv'
    BY <1>1 DEF Look, TypeOK, LinkInv, GetInv, InOrder, Receiving
  <2> QED
    BY <2>1, <2>2, <2>3
<1>2. CASE Get
  <2>a. Head(queue) \in Package /\ queue' \in Seq(Package)
    BY <1>2, HeadTailProperties DEF Get, TypeOK
  <2>b. air' \subseteq Faf /\ snd' \in {"top", "wait"}
    BY <1>2, <2>a DEF Get, TypeOK
  <2>c. offered' \in Seq(AckPackage)
    <3>1. CASE Head(queue).type = "FAF"
      BY <1>2, <3>1 DEF Get, TypeOK
    <3>2. CASE Head(queue).type # "FAF"
      <4>1. offered' = Append(offered, Head(queue)) /\ Head(queue) \in AckPackage
        BY <1>2, <2>a, <3>2 DEF Get
      <4> QED
        BY <4>1 DEF TypeOK
    <3> QED
      BY <3>1, <3>2
  <2>d. accepted' = accepted /\ confirmed' = confirmed
    BY <1>2 DEF Get, Link!Offer
  <2>1. TypeOK'
    BY <1>2, <2>a, <2>b, <2>c, <2>d DEF Get, TypeOK
  <2>2. SentInv' /\ TodoInv'
    BY <1>2 DEF Get, Link!Offer, SentInv, TodoInv
  <2>3. LinkInv' /\ GetInv'
    BY <1>2 DEF Get, Link!Offer, TypeOK, LinkInv, GetInv, InOrder, Receiving
  <2> QED
    BY <2>1, <2>2, <2>3
<1>3. CASE Acked
  <2>1. TypeOK'
    BY <1>3 DEF Acked, Link!Confirm, TypeOK
  <2>2. SentInv' /\ TodoInv'
    BY <1>3 DEF Acked, Link!Confirm, SentInv, TodoInv
  <2>3. LinkInv' /\ GetInv'
    BY <1>3 DEF Acked, Link!Confirm, TypeOK, LinkInv, GetInv, InOrder, Receiving
  <2> QED
    BY <2>1, <2>2, <2>3
<1>4. CASE Cancelled
  <2>1. TypeOK'
    BY <1>4 DEF Cancelled, TypeOK
  <2>2. SentInv' /\ TodoInv'
    BY <1>4 DEF Cancelled, SentInv, TodoInv
  <2>3. LinkInv' /\ GetInv'
    BY <1>4 DEF Cancelled, TypeOK, LinkInv, GetInv, InOrder, Receiving
  <2> QED
    BY <2>1, <2>2, <2>3
<1>5. CASE TimesOut
  <2>1. TypeOK'
    BY <1>5 DEF TimesOut, EndConnection, Link!Confirm, TypeOK
  <2>2. SentInv' /\ TodoInv'
    BY <1>5 DEF TimesOut, EndConnection, Link!Confirm, SentInv, TodoInv
  <2>3. LinkInv' /\ GetInv'
    BY <1>5 DEF TimesOut, EndConnection, Link!Confirm, TypeOK, LinkInv, GetInv, InOrder, Receiving
  <2> QED
    BY <2>1, <2>2, <2>3
<1>6. CASE StopSending
  <2>1. TypeOK'
    BY <1>6 DEF StopSending, TypeOK
  <2>2. SentInv' /\ TodoInv'
    BY <1>6 DEF StopSending, SentInv, TodoInv
  <2>3. LinkInv' /\ GetInv'
    BY <1>6 DEF StopSending, TypeOK, LinkInv, GetInv, InOrder, Receiving
  <2> QED
    BY <2>1, <2>2, <2>3
<1> QED
  BY <1>1, <1>2, <1>3, <1>4, <1>5, <1>6

LEMMA FailingTypes ==
  ASSUME TypeInv,
         GetRaises \/ KeepaliveRaises \/ ResendRaises \/ CaughtDisconnects \/ CaughtQueuesEnd \/ CaughtFlushed
  PROVE  TypeInv'
<1> USE DEF TypeInv, writer, sender, link, collector, receiver
<1>1. CASE GetRaises
  <2>a. queue' \in Seq(Package)
    BY <1>1, HeadTailProperties DEF GetRaises, TypeOK
  <2>1. TypeOK'
    BY <1>1, <2>a DEF GetRaises, TypeOK
  <2>2. SentInv' /\ TodoInv'
    BY <1>1 DEF GetRaises, SentInv, TodoInv
  <2>3. LinkInv' /\ GetInv'
    BY <1>1 DEF GetRaises, LinkInv, GetInv
  <2> QED
    BY <2>1, <2>2, <2>3
<1>2. CASE KeepaliveRaises \/ ResendRaises
  <2>1. TypeOK'
    BY <1>2 DEF KeepaliveRaises, ResendRaises, TypeOK
  <2>2. SentInv' /\ TodoInv'
    BY <1>2 DEF KeepaliveRaises, ResendRaises, SentInv, TodoInv
  <2>3. LinkInv' /\ GetInv'
    BY <1>2 DEF KeepaliveRaises, ResendRaises, LinkInv, GetInv
  <2> QED
    BY <2>1, <2>2, <2>3
<1>3. CASE CaughtDisconnects \/ CaughtFlushed
  <2>1. TypeOK'
    <3>1. CASE CaughtDisconnects
      <4>1. stop' \in BOOLEAN /\ queue' \in Seq(Package)
        <5>1. (stop' = TRUE /\ queue' = <<>>) \/ UNCHANGED <<queue, stop>>
          BY <3>1 DEF CaughtDisconnects, EndConnection
        <5>2. <<>> \in Seq(Package)
          OBVIOUS
        <5> QED
          BY <5>1, <5>2 DEF TypeOK
      <4>2. snd' \in {"top", "putEnd"}
        BY <3>1 DEF CaughtDisconnects
      <4> QED
        BY <3>1, <4>1, <4>2 DEF CaughtDisconnects, TypeOK
    <3>2. CASE CaughtFlushed
      BY <3>2 DEF CaughtFlushed, EndConnection, TypeOK
    <3> QED
      BY <1>3, <3>1, <3>2
  <2>2. SentInv' /\ TodoInv'
    BY <1>3 DEF CaughtDisconnects, CaughtFlushed, SentInv, TodoInv
  <2>3. LinkInv' /\ GetInv'
    BY <1>3 DEF CaughtDisconnects, CaughtFlushed, EndConnection, TypeOK, LinkInv, GetInv
  <2> QED
    BY <2>1, <2>2, <2>3
<1>4. CASE CaughtQueuesEnd
  <2>a. queue' \in Seq(Package)
    <3>1. queue' = Append(queue, EndPackage) /\ EndPackage \in Package
      BY <1>4, EndPackageType DEF CaughtQueuesEnd
    <3> QED
      BY <3>1, AppendProperties DEF TypeOK
  <2>1. TypeOK'
    BY <1>4, <2>a DEF CaughtQueuesEnd, TypeOK
  <2>2. SentInv' /\ TodoInv'
    BY <1>4 DEF CaughtQueuesEnd, SentInv, TodoInv
  <2>3. LinkInv' /\ GetInv'
    BY <1>4 DEF CaughtQueuesEnd, LinkInv, GetInv
  <2> QED
    BY <2>1, <2>2, <2>3
<1> QED
  BY <1>1, <1>2, <1>3, <1>4

LEMMA AcceptTypes ==
  ASSUME TypeInv, Link!Accept
  PROVE  /\ Arriving \in AckPackage /\ accepted' = Append(accepted, Arriving)
         /\ accepted' \in Seq(AckPackage) /\ Len(accepted') = Len(offered)
         /\ UNCHANGED <<offered, confirmed>>
<1> USE DEF TypeInv, TypeOK, Link!Accept
<1>1. Arriving \in AckPackage /\ accepted' = Append(accepted, Arriving)
  BY DEF Arriving
<1>2. accepted' \in Seq(AckPackage) /\ Len(accepted') = Len(accepted) + 1
  BY <1>1, AppendProperties
<1> QED
  BY <1>1, <1>2 DEF LinkInv

\* A chunk with the id it may have gets its slot.
LEMMA CollectedTypes ==
  ASSUME TypeOK, NEW p \in Chunk
  PROVE  /\ Collected(p) \in Seq(Chunk \cup {None})
         /\ Len(Collected(p)) <= MaxChunks
<1>1. p.id \in 0 .. MaxChunks - 1
  BY PackageTypes
<1>2. CASE ~StartsAfresh /\ p.id <= lastId
  <2>1. Collected(p) = [collection EXCEPT ![p.id + 1] = p] /\ collection \in Seq(Chunk \cup {None})
    BY <1>2 DEF Collected, TypeOK
  <2>2. Len(collection) \in Nat /\ Len(collection) <= MaxChunks
    BY DEF TypeOK
  <2>3. CASE p.id + 1 \in 1 .. Len(collection)
    BY <2>1, <2>2, <2>3, ExceptSeq
  <2>4. CASE p.id + 1 \notin 1 .. Len(collection)
    <3>1. Collected(p) = collection
      BY <2>1, <2>4
    <3> QED
      BY <2>1, <2>2, <3>1
  <2> QED
    BY <2>3, <2>4
<1>3. CASE ~(~StartsAfresh /\ p.id <= lastId)
  <2> DEFINE c == [i \in 1 .. p.id + 1 |-> IF i = p.id + 1 THEN p ELSE None]
  <2>1. c \in Seq(Chunk \cup {None}) /\ Len(c) = p.id + 1
    BY <1>1
  <2>2. Collected(p) = c
    BY <1>3 DEF Collected
  <2> QED
    BY <1>1, <2>1, <2>2
<1> QED
  BY <1>2, <1>3

LEMMA AssembledTypes ==
  ASSUME TypeOK, NEW p \in Chunk, Complete(Collected(p))
  PROVE  Assembled(p) \in Seq(Chunk)
<1>1. Collected(p) \in Seq(Chunk)
  BY CollectedTypes DEF Complete
<1> QED
  BY <1>1 DEF Assembled, Reverse

LEMMA ReceivingTypes ==
  ASSUME TypeInv, ReceiveChunk \/ ReceiveLastChunk \/ ReceiveRaises \/ ReceiveEnd \/ ReceiveFaf \/ LoseFaf \/ Receive
  PROVE  TypeInv'
<1> USE PackageTypes DEF TypeInv, writer, sender, link, collector, receiver
<1>1. CASE ReceiveChunk
  <2>a. Arriving \in Chunk /\ Arriving.id \in 0 .. MaxChunks - 1 /\ accepted' \in Seq(AckPackage)
    BY <1>1, AcceptTypes DEF ReceiveChunk
  <2>b. collection' \in Seq(Chunk \cup {None}) /\ Len(collection') <= MaxChunks
    BY <1>1, <2>a, CollectedTypes DEF ReceiveChunk
  <2>1. TypeOK'
    BY <1>1, <2>a, <2>b, AcceptTypes DEF ReceiveChunk, TypeOK
  <2>2. SentInv' /\ TodoInv'
    BY <1>1 DEF ReceiveChunk, Link!Accept, SentInv, TodoInv
  <2>3. LinkInv' /\ GetInv'
    BY <1>1 DEF ReceiveChunk, Link!Accept, TypeOK, LinkInv, GetInv, InOrder, Receiving
  <2> QED
    BY <2>1, <2>2, <2>3
<1>2. CASE ReceiveLastChunk
  <2>a. Arriving \in Chunk /\ accepted' \in Seq(AckPackage)
    BY <1>2, AcceptTypes DEF ReceiveLastChunk
  <2>b. Assembled(Arriving) \in Seq(Chunk)
    BY <1>2, <2>a, AssembledTypes DEF ReceiveLastChunk
  <2>c. arrived' \in Seq(Seq(Chunk)) /\ inData' \in Seq(Seq(Chunk \cup Faf))
    <3>1. Assembled(Arriving) \in Seq(Chunk \cup Faf)
      BY <2>b
    <3> QED
      BY <1>2, <2>b, <3>1 DEF ReceiveLastChunk, TypeOK
  <2>d. collection' = <<>> /\ lastId' = 0
    BY <1>2 DEF ReceiveLastChunk
  <2>1. TypeOK'
    BY <1>2, <2>a, <2>c, <2>d, AcceptTypes DEF ReceiveLastChunk, TypeOK
  <2>2. SentInv' /\ TodoInv'
    BY <1>2 DEF ReceiveLastChunk, Link!Accept, SentInv, TodoInv
  <2>3. LinkInv' /\ GetInv'
    BY <1>2 DEF ReceiveLastChunk, Link!Accept, TypeOK, LinkInv, GetInv, InOrder, Receiving
  <2> QED
    BY <2>1, <2>2, <2>3
<1>3. CASE ReceiveRaises
  <2>a. Arriving \in Chunk /\ accepted' \in Seq(AckPackage)
    BY <1>3, AcceptTypes DEF ReceiveRaises
  <2>b. collection' \in Seq(Chunk \cup {None}) /\ Len(collection') <= MaxChunks
    BY <1>3, <2>a, CollectedTypes DEF ReceiveRaises
  <2>1. TypeOK'
    BY <1>3, <2>a, <2>b, AcceptTypes DEF ReceiveRaises, TypeOK
  <2>2. SentInv' /\ TodoInv'
    BY <1>3 DEF ReceiveRaises, Link!Accept, SentInv, TodoInv
  <2>3. LinkInv' /\ GetInv'
    BY <1>3 DEF ReceiveRaises, Link!Accept, TypeOK, LinkInv, GetInv, InOrder, Receiving
  <2> QED
    BY <2>1, <2>2, <2>3
<1>4. CASE ReceiveEnd
  <2>1. TypeOK'
    BY <1>4 DEF ReceiveEnd, Link!Accept, TypeOK
  <2>2. SentInv' /\ TodoInv'
    BY <1>4 DEF ReceiveEnd, Link!Accept, SentInv, TodoInv
  <2>3. LinkInv' /\ GetInv'
    BY <1>4 DEF ReceiveEnd, Link!Accept, TypeOK, LinkInv, GetInv, InOrder, Receiving
  <2> QED
    BY <2>1, <2>2, <2>3
<1>5. CASE ReceiveFaf
  <2>1. TypeOK'
    BY <1>5 DEF ReceiveFaf, TypeOK
  <2>2. SentInv' /\ TodoInv'
    BY <1>5 DEF ReceiveFaf, SentInv, TodoInv
  <2>3. LinkInv' /\ GetInv'
    BY <1>5 DEF ReceiveFaf, TypeOK, LinkInv, GetInv, InOrder, Receiving
  <2> QED
    BY <2>1, <2>2, <2>3
<1>6. CASE LoseFaf
  <2>1. TypeOK'
    BY <1>6 DEF LoseFaf, TypeOK
  <2>2. SentInv' /\ TodoInv'
    BY <1>6 DEF LoseFaf, SentInv, TodoInv
  <2>3. LinkInv' /\ GetInv'
    BY <1>6 DEF LoseFaf, TypeOK, LinkInv, GetInv, InOrder, Receiving
  <2> QED
    BY <2>1, <2>2, <2>3
<1>7. CASE Receive
  <2>1. TypeOK'
    BY <1>7 DEF Receive, TypeOK
  <2>2. SentInv' /\ TodoInv'
    BY <1>7 DEF Receive, SentInv, TodoInv
  <2>3. LinkInv' /\ GetInv'
    BY <1>7 DEF Receive, TypeOK, LinkInv, GetInv, InOrder, Receiving
  <2> QED
    BY <2>1, <2>2, <2>3
<1> QED
  BY <1>1, <1>2, <1>3, <1>4, <1>5, <1>6, <1>7
-----------------------------------------------------------------------------
LEMMA StepTypes ==
  ASSUME TypeInv, [Next]_vars
  PROVE  TypeInv'
<1>1. CASE UNCHANGED vars
  BY <1>1 DEF vars, writer, sender, link, collector, receiver, TypeInv, TypeOK, SentInv, TodoInv,
              LinkInv, GetInv, InOrder
<1>2. CASE Next
  BY <1>2, SendingTypes, SendThreadTypes, FailingTypes, ReceivingTypes DEF Next, SendThread, ReceiveThread
<1> QED
  BY <1>1, <1>2
-----------------------------------------------------------------------------
(* The stream of chunks, as long as the receiving client has not left.     *)

LEMMA InitStream == Init => StreamInv
<1> SUFFICES ASSUME Init PROVE StreamInv
  OBVIOUS
<1>1. CollectionInv /\ FlightInv
  BY DEF Init, CollectionInv, FlightInv, StartsAfresh, InFlight
<1>2. AheadInv
  BY PackageTypes DEF Init, AheadInv, OrderInv, CompleteInv, SingleInv, Valid, Failing
<1>3. EarlierDataFirst
  BY DEF Init, EarlierDataFirst
<1> QED
  BY <1>1, <1>2, <1>3 DEF StreamInv

LEMMA GoneStream ==
  ASSUME ~InOrder'
  PROVE  StreamInv'
BY DEF StreamInv, CollectionInv, FlightInv, AheadInv, EarlierDataFirst, InOrder

\* A step that touches neither what was sent nor what arrived, and takes packages
\* from the queue only to end the connection, nor leaves the except clause otherwise.
LEMMA QuietStream ==
  ASSUME StreamInv, UNCHANGED <<sent, arrived, collection, lastId, offered, accepted, rcv>>,
         air' \subseteq air, stop' \/ (UNCHANGED <<todo, queue, stop>> /\ (Failing => Failing'))
  PROVE  StreamInv'
<1>1. CollectionInv' /\ FlightInv'
  BY DEF StreamInv, CollectionInv, FlightInv, InOrder, StartsAfresh, Now, InFlight, Arriving, Expected
<1>2. AheadInv'
  <2>1. CASE stop'
    BY <2>1 DEF AheadInv
  <2>2. CASE UNCHANGED <<todo, queue, stop>> /\ (Failing => Failing')
    <3>1. OrderInv => OrderInv'
      BY <2>2 DEF OrderInv, Valid, Received, Now, StartsAfresh, InFlight, Arriving
    <3>2. CompleteInv => CompleteInv'
      BY <2>2 DEF CompleteInv, Valid, Received, Now, StartsAfresh, InFlight, Arriving
    <3>3. SingleInv => SingleInv'
      BY <2>2 DEF SingleInv
    <3> QED
      BY <2>2, <3>1, <3>2, <3>3 DEF StreamInv, AheadInv, InOrder
  <2> QED
    BY <2>1, <2>2
<1>3. EarlierDataFirst'
  BY DEF StreamInv, EarlierDataFirst
<1> QED
  BY <1>1, <1>2, <1>3 DEF StreamInv
-----------------------------------------------------------------------------
LEMMA Basics ==
  ASSUME TypeInv
  PROVE  /\ Len(sent) \in Nat /\ Len(queue) \in Nat /\ Len(todo) \in Nat
         /\ Now \in Nat \ {0} /\ Len(arrived) = Now - 1
         /\ \A m \in 1 .. Len(sent) : Len(sent[m]) \in Nat \ {0}
         /\ \A i \in 1 .. Len(queue) : queue[i] \in Package /\ queue[i].msg \in Nat /\ queue[i].id \in Nat
         /\ \A i \in 1 .. Len(todo) : todo[i] = Ch(Len(sent), Len(todo) - i)
         /\ todo # <<>> <=> Len(todo) > 0
         /\ Len(todo) > 0 => Len(sent) > 0 /\ Len(todo) <= Len(sent[Len(sent)])
         /\ StartsAfresh \/ lastId \in Nat
         /\ InFlight => Arriving \in Package /\ Arriving.msg \in Nat /\ Arriving.id \in Nat
<1>1. /\ Len(sent) \in Nat /\ Len(queue) \in Nat /\ Len(todo) \in Nat
      /\ Now \in Nat \ {0} /\ Len(arrived) = Now - 1
  BY DEF TypeInv, TypeOK, Now
<1>2. \A m \in 1 .. Len(sent) : Len(sent[m]) \in Nat \ {0}
  BY DEF TypeInv, SentInv
<1>3. \A i \in 1 .. Len(queue) : queue[i] \in Package /\ queue[i].msg \in Nat /\ queue[i].id \in Nat
  BY PackageTypes DEF TypeInv, TypeOK
<1>4. /\ \A i \in 1 .. Len(todo) : todo[i] = Ch(Len(sent), Len(todo) - i)
      /\ todo # <<>> <=> Len(todo) > 0
      /\ Len(todo) > 0 => Len(sent) > 0 /\ Len(todo) <= Len(sent[Len(sent)])
  BY DEF TypeInv, TypeOK, TodoInv
<1>5. StartsAfresh \/ lastId \in Nat
  BY DEF TypeInv, TypeOK, StartsAfresh
<1>6. InFlight => Arriving \in Package /\ Arriving.msg \in Nat /\ Arriving.id \in Nat
  <2>1. InFlight => Arriving \in AckPackage
    BY DEF TypeInv, TypeOK, InFlight, Arriving
  <2> QED
    BY <2>1, PackageTypes
<1> QED
  BY <1>1, <1>2, <1>3, <1>4, <1>5, <1>6

\* What is valid and what has been received depends on these variables only.
LEMMA SameStream ==
  ASSUME UNCHANGED <<sent, arrived, collection, lastId, offered, accepted>>
  PROVE  /\ \A c : (Valid(c)' <=> Valid(c)) /\ (Received(c)' <=> Received(c))
         /\ InFlight' = InFlight /\ Arriving' = Arriving
BY DEF Valid, Received, Now, StartsAfresh, InFlight, Arriving

LEMMA SendEffect ==
  ASSUME TypeInv, Send
  PROVE  /\ Len(sent') = Len(sent) + 1 /\ todo = <<>>
         /\ \A i \in 1 .. Len(sent) : sent'[i] = sent[i]
         /\ sent'[Len(sent) + 1] = todo' /\ Len(todo') \in 1 .. MaxChunks
         /\ \A i \in 1 .. Len(todo') : todo'[i] = Ch(Len(sent) + 1, Len(todo') - i)
<1>1. PICK n \in 1 .. MaxChunks : todo' = Chunks(Len(sent) + 1, n)
  BY DEF Send
<1>2. Len(sent) + 1 \in 1 .. MaxMessages /\ sent' = Append(sent, todo')
  BY DEF Send, TypeInv, TypeOK
<1>3. /\ todo' \in Seq(Chunk) /\ Len(todo') = n
      /\ \A i \in 1 .. n : todo'[i] = Ch(Len(sent) + 1, n - i)
  BY <1>1, <1>2, ChunksType
<1>4. /\ Len(sent') = Len(sent) + 1 /\ sent'[Len(sent) + 1] = todo'
      /\ \A i \in 1 .. Len(sent) : sent'[i] = sent[i]
  BY <1>2, <1>3, AppendProperties DEF TypeInv, TypeOK
<1> QED
  BY <1>3, <1>4 DEF Send

LEMMA SendStream ==
  ASSUME TypeInv, StreamInv, Send
  PROVE  StreamInv'
<1>0. UNCHANGED <<queue, arrived, collection, lastId, offered, accepted, rcv, air, stop>>
  BY DEF Send, sender, link, receiver, collector
<1>a. /\ Len(sent') = Len(sent) + 1 /\ todo = <<>>
      /\ \A i \in 1 .. Len(sent) : sent'[i] = sent[i]
      /\ sent'[Len(sent) + 1] = todo' /\ Len(todo') \in Nat \ {0}
      /\ \A i \in 1 .. Len(todo') : todo'[i] = Ch(Len(sent) + 1, Len(todo') - i)
  BY SendEffect
<1>b. /\ Len(sent) \in Nat /\ Now \in Nat \ {0} /\ Now' = Now /\ Len(arrived) = Now - 1
      /\ StartsAfresh' = StartsAfresh /\ InFlight' = InFlight /\ Arriving' = Arriving
      /\ Len(queue) \in Nat /\ Len(todo) = 0
  BY <1>0, <1>a, Basics DEF Now, StartsAfresh, InFlight, Arriving
<1>c. \A i \in 1 .. Len(queue) : queue[i].msg \in Nat /\ queue[i].id \in Nat
  BY Basics
<1>1. CollectionInv'
  <2>1. ASSUME InOrder, ~StartsAfresh
        PROVE  Now <= Len(sent) /\ sent'[Now] = sent[Now]
    BY <1>a, <1>b, <2>1 DEF StreamInv, CollectionInv
  <2>2. InOrder => Len(arrived) <= Len(sent)
    BY DEF StreamInv, CollectionInv
  <2> QED
    BY <1>0, <1>a, <1>b, <2>1, <2>2 DEF StreamInv, CollectionInv, InOrder
<1>2. FlightInv'
  <2>1. ASSUME Expected(Arriving) PROVE Expected(Arriving)'
    BY <1>0, <1>a, <1>b, <2>1 DEF Expected
  <2> QED
    BY <1>0, <1>b, <2>1 DEF StreamInv, FlightInv, InOrder
<1>3. EarlierDataFirst'
  BY <1>0 DEF StreamInv, EarlierDataFirst
<1>4. ASSUME InOrder, ~stop PROVE OrderInv' /\ (~Failing' => CompleteInv') /\ SingleInv'
  <2>0. Failing' <=> Failing
    BY DEF Send, sender, Failing
  <2>1. OrderInv /\ (~Failing => CompleteInv) /\ SingleInv
    BY <1>4 DEF StreamInv, AheadInv
  <2>a. ASSUME NEW i \in 1 .. Len(todo')
        PROVE  todo'[i].msg = Len(sent) + 1 /\ todo'[i].id = Len(todo') - i
    <3>1. todo'[i] = Ch(Len(sent) + 1, Len(todo') - i)
      BY <1>a
    <3> QED
      BY <3>1 DEF Ch
  <2>b. Now <= Len(sent) + 1 /\ (~StartsAfresh => Now <= Len(sent))
    BY <1>b, <1>4 DEF StreamInv, CollectionInv
  <2>2. OrderInv'
    <3>0. ASSUME NEW i \in 1 .. Len(queue), queue[i].type = "DAT"
          PROVE  Valid(queue[i]) /\ ~Received(queue[i])
      BY <2>1, <3>0 DEF OrderInv
    <3>1. ASSUME NEW i \in 1 .. Len(queue), queue[i].type = "DAT"
          PROVE  /\ Valid(queue[i])' /\ ~Received(queue[i])'
                 /\ \A j \in 1 .. Len(todo') : Before(queue[i], todo'[j])
      <4>1. Valid(queue[i]) /\ ~Received(queue[i])
        BY <3>0, <3>1
      <4>2. Valid(queue[i])' /\ ~Received(queue[i])'
        BY <1>0, <1>a, <1>b, <4>1 DEF Valid, Received
      <4>3. queue[i].msg <= Len(sent)
        BY <1>b, <4>1 DEF Valid
      <4>4. ASSUME NEW j \in 1 .. Len(todo') PROVE Before(queue[i], todo'[j])
        <5>1. todo'[j].msg = Len(sent) + 1
          BY <2>a
        <5>2. queue[i].msg < todo'[j].msg
          BY <1>b, <1>c, <4>3, <5>1
        <5> QED
          BY <5>2 DEF Before
      <4> QED
        BY <4>2, <4>4
    <3>2. ASSUME NEW i \in 1 .. Len(todo')
          PROVE  ~Received(todo[i])'
      BY <1>b, <2>a, <2>b DEF Received
    <3>3. ASSUME NEW i \in 1 .. Len(todo'), InFlight, Arriving.type = "DAT"
          PROVE  Before(Arriving, todo'[i])
      <4>1. Arriving.msg <= Len(sent)
        BY <1>4, <3>3 DEF StreamInv, FlightInv, Expected
      <4> QED
        BY <1>b, <2>a, <4>1, <3>3, Basics DEF Before
    <3>4. ASSUME NEW i \in 1 .. Len(queue'), queue'[i].type = "DAT"
          PROVE  /\ \A j \in i + 1 .. Len(queue) : queue[j].type = "DAT" => Before(queue[i], queue[j])
                 /\ InFlight /\ Arriving.type = "DAT" => Before(Arriving, queue[i])
      BY <1>0, <2>1, <3>4 DEF OrderInv
    <3>5. \A c, d : Before(c, d)' <=> Before(c, d)
      BY DEF Before
    <3>6. \A i \in 1 .. Len(todo') :
             ~Received(todo[i])' /\ (InFlight /\ Arriving.type = "DAT" => Before(Arriving, todo'[i]))
      BY <3>2, <3>3
    <3>7. queue' = queue
      BY <1>0
    <3> QED
      BY <1>b, <3>1, <3>4, <3>5, <3>6, <3>7 DEF OrderInv
  <2>3. ASSUME ~Failing' PROVE CompleteInv'
    <3>0. CompleteInv
      BY <2>0, <2>1, <2>3
    <3> SUFFICES ASSUME NEW c \in Chunk, Valid(c)', ~Received(c)'
                 PROVE  (\/ InFlight /\ c = Arriving
                         \/ \E i \in 1 .. Len(queue) : c = queue[i]
                         \/ \E i \in 1 .. Len(todo) : c = todo[i])'
      BY DEF CompleteInv
    <3>a. c = Ch(c.msg, c.id) /\ c.id \in Nat /\ c.msg \in Nat
      BY PackageTypes
    <3>1. CASE c.msg = Len(sent) + 1
      <4>0. c.id < Len(todo')
        BY <1>a, <3>1 DEF Valid
      <4>1. Len(todo') - c.id \in 1 .. Len(todo')
        BY <1>a, <3>a, <4>0
      <4>2. c = todo'[Len(todo') - c.id]
        <5>1. todo'[Len(todo') - c.id] = Ch(Len(sent) + 1, Len(todo') - (Len(todo') - c.id))
          BY <1>a, <4>1
        <5>2. Len(todo') - (Len(todo') - c.id) = c.id
          BY <1>a, <3>a
        <5> QED
          BY <3>1, <3>a, <5>1, <5>2
      <4> QED
        BY <4>1, <4>2
    <3>2. CASE c.msg # Len(sent) + 1
      <4>1. Valid(c) /\ ~Received(c)
        BY <1>0, <1>a, <1>b, <3>2, <3>a DEF Valid, Received
      <4> QED
        BY <1>0, <1>b, <3>0, <4>1 DEF CompleteInv
    <3> QED
      BY <3>1, <3>2
  <2>4. SingleInv'
    BY <1>0, <1>a, <1>b, <1>c, <2>1 DEF SingleInv
  <2> QED
    BY <2>2, <2>3, <2>4
<1> QED
  BY <1>0, <1>1, <1>2, <1>3, <1>4 DEF StreamInv, AheadInv, InOrder

LEMMA PutChunkEffect ==
  ASSUME TypeInv, PutChunk
  PROVE  /\ Len(todo) \in Nat \ {0} /\ Len(todo') = Len(todo) - 1 /\ Len(sent) > 0
         /\ \A i \in 1 .. Len(todo') : todo'[i] = todo[i + 1]
         /\ Len(queue') = Len(queue) + 1
         /\ \A i \in 1 .. Len(queue) : queue'[i] = queue[i]
         /\ queue'[Len(queue) + 1] = todo[1]
<1>1. /\ todo # <<>> /\ todo \in Seq(Chunk) /\ queue \in Seq(Package)
      /\ todo' = Tail(todo) /\ queue' = Append(queue, Head(todo))
  BY DEF PutChunk, TypeInv, TypeOK
<1>2. /\ Head(todo) \in Package /\ Head(todo) = todo[1]
      /\ Len(todo') = Len(todo) - 1 /\ \A i \in 1 .. Len(todo') : todo'[i] = todo[i + 1]
  BY <1>1, HeadTailProperties, PackageTypes
<1>3. /\ Len(queue') = Len(queue) + 1 /\ queue'[Len(queue) + 1] = Head(todo)
      /\ \A i \in 1 .. Len(queue) : queue'[i] = queue[i]
  BY <1>1, <1>2, AppendProperties
<1> QED
  BY <1>1, <1>2, <1>3 DEF TypeInv, TodoInv

LEMMA PutChunkStream ==
  ASSUME TypeInv, StreamInv, PutChunk
  PROVE  StreamInv'
<1>0. UNCHANGED <<sent, arrived, collection, lastId, offered, accepted, rcv, air, stop>>
  BY DEF PutChunk, sender, link, receiver, collector
<1>a. /\ Len(todo) \in Nat \ {0} /\ Len(todo') = Len(todo) - 1
      /\ \A i \in 1 .. Len(todo') : todo'[i] = todo[i + 1]
      /\ Len(queue') = Len(queue) + 1
      /\ \A i \in 1 .. Len(queue) : queue'[i] = queue[i]
      /\ queue'[Len(queue) + 1] = todo[1]
  BY PutChunkEffect
<1>b. /\ Len(queue) \in Nat /\ Len(sent) \in Nat \ {0} /\ Len(todo) <= Len(sent[Len(sent)])
      /\ Len(sent[Len(sent)]) \in Nat
  BY <1>a, Basics
<1>c. ASSUME NEW i \in 1 .. Len(todo)
      PROVE  todo[i].type = "DAT" /\ todo[i].msg = Len(sent) /\ todo[i].id = Len(todo) - i
  <2>1. todo[i] = Ch(Len(sent), Len(todo) - i)
    BY Basics
  <2> QED
    BY <2>1 DEF Ch
<1>d. \A c : (Valid(c)' <=> Valid(c)) /\ (Received(c)' <=> Received(c))
  BY <1>0, SameStream
<1>e. InFlight' = InFlight /\ Arriving' = Arriving
  BY <1>0, SameStream
<1>1. CollectionInv' /\ FlightInv' /\ EarlierDataFirst'
  BY <1>0 DEF StreamInv, CollectionInv, FlightInv, EarlierDataFirst, InOrder, StartsAfresh, Now,
              InFlight, Arriving, Expected
<1>2. ASSUME InOrder, ~stop PROVE OrderInv' /\ (~Failing' => CompleteInv') /\ SingleInv'
  <2>0. Failing' <=> Failing
    BY DEF PutChunk, sender, Failing
  <2>1. OrderInv /\ (~Failing => CompleteInv) /\ SingleInv
    BY <1>2 DEF StreamInv, AheadInv
  <2>a. \A i \in 1 .. Len(todo) :
          ~Received(todo[i]) /\ (InFlight /\ Arriving.type = "DAT" => Before(Arriving, todo[i]))
    BY <2>1 DEF OrderInv
  <2>2. OrderInv'
    <3>1. 1 \in 1 .. Len(todo) /\ Valid(todo[1]) /\ ~Received(todo[1])
      <4>1. 1 \in 1 .. Len(todo)
        BY <1>a
      <4> QED
        BY <1>b, <1>c, <2>a, <4>1 DEF Valid
    <3>2. ASSUME NEW i \in 1 .. Len(queue), queue[i].type = "DAT"
          PROVE  /\ Valid(queue[i]) /\ ~Received(queue[i])
                 /\ \A j \in i + 1 .. Len(queue) : queue[j].type = "DAT" => Before(queue[i], queue[j])
                 /\ \A j \in 1 .. Len(todo) : Before(queue[i], todo[j])
                 /\ InFlight /\ Arriving.type = "DAT" => Before(Arriving, queue[i])
      BY <2>1, <3>2 DEF OrderInv
    <3>3. ASSUME NEW i \in 1 .. Len(queue'), queue'[i].type = "DAT"
          PROVE  /\ Valid(queue[i])' /\ ~Received(queue[i])'
                 /\ \A j \in i + 1 .. Len(queue') : queue'[j].type = "DAT" => Before(queue'[i], queue'[j])
                 /\ \A j \in 1 .. Len(todo') : Before(queue'[i], todo'[j])
                 /\ InFlight /\ Arriving.type = "DAT" => Before(Arriving, queue'[i])
      <4>1. CASE i \in 1 .. Len(queue)
        <5>1. queue'[i] = queue[i] /\ queue[i].type = "DAT"
          BY <1>a, <3>3, <4>1
        <5>2. ASSUME NEW j \in i + 1 .. Len(queue'), queue'[j].type = "DAT"
              PROVE  Before(queue'[i], queue'[j])
          <6>1. CASE j \in 1 .. Len(queue)
            BY <1>a, <3>2, <4>1, <5>1, <5>2, <6>1
          <6>2. CASE j = Len(queue) + 1
            BY <1>a, <3>1, <3>2, <4>1, <5>1, <6>2
          <6>3. j \in 1 .. Len(queue) \/ j = Len(queue) + 1
            <7>1. i \in 1 .. Len(queue) /\ j \in i + 1 .. Len(queue) + 1
              BY <1>a, <4>1
            <7> QED
              BY <1>b, <7>1
          <6> QED
            BY <6>1, <6>2, <6>3
        <5>3. ASSUME NEW j \in 1 .. Len(todo') PROVE Before(queue'[i], todo'[j])
          <6>1. j + 1 \in 1 .. Len(todo) /\ todo'[j] = todo[j + 1]
            BY <1>a
          <6> QED
            BY <3>2, <4>1, <5>1, <6>1
        <5>4. Valid(queue'[i]) /\ ~Received(queue'[i])
          BY <3>2, <4>1, <5>1
        <5>5. Valid(queue[i])' /\ ~Received(queue[i])'
          BY <1>0, <5>4 DEF Valid, Received, Now, StartsAfresh
        <5>6. InFlight /\ Arriving.type = "DAT" => Before(Arriving, queue'[i])
          BY <3>2, <4>1, <5>1
        <5> QED
          BY <5>2, <5>3, <5>5, <5>6
      <4>2. CASE i = Len(queue) + 1
        <5>1. queue'[i] = todo[1]
          BY <1>a, <4>2
        <5>2. i + 1 .. Len(queue') = {}
          BY <1>a, <1>b, <4>2
        <5>3. ASSUME NEW j \in 1 .. Len(todo') PROVE Before(queue'[i], todo'[j])
          <6>1. j + 1 \in 1 .. Len(todo) /\ todo'[j] = todo[j + 1]
            BY <1>a
          <6>2. /\ todo[j + 1].msg = Len(sent) /\ todo[j + 1].id = Len(todo) - (j + 1)
                /\ todo[1].msg = Len(sent) /\ todo[1].id = Len(todo) - 1
            BY <1>c, <3>1, <6>1
          <6>3. Len(todo) - 1 > Len(todo) - (j + 1)
            BY <1>a
          <6> QED
            BY <5>1, <6>1, <6>2, <6>3 DEF Before
        <5>4. Valid(queue'[i]) /\ ~Received(queue'[i])
          BY <3>1, <5>1
        <5>5. Valid(queue[i])' /\ ~Received(queue[i])'
          BY <1>0, <5>4 DEF Valid, Received, Now, StartsAfresh
        <5>6. InFlight /\ Arriving.type = "DAT" => Before(Arriving, queue'[i])
          BY <2>a, <3>1, <5>1
        <5> QED
          BY <5>2, <5>3, <5>5, <5>6
      <4> QED
        BY <1>a, <1>b, <4>1, <4>2
    <3>4. ASSUME NEW i \in 1 .. Len(todo')
          PROVE  ~Received(todo[i])' /\ (InFlight /\ Arriving.type = "DAT" => Before(Arriving, todo'[i]))
      <4>1. i + 1 \in 1 .. Len(todo) /\ todo'[i] = todo[i + 1]
        BY <1>a
      <4>2. ~Received(todo'[i]) /\ (InFlight /\ Arriving.type = "DAT" => Before(Arriving, todo'[i]))
        BY <2>a, <4>1
      <4> QED
        BY <1>0, <4>2 DEF Received, Now, StartsAfresh
    <3>5. \A c, d : Before(c, d)' <=> Before(c, d)
      BY DEF Before
    <3> QED
      BY <1>e, <3>3, <3>4 DEF OrderInv, Before
  <2>3. ASSUME ~Failing' PROVE CompleteInv'
    <3>0. CompleteInv
      BY <2>0, <2>1, <2>3
    <3> SUFFICES ASSUME NEW c \in Chunk, Valid(c)', ~Received(c)'
                 PROVE  \/ InFlight' /\ c = Arriving'
                        \/ \E i \in 1 .. Len(queue') : c = queue'[i]
                        \/ \E i \in 1 .. Len(todo') : c = todo'[i]
      BY DEF CompleteInv
    <3>1. Valid(c) /\ ~Received(c)
      BY <1>d
    <3>2. CASE InFlight /\ c = Arriving
      BY <1>e, <3>2
    <3>3. ASSUME NEW i \in 1 .. Len(queue), c = queue[i]
          PROVE  \E k \in 1 .. Len(queue') : c = queue'[k]
      <4>1. i \in 1 .. Len(queue') /\ queue'[i] = queue[i]
        BY <1>a, <1>b
      <4> QED
        BY <3>3, <4>1
    <3>4. ASSUME NEW i \in 1 .. Len(todo), c = todo[i]
          PROVE  \/ \E k \in 1 .. Len(queue') : c = queue'[k]
                 \/ \E k \in 1 .. Len(todo') : c = todo'[k]
      <4>1. CASE i = 1
        <5>1. Len(queue) + 1 \in 1 .. Len(queue')
          BY <1>a, <1>b
        <5> QED
          BY <1>a, <3>4, <4>1, <5>1
      <4>2. CASE i # 1
        <5>1. i - 1 \in 1 .. Len(todo') /\ todo'[i - 1] = todo[(i - 1) + 1] /\ (i - 1) + 1 = i
          BY <1>a, <4>2
        <5> QED
          BY <3>4, <5>1
      <4> QED
        BY <4>1, <4>2
    <3> QED
      BY <3>0, <3>1, <3>2, <3>3, <3>4 DEF CompleteInv
  <2>4. SingleInv'
    <3>1. 1 \in 1 .. Len(todo) /\ todo[1].type = "DAT" /\ todo[1].msg = Len(sent) /\ todo # <<>>
      BY <1>a, <1>c, Basics
    <3>2. ASSUME NEW i \in 1 .. Len(queue'), queue'[i].type # "DAT"
          PROVE  /\ queue'[i].msg < Len(sent)
                 /\ \A j \in i + 1 .. Len(queue') : queue'[j].type = "DAT" => queue'[j].msg > queue'[i].msg
      <4>1. i \in 1 .. Len(queue) /\ queue'[i] = queue[i] /\ queue[i].type # "DAT"
        <5>1. i # Len(queue) + 1
          BY <1>a, <3>1, <3>2
        <5> QED
          BY <1>a, <1>b, <3>2, <5>1
      <4>2. /\ queue[i].msg < Len(sent)
            /\ \A j \in i + 1 .. Len(queue) : queue[j].type = "DAT" => queue[j].msg > queue[i].msg
        BY <2>1, <3>1, <4>1 DEF SingleInv
      <4>3. ASSUME NEW j \in i + 1 .. Len(queue'), queue'[j].type = "DAT"
            PROVE  queue'[j].msg > queue'[i].msg
        <5>1. CASE j \in 1 .. Len(queue)
          BY <1>a, <4>1, <4>2, <4>3, <5>1
        <5>2. CASE j = Len(queue) + 1
          <6>1. queue'[j].msg = Len(sent)
            BY <1>a, <3>1, <5>2
          <6>2. queue[i].msg \in Nat
            BY <4>1, Basics
          <6> QED
            BY <1>b, <4>1, <4>2, <6>1, <6>2
        <5>3. j \in 1 .. Len(queue) \/ j = Len(queue) + 1
          <6>1. i \in 1 .. Len(queue) /\ j \in i + 1 .. Len(queue) + 1
            BY <1>a, <4>1
          <6> QED
            BY <1>b, <6>1
        <5> QED
          BY <5>1, <5>2, <5>3
      <4> QED
        BY <4>1, <4>2, <4>3
    <3>3. \A i \in 1 .. Len(queue') : queue'[i].type # "DAT" => queue'[i].msg \in Nat
      <4> SUFFICES ASSUME NEW i \in 1 .. Len(queue'), queue'[i].type # "DAT" PROVE queue'[i].msg \in Nat
        OBVIOUS
      <4>1. i \in 1 .. Len(queue) /\ queue'[i] = queue[i]
        <5>1. i # Len(queue) + 1
          BY <1>a, <3>1
        <5> QED
          BY <1>a, <1>b, <5>1
      <4> QED
        BY <4>1, Basics
    <3>4. \A i \in 1 .. Len(queue') : queue'[i].type # "DAT" => queue'[i].msg <= Len(sent)
      BY <1>b, <3>2, <3>3
    <3> QED
      BY <1>0, <3>2, <3>4 DEF SingleInv
  <2> QED
    BY <2>2, <2>3, <2>4
<1> QED
  BY <1>0, <1>1, <1>2 DEF StreamInv, AheadInv, InOrder

\* A fire-and-forget package or an END goes behind what is queued.
LEMMA SingleStream ==
  ASSUME TypeInv, StreamInv, NEW p \in Package, p.type # "DAT", queue' = Append(queue, p),
         p.msg <= Len(sent), todo # <<>> => p.msg < Len(sent),
         UNCHANGED <<todo, sent, arrived, collection, lastId, offered, accepted, rcv, air, stop>>,
         Failing' <=> Failing
  PROVE  StreamInv'
<1>a. /\ Len(queue') = Len(queue) + 1 /\ queue'[Len(queue) + 1] = p
      /\ \A i \in 1 .. Len(queue) : queue'[i] = queue[i]
      /\ Len(queue) \in Nat
  <2>1. queue \in Seq(Package)
    BY DEF TypeInv, TypeOK
  <2> QED
    BY <2>1, AppendProperties
<1>b. \A i \in 1 .. Len(queue') : queue'[i].type = "DAT" => i \in 1 .. Len(queue) /\ queue'[i] = queue[i]
  BY <1>a
<1>c. \A c : (Valid(c)' <=> Valid(c)) /\ (Received(c)' <=> Received(c))
  BY SameStream
<1>d. InFlight' = InFlight /\ Arriving' = Arriving
  BY SameStream
<1>1. CollectionInv' /\ FlightInv' /\ EarlierDataFirst'
  BY DEF StreamInv, CollectionInv, FlightInv, EarlierDataFirst, InOrder, StartsAfresh, Now,
         InFlight, Arriving, Expected
<1>2. ASSUME InOrder, ~stop PROVE OrderInv' /\ (~Failing' => CompleteInv') /\ SingleInv'
  <2>1. OrderInv /\ (~Failing => CompleteInv) /\ SingleInv
    BY <1>2 DEF StreamInv, AheadInv
  <2>2. OrderInv'
    <3>1. ASSUME NEW i \in 1 .. Len(queue'), queue'[i].type = "DAT"
          PROVE  /\ Valid(queue[i])' /\ ~Received(queue[i])'
                 /\ \A j \in i + 1 .. Len(queue') : queue'[j].type = "DAT" => Before(queue'[i], queue'[j])
                 /\ \A j \in 1 .. Len(todo) : Before(queue'[i], todo[j])
                 /\ InFlight /\ Arriving.type = "DAT" => Before(Arriving, queue'[i])
      <4>1. i \in 1 .. Len(queue) /\ queue'[i] = queue[i] /\ queue[i].type = "DAT"
        BY <1>b, <3>1
      <4>2. /\ Valid(queue'[i]) /\ ~Received(queue'[i])
            /\ \A j \in i + 1 .. Len(queue) : queue[j].type = "DAT" => Before(queue'[i], queue[j])
            /\ \A j \in 1 .. Len(todo) : Before(queue'[i], todo[j])
            /\ InFlight /\ Arriving.type = "DAT" => Before(Arriving, queue'[i])
        BY <2>1, <4>1 DEF OrderInv
      <4>3. Valid(queue[i])' /\ ~Received(queue[i])'
        BY <4>2 DEF Valid, Received, Now, StartsAfresh
      <4>4. ASSUME NEW j \in i + 1 .. Len(queue'), queue'[j].type = "DAT"
            PROVE  Before(queue'[i], queue'[j])
        <5>1. j \in 1 .. Len(queue')
          BY <1>a, <4>1
        <5>2. j \in i + 1 .. Len(queue) /\ queue'[j] = queue[j]
          BY <1>b, <4>4, <5>1
        <5> QED
          BY <4>2, <4>4, <5>2
      <4> QED
        BY <4>2, <4>3, <4>4
    <3>2. \A i \in 1 .. Len(todo) :
            ~Received(todo[i])' /\ (InFlight /\ Arriving.type = "DAT" => Before(Arriving, todo[i]))
      BY <2>1 DEF OrderInv, Received, Now, StartsAfresh
    <3> QED
      BY <1>d, <3>1, <3>2 DEF OrderInv, Before
  <2>3. ASSUME ~Failing' PROVE CompleteInv'
    <3>0. CompleteInv
      BY <2>1, <2>3
    <3>1. ASSUME NEW c, NEW i \in 1 .. Len(queue), c = queue[i]
          PROVE  \E k \in 1 .. Len(queue') : c = queue'[k]
      <4>1. i \in 1 .. Len(queue') /\ queue'[i] = queue[i]
        BY <1>a
      <4> QED
        BY <3>1, <4>1
    <3> QED
      BY <1>c, <1>d, <3>0, <3>1 DEF CompleteInv
  <2>4. SingleInv'
    <3> SUFFICES ASSUME NEW i \in 1 .. Len(queue'), queue'[i].type # "DAT"
                 PROVE  /\ queue'[i].msg <= Len(sent)
                        /\ \A j \in i + 1 .. Len(queue') : queue'[j].type = "DAT" => queue'[j].msg > queue'[i].msg
                        /\ todo # <<>> => queue'[i].msg < Len(sent)
      BY DEF SingleInv
    <3>1. CASE i = Len(queue) + 1
      <4>1. i + 1 .. Len(queue') = {}
        BY <1>a, <3>1
      <4> QED
        BY <1>a, <3>1, <4>1
    <3>2. CASE i # Len(queue) + 1
      <4>1. i \in 1 .. Len(queue) /\ queue'[i] = queue[i]
        BY <1>a, <3>2
      <4>2. ASSUME NEW j \in i + 1 .. Len(queue'), queue'[j].type = "DAT"
            PROVE  queue'[j].msg > queue'[i].msg
        <5>1. j \in 1 .. Len(queue')
          BY <1>a, <4>1
        <5>2. j \in i + 1 .. Len(queue) /\ queue'[j] = queue[j]
          BY <1>b, <4>2, <5>1
        <5> QED
          BY <2>1, <4>1, <4>2, <5>2 DEF SingleInv
      <4> QED
        BY <2>1, <4>1, <4>2 DEF SingleInv
    <3> QED
      BY <3>1, <3>2
  <2> QED
    BY <2>2, <2>3, <2>4
<1> QED
  BY <1>1, <1>2 DEF StreamInv, AheadInv, InOrder

LEMMA SendFafStream ==
  ASSUME TypeInv, StreamInv, SendFaf
  PROVE  StreamInv'
<1>1. FafPackage \in Package /\ FafPackage.type = "FAF" /\ FafPackage.msg = Len(sent) /\ Len(sent) \in Nat
  BY DEF FafPackage, Package, Single, TypeInv, SentInv, TypeOK
<1>2. /\ queue' = Append(queue, FafPackage) /\ todo = <<>>
      /\ UNCHANGED <<todo, sent, arrived, collection, lastId, offered, accepted, rcv, air, stop>>
      /\ Failing' <=> Failing
  BY DEF SendFaf, sender, link, receiver, collector, Failing
<1> HIDE DEF FafPackage
<1> QED
  BY <1>1, <1>2, SingleStream

\* The END of a disconnect(), be it the send thread's.
LEMMA EndStream ==
  ASSUME TypeInv, StreamInv, QueueEnd \/ CaughtQueuesEnd
  PROVE  StreamInv'
<1>1. /\ queue' = Append(queue, EndPackage)
      /\ UNCHANGED <<todo, sent, arrived, collection, lastId, offered, accepted, rcv, air, stop>>
      /\ Failing' <=> Failing
  BY DEF QueueEnd, CaughtQueuesEnd, writer, link, receiver, collector, Failing
<1> QED
  BY <1>1, EndPackageType, SingleStream
-----------------------------------------------------------------------------
\* The chunk that continues what has arrived, if a message is not complete.
LEMMA NextChunk ==
  ASSUME TypeInv, CollectionInv, InOrder, Now <= Len(sent)
  PROVE  \E c \in Chunk : Expected(c) /\ Valid(c) /\ ~Received(c)
<1> DEFINE id == IF StartsAfresh THEN Len(sent[Now]) - 1 ELSE lastId - 1
<1>1. /\ Now \in 1 .. Len(sent) /\ Len(sent) <= MaxMessages /\ Len(sent) \in Nat
      /\ Len(sent[Now]) \in 1 .. MaxChunks
  BY Basics DEF TypeInv, SentInv
<1>2. ~StartsAfresh => lastId \in Nat \ {0} /\ lastId < Len(sent[Now])
  BY Basics DEF CollectionInv, StartsAfresh
<1>3. id \in 0 .. Len(sent[Now]) - 1 /\ (~StartsAfresh => id < lastId)
  BY <1>1, <1>2
<1>4. Ch(Now, id) \in Chunk
  BY <1>1, <1>3 DEF Ch, Chunk
<1>5. Expected(Ch(Now, id)) /\ Valid(Ch(Now, id))
  BY <1>1, <1>3 DEF Expected, Valid, Ch
<1>6. ~Received(Ch(Now, id))
  <2> HIDE DEF id
  <2> QED
    BY <1>1, <1>2, <1>3 DEF Received, Ch
<1> QED
  BY <1>4, <1>5, <1>6

LEMMA HeadExpected ==
  ASSUME TypeInv, CollectionInv, OrderInv, CompleteInv, InOrder, ~InFlight,
         queue # <<>>, queue[1].type = "DAT"
  PROVE  Expected(queue[1])
<1>1. 1 \in 1 .. Len(queue) /\ Len(queue) \in Nat
  BY DEF TypeInv, TypeOK
<1>2. /\ Valid(queue[1]) /\ ~Received(queue[1])
      /\ \A j \in 2 .. Len(queue) : queue[j].type = "DAT" => Before(queue[1], queue[j])
      /\ \A j \in 1 .. Len(todo) : Before(queue[1], todo[j])
  BY <1>1 DEF OrderInv
<1>3. queue[1].msg \in Nat /\ queue[1].id \in Nat /\ Now \in Nat /\ Len(sent) \in Nat
  BY <1>1, Basics
<1>4. queue[1].msg >= Now /\ Now <= Len(sent)
  BY <1>2, <1>3 DEF Valid, Received
<1>5. PICK c \in Chunk : Expected(c) /\ Valid(c) /\ ~Received(c)
  BY <1>4, NextChunk
<1>6. c.type = "DAT" /\ c.id \in Nat
  BY PackageTypes
<1>7. ~Before(queue[1], c)
  <2> SUFFICES ASSUME queue[1].msg = Now PROVE queue[1].id <= c.id
    BY <1>3, <1>4, <1>5, <1>6 DEF Before, Expected
  <2>1. queue[1].id < Len(sent[Now]) /\ Len(sent[Now]) \in Nat
    BY <1>2, <1>3, <1>4, Basics DEF Valid
  <2>2. ~StartsAfresh => queue[1].id < lastId /\ lastId \in Nat
    BY <1>2, <1>3, Basics DEF Received
  <2> QED
    BY <1>3, <1>5, <1>6, <2>1, <2>2 DEF Expected
<1>8. \A i \in 1 .. Len(todo) : c # todo[i]
  BY <1>2, <1>7
<1>9. \A i \in 2 .. Len(queue) : c # queue[i]
  BY <1>2, <1>6, <1>7
<1>10. PICK i \in 1 .. Len(queue) : c = queue[i]
  BY <1>5, <1>8 DEF CompleteInv
<1>11. i = 1
  BY <1>1, <1>9, <1>10
<1> QED
  BY <1>5, <1>10, <1>11

LEMMA HeadComplete ==
  ASSUME TypeInv, CollectionInv, CompleteInv, SingleInv, InOrder, ~InFlight,
         queue # <<>>, queue[1].type # "DAT"
  PROVE  queue[1].msg <= Len(arrived)
<1>1. 1 \in 1 .. Len(queue) /\ Len(queue) \in Nat
  BY DEF TypeInv, TypeOK
<1>2. /\ queue[1].msg <= Len(sent)
      /\ \A j \in 2 .. Len(queue) : queue[j].type = "DAT" => queue[j].msg > queue[1].msg
      /\ todo # <<>> => queue[1].msg < Len(sent)
  BY <1>1 DEF SingleInv
<1>3. queue[1].msg \in Nat /\ Now \in Nat /\ Len(sent) \in Nat /\ Len(arrived) = Now - 1
  BY <1>1, Basics
<1> SUFFICES ASSUME queue[1].msg >= Now PROVE FALSE
  BY <1>3
<1>4. Now <= Len(sent)
  BY <1>2, <1>3
<1>5. PICK c \in Chunk : Expected(c) /\ Valid(c) /\ ~Received(c)
  BY <1>4, NextChunk
<1>6. c.type = "DAT" /\ c.msg = Now
  BY <1>5, PackageTypes DEF Expected
<1>7. CASE \E i \in 1 .. Len(queue) : c = queue[i]
  <2>1. PICK i \in 1 .. Len(queue) : c = queue[i]
    BY <1>7
  <2>2. i \in 2 .. Len(queue)
    BY <1>1, <1>6, <2>1
  <2> QED
    BY <1>2, <1>3, <1>6, <2>1, <2>2
<1>8. CASE \E i \in 1 .. Len(todo) : c = todo[i]
  <2>1. PICK i \in 1 .. Len(todo) : c = todo[i]
    BY <1>8
  <2>2. c = Ch(Len(sent), Len(todo) - i) /\ todo # <<>>
    BY <2>1, Basics
  <2>3. c.msg = Len(sent)
    BY <2>2 DEF Ch
  <2> QED
    BY <1>2, <1>3, <1>6, <2>2, <2>3
<1> QED
  BY <1>5, <1>7, <1>8 DEF CompleteInv

LEMMA GetEffect ==
  ASSUME TypeInv, Get
  PROVE  /\ Len(queue) \in Nat \ {0} /\ Len(queue') = Len(queue) - 1
         /\ \A i \in 1 .. Len(queue') : queue'[i] = queue[i + 1]
         /\ \/ /\ queue[1].type = "FAF" /\ air' = air \cup {queue[1]}
               /\ UNCHANGED <<offered, accepted, confirmed>>
            \/ /\ queue[1].type # "FAF" /\ UNCHANGED <<air, accepted, confirmed>>
               /\ InFlight \/ (InFlight' /\ Arriving' = queue[1])
         /\ UNCHANGED <<todo, sent, arrived, collection, lastId, rcv, stop>>
<1>1. queue \in Seq(Package) /\ queue # <<>> /\ queue' = Tail(queue)
  BY DEF Get, TypeInv, TypeOK
<1>2. /\ Head(queue) = queue[1] /\ Len(queue') = Len(queue) - 1
      /\ \A i \in 1 .. Len(queue') : queue'[i] = queue[i + 1]
  BY <1>1, HeadTailProperties
<1>3. Len(queue) \in Nat \ {0}
  BY <1>1
<1>4. CASE Head(queue).type = "FAF"
  BY <1>2, <1>3, <1>4 DEF Get, writer, link, receiver, collector
<1>5. CASE Head(queue).type # "FAF"
  <2>1. offered' = Append(offered, Head(queue)) /\ UNCHANGED <<air, accepted, confirmed>>
    BY <1>5 DEF Get, Link!Offer
  <2>2. Head(queue) \in AckPackage
    BY <1>1, <1>2, <1>3, <1>5, Basics, PackageTypes
  <2>3. Len(offered') = Len(offered) + 1 /\ offered'[Len(offered) + 1] = Head(queue)
    BY <2>1, <2>2, AppendProperties DEF TypeInv, TypeOK
  <2>4. Len(accepted) \in Nat /\ Len(offered) \in Nat /\ Len(accepted) <= Len(offered)
    BY DEF TypeInv, TypeOK, LinkInv
  <2>5. InFlight \/ (InFlight' /\ Arriving' = queue[1])
    BY <1>2, <2>1, <2>3, <2>4 DEF InFlight, Arriving
  <2> QED
    BY <1>2, <1>3, <1>5, <2>1, <2>5 DEF Get, writer, receiver, collector
<1> QED
  BY <1>4, <1>5

\* The head of the queue is taken; it is the next package on the way, or is lost.
LEMMA TailStream ==
  ASSUME OrderInv, SingleInv,
         Len(queue) \in Nat \ {0}, Len(queue') = Len(queue) - 1,
         \A i \in 1 .. Len(queue') : queue'[i] = queue[i + 1],
         InFlight' => Arriving' = queue[1],
         UNCHANGED <<todo, sent, arrived, collection, lastId>>
  PROVE  OrderInv' /\ SingleInv'
<1>0. UNCHANGED <<todo, sent, arrived, collection, lastId>> /\ OrderInv /\ SingleInv
  OBVIOUS
<1>a. /\ Len(queue) \in Nat \ {0} /\ Len(queue') = Len(queue) - 1 /\ 1 \in 1 .. Len(queue)
      /\ \A i \in 1 .. Len(queue') : queue'[i] = queue[i + 1] /\ i + 1 \in 1 .. Len(queue)
  OBVIOUS
<1>1. OrderInv'
  <2>1. ASSUME NEW i \in 1 .. Len(queue'), queue'[i].type = "DAT"
        PROVE  /\ Valid(queue[i])' /\ ~Received(queue[i])'
               /\ \A j \in i + 1 .. Len(queue') : queue'[j].type = "DAT" => Before(queue'[i], queue'[j])
               /\ \A j \in 1 .. Len(todo') : Before(queue'[i], todo'[j])
               /\ queue[1].type = "DAT" => Before(queue[1], queue'[i])
    <3>1. i + 1 \in 1 .. Len(queue) /\ queue'[i] = queue[i + 1] /\ queue[i + 1].type = "DAT"
      BY <1>a, <2>1
    <3>2. /\ Valid(queue'[i]) /\ ~Received(queue'[i])
          /\ \A j \in 1 .. Len(todo') : Before(queue'[i], todo'[j])
          /\ \A j \in i + 2 .. Len(queue) : queue[j].type = "DAT" => Before(queue'[i], queue[j])
      <4>1. i + 2 = (i + 1) + 1
        OBVIOUS
      <4> QED
        BY <1>0, <3>1, <4>1 DEF OrderInv
    <3>3. Valid(queue[i])' /\ ~Received(queue[i])'
      BY <1>0, <3>2 DEF Valid, Received, Now, StartsAfresh
    <3>4. ASSUME NEW j \in i + 1 .. Len(queue'), queue'[j].type = "DAT"
          PROVE  Before(queue'[i], queue'[j])
      <4>1. j + 1 \in i + 2 .. Len(queue) /\ queue'[j] = queue[j + 1]
        BY <1>a
      <4> QED
        BY <3>2, <3>4, <4>1
    <3>5. queue[1].type = "DAT" => Before(queue[1], queue'[i])
      <4>1. i + 1 \in 1 + 1 .. Len(queue)
        BY <1>a
      <4> QED
        BY <1>0, <1>a, <3>1, <4>1 DEF OrderInv
    <3> QED
      BY <3>2, <3>3, <3>4, <3>5
  <2>2. ASSUME NEW i \in 1 .. Len(todo')
        PROVE  ~Received(todo[i])' /\ (queue[1].type = "DAT" => Before(queue[1], todo'[i]))
    <3>1. ~Received(todo[i]) /\ (queue[1].type = "DAT" => Before(queue[1], todo[i]))
      BY <1>0, <1>a DEF OrderInv
    <3> QED
      BY <1>0, <3>1 DEF Received, Now, StartsAfresh
  <2> QED
    BY <1>0, <2>1, <2>2 DEF OrderInv, Before
<1>2. SingleInv'
  <2> SUFFICES ASSUME NEW i \in 1 .. Len(queue'), queue'[i].type # "DAT"
               PROVE  /\ queue'[i].msg <= Len(sent')
                      /\ \A j \in i + 1 .. Len(queue') : queue'[j].type = "DAT" => queue'[j].msg > queue'[i].msg
                      /\ todo' # <<>> => queue'[i].msg < Len(sent')
    BY DEF SingleInv
  <2>1. i + 1 \in 1 .. Len(queue) /\ queue'[i] = queue[i + 1]
    BY <1>a
  <2>2. ASSUME NEW j \in i + 1 .. Len(queue'), queue'[j].type = "DAT"
        PROVE  queue'[j].msg > queue'[i].msg
    <3>1. j + 1 \in (i + 1) + 1 .. Len(queue) /\ queue'[j] = queue[j + 1]
      BY <1>a
    <3> QED
      BY <1>0, <2>1, <2>2, <3>1 DEF SingleInv
  <2> QED
    BY <1>0, <2>1, <2>2 DEF SingleInv
<1> QED
  BY <1>1, <1>2

LEMMA GetStream ==
  ASSUME TypeInv, StreamInv, Get
  PROVE  StreamInv'
<1>0. UNCHANGED <<todo, sent, arrived, collection, lastId, accepted, rcv, stop>>
  BY GetEffect
<1>1. CASE ~InOrder
  BY <1>0, <1>1, GoneStream DEF InOrder
<1>2. CASE InOrder
  <2>0. ~stop /\ ~InFlight /\ InOrder /\ InOrder'
    BY <1>0, <1>2 DEF Get, TypeInv, TypeOK, GetInv, LinkInv, InFlight, InOrder
  <2>1. CollectionInv /\ OrderInv /\ CompleteInv /\ SingleInv /\ EarlierDataFirst
    BY <2>0 DEF StreamInv, AheadInv, Get, Failing
  <2>a. /\ Len(queue) \in Nat \ {0} /\ Len(queue') = Len(queue) - 1 /\ 1 \in 1 .. Len(queue)
        /\ \A i \in 1 .. Len(queue') : queue'[i] = queue[i + 1] /\ i + 1 \in 1 .. Len(queue)
    BY GetEffect
  <2>c. InFlight' => Arriving' = queue[1] /\ queue[1].type # "FAF"
    BY <2>0, GetEffect DEF InFlight
  <2>e. queue[1].type = "DAT" => InFlight' /\ Arriving' = queue[1]
    BY <2>0, GetEffect
  <2>f. \A c : (Valid(c)' <=> Valid(c)) /\ (Received(c)' <=> Received(c)) /\ (Expected(c)' <=> Expected(c))
    BY <1>0 DEF Valid, Received, Expected, Now, StartsAfresh
  <2>g. queue[1].type # "DAT" => queue[1].msg <= Len(arrived)
    BY <2>0, <2>1, HeadComplete DEF Get
  <2>2. CollectionInv'
    BY <1>0, <2>1 DEF CollectionInv, InOrder, StartsAfresh, Now
  <2>3. FlightInv'
    <3>1. queue[1].type = "DAT" => Expected(queue[1])
      BY <2>0, <2>1, HeadExpected DEF Get
    <3> SUFFICES ASSUME InFlight'
                 PROVE  IF Arriving'.type = "DAT" THEN Expected(Arriving)' ELSE Arriving'.msg <= Len(arrived')
      BY DEF FlightInv
    <3>2. Arriving' = queue[1]
      BY <2>c
    <3>3. Expected(queue[1]) => Expected(Arriving)'
      BY <1>0, <3>2 DEF Expected, Now, StartsAfresh
    <3> QED
      BY <1>0, <2>g, <3>1, <3>2, <3>3
  <2>4. EarlierDataFirst'
    <3>1. air' \subseteq air \/ (air' = air \cup {queue[1]} /\ queue[1].type = "FAF")
      BY GetEffect
    <3>2. \A p \in air' : p.msg <= Len(arrived)
      BY <2>0, <2>1, <2>g, <3>1 DEF EarlierDataFirst, InOrder
    <3> QED
      BY <1>0, <2>0, <2>1, <3>2 DEF EarlierDataFirst, InOrder
  <2>5. OrderInv' /\ SingleInv'
    BY <1>0, <2>0, <2>1, <2>a, <2>c, TailStream
  <2>6. CompleteInv'
    <3> SUFFICES ASSUME NEW c \in Chunk, Valid(c)', ~Received(c)'
                 PROVE  \/ InFlight' /\ c = Arriving'
                        \/ \E i \in 1 .. Len(queue') : c = queue'[i]
                        \/ \E i \in 1 .. Len(todo') : c = todo'[i]
      BY DEF CompleteInv
    <3>1. Valid(c) /\ ~Received(c) /\ c.type = "DAT"
      BY <2>f, PackageTypes
    <3>2. ASSUME NEW i \in 1 .. Len(queue), c = queue[i]
          PROVE  (InFlight' /\ c = Arriving') \/ \E k \in 1 .. Len(queue') : c = queue'[k]
      <4>1. CASE i = 1
        BY <2>e, <3>1, <3>2, <4>1
      <4>2. CASE i # 1
        <5>1. i - 1 \in 1 .. Len(queue') /\ (i - 1) + 1 = i
          BY <2>a, <4>2
        <5>2. queue'[i - 1] = queue[i]
          BY <2>a, <5>1
        <5> QED
          BY <3>2, <5>1, <5>2
      <4> QED
        BY <4>1, <4>2
    <3> QED
      BY <1>0, <2>0, <2>1, <3>1, <3>2 DEF CompleteInv
  <2> QED
    BY <2>2, <2>3, <2>4, <2>5, <2>6 DEF StreamInv, AheadInv
<1> QED
  BY <1>1, <1>2

LEMMA GetRaisesStream ==
  ASSUME TypeInv, StreamInv, GetRaises
  PROVE  StreamInv'
<1>0. UNCHANGED <<todo, sent, arrived, collection, lastId, offered, accepted, rcv, stop, air>>
  BY DEF GetRaises, writer, link, receiver, collector
<1>1. CASE ~InOrder
  BY <1>0, <1>1, GoneStream DEF InOrder
<1>2. CASE InOrder
  <2>0. ~stop /\ ~InFlight /\ ~InFlight'
    BY <1>0, <1>2 DEF GetRaises, TypeInv, TypeOK, GetInv, LinkInv, InFlight
  <2>a. queue \in Seq(Package) /\ queue # <<>> /\ queue' = Tail(queue)
    BY DEF GetRaises, TypeInv, TypeOK
  <2>b. /\ Len(queue) \in Nat \ {0} /\ Len(queue') = Len(queue) - 1
        /\ \A i \in 1 .. Len(queue') : queue'[i] = queue[i + 1]
    BY <2>a, HeadTailProperties
  <2>1. CollectionInv /\ OrderInv /\ SingleInv /\ EarlierDataFirst
    BY <1>2, <2>0 DEF StreamInv, AheadInv
  <2>2. CollectionInv' /\ FlightInv' /\ EarlierDataFirst'
    BY <1>0, <2>0, <2>1 DEF CollectionInv, FlightInv, EarlierDataFirst, InOrder, StartsAfresh, Now
  <2>3. OrderInv' /\ SingleInv'
    BY <1>0, <2>0, <2>1, <2>b, TailStream
  <2>4. Failing'
    BY DEF GetRaises, Failing
  <2> QED
    BY <2>2, <2>3, <2>4 DEF StreamInv, AheadInv
<1> QED
  BY <1>1, <1>2

LEMMA AcceptEffect ==
  ASSUME TypeInv, Link!Accept
  PROVE  /\ InFlight /\ ~InFlight' /\ UNCHANGED offered
         /\ Len(accepted) \in Nat /\ Len(accepted') = Len(accepted) + 1
         /\ accepted'[Len(accepted) + 1] = Arriving
         /\ \A i \in 1 .. Len(accepted) : accepted'[i] = accepted[i]
<1>1. accepted' = Append(accepted, Arriving) /\ Arriving \in AckPackage /\ Len(accepted') = Len(offered)
  BY AcceptTypes
<1>2. accepted \in Seq(AckPackage)
  BY DEF TypeInv, TypeOK
<1>3. InFlight /\ UNCHANGED offered
  BY DEF Link!Accept, InFlight
<1> QED
  BY <1>1, <1>2, <1>3, AppendProperties DEF InFlight

\* The collection once the expected chunk has its slot.
LEMMA ExpectedCollected ==
  ASSUME TypeInv, CollectionInv, InOrder, NEW c \in Chunk, Expected(c)
  PROVE  /\ Now \in 1 .. Len(sent) /\ c.id < Len(sent[Now])
         /\ Collected(c) = [i \in 1 .. Len(sent[Now]) |-> IF i > c.id THEN Ch(Now, i - 1) ELSE None]
<1>1. /\ Now \in 1 .. Len(sent) /\ Len(sent[Now]) \in Nat \ {0} /\ c.id \in Nat
      /\ c = Ch(Now, c.id)
  BY Basics, PackageTypes DEF Expected
<1>2. CASE StartsAfresh
  <2>1. c.id + 1 = Len(sent[Now])
    BY <1>1, <1>2 DEF Expected
  <2>2. Collected(c) = [i \in 1 .. c.id + 1 |-> IF i = c.id + 1 THEN c ELSE None]
    BY <1>2 DEF Collected
  <2>3. \A i \in 1 .. Len(sent[Now]) :
          (IF i = c.id + 1 THEN c ELSE None) = (IF i > c.id THEN Ch(Now, i - 1) ELSE None)
    BY <1>1, <2>1
  <2> QED
    BY <1>1, <2>1, <2>2, <2>3
<1>3. CASE ~StartsAfresh
  <2>1. /\ lastId \in Nat /\ c.id = lastId - 1 /\ lastId < Len(sent[Now])
        /\ collection = [i \in 1 .. Len(sent[Now]) |-> IF i > lastId THEN Ch(Now, i - 1) ELSE None]
    BY <1>3, Basics DEF Expected, CollectionInv
  <2>2. Collected(c) = [collection EXCEPT ![c.id + 1] = c]
    BY <1>1, <1>3, <2>1 DEF Collected
  <2>3. Collected(c) = [i \in 1 .. Len(sent[Now]) |-> IF i = c.id + 1 THEN c ELSE collection[i]]
    BY <2>1, <2>2
  <2>4. \A i \in 1 .. Len(sent[Now]) :
          (IF i = c.id + 1 THEN c ELSE collection[i]) = (IF i > c.id THEN Ch(Now, i - 1) ELSE None)
    BY <1>1, <2>1
  <2> QED
    BY <1>1, <2>1, <2>3, <2>4
<1> QED
  BY <1>1, <1>2, <1>3

\* What is left of the stream when the expected chunk c is received: the chunks
\* received by then are the ones received before, and c.
LEMMA ReceivedStream ==
  ASSUME TypeInv, StreamInv, InOrder, InFlight, NEW c \in Chunk, Arriving = c,
         ~InFlight', UNCHANGED <<sent, todo, queue, stop>>, Failing' <=> Failing,
         \A d : d.msg \in Nat /\ d.id \in Nat /\ Received(d) => Received(d)',
         \A d : d.msg \in Nat /\ d.id \in Nat /\ Received(d)' /\ ~Received(d) =>
                  d.msg = c.msg /\ d.id >= c.id,
         Received(c)'
  PROVE  AheadInv'
<1> SUFFICES ASSUME ~stop PROVE OrderInv' /\ (~Failing' => CompleteInv') /\ SingleInv'
  BY DEF AheadInv
<1>1. OrderInv /\ (~Failing => CompleteInv) /\ SingleInv
  BY DEF StreamInv, AheadInv
<1>2. c.type = "DAT" /\ c.msg \in Nat /\ c.id \in Nat
  BY PackageTypes
<1>3. ASSUME NEW d, d.msg \in Nat, d.id \in Nat, ~Received(d), Before(c, d)
      PROVE  ~Received(d)'
  BY <1>2, <1>3 DEF Before
<1>4. OrderInv'
  <2>1. ASSUME NEW i \in 1 .. Len(queue), queue[i].type = "DAT"
        PROVE  ~Received(queue[i])'
    <3>1. ~Received(queue[i]) /\ Before(c, queue[i])
      BY <1>1, <1>2, <2>1 DEF OrderInv
    <3>2. queue[i].msg \in Nat /\ queue[i].id \in Nat
      BY Basics
    <3> QED
      BY <1>3, <3>1, <3>2
  <2>2. ASSUME NEW i \in 1 .. Len(todo)
        PROVE  ~Received(todo[i])'
    <3>1. ~Received(todo[i]) /\ Before(c, todo[i])
      BY <1>1, <1>2 DEF OrderInv
    <3>2. todo[i].msg \in Nat /\ todo[i].id \in Nat
      BY PackageTypes DEF TypeInv, TypeOK
    <3> QED
      BY <1>3, <3>1, <3>2
  <2>3. \A i \in 1 .. Len(queue) : queue[i].type = "DAT" =>
          /\ Valid(queue[i])'
          /\ \A j \in i + 1 .. Len(queue) : queue[j].type = "DAT" => Before(queue[i], queue[j])
          /\ \A j \in 1 .. Len(todo) : Before(queue[i], todo[j])
    BY <1>1 DEF OrderInv, Valid
  <2> QED
    BY <2>1, <2>2, <2>3 DEF OrderInv, Before
<1>5. ASSUME ~Failing' PROVE CompleteInv'
  <2>0. CompleteInv
    BY <1>1, <1>5
  <2> SUFFICES ASSUME NEW d \in Chunk, Valid(d)', ~Received(d)'
               PROVE  \/ \E i \in 1 .. Len(queue) : d = queue[i]
                      \/ \E i \in 1 .. Len(todo) : d = todo[i]
    BY DEF CompleteInv
  <2>1. Valid(d) /\ ~Received(d)
    BY PackageTypes DEF Valid
  <2>2. d # c
    OBVIOUS
  <2> QED
    BY <2>0, <2>1, <2>2 DEF CompleteInv
<1>6. SingleInv'
  BY <1>1 DEF SingleInv
<1> QED
  BY <1>4, <1>5, <1>6

LEMMA ReceiveChunkStream ==
  ASSUME TypeInv, StreamInv, ReceiveChunk
  PROVE  StreamInv'
<1>0. /\ UNCHANGED <<sent, todo, queue, stop, air, rcv, arrived, offered>>
      /\ InFlight /\ ~InFlight' /\ Now' = Now /\ (Failing' <=> Failing)
  BY AcceptEffect DEF ReceiveChunk, writer, sender, Now, Failing
<1>1. CASE ~InOrder
  BY <1>0, <1>1, GoneStream DEF InOrder
<1>2. CASE InOrder
  <2> DEFINE c == Arriving
  <2>1. c \in Chunk /\ c.type = "DAT" /\ c.id \in Nat \ {0} /\ c = Ch(c.msg, c.id) /\ c.msg \in Nat
    BY AcceptTypes, PackageTypes DEF ReceiveChunk
  <2>2. Expected(c) /\ CollectionInv
    BY <1>0, <1>2, <2>1 DEF StreamInv, FlightInv
  <2>3. /\ Now \in 1 .. Len(sent) /\ c.id < Len(sent[Now]) /\ c.msg = Now
        /\ collection' = [i \in 1 .. Len(sent[Now]) |-> IF i > c.id THEN Ch(Now, i - 1) ELSE None]
        /\ lastId' = c.id
    BY <1>2, <2>1, <2>2, ExpectedCollected DEF ReceiveChunk, Expected
  <2>4. ~StartsAfresh'
    BY <2>1, <2>3 DEF StartsAfresh
  <2>d. \A d : Received(d)' <=> d.msg < Now \/ (d.msg = Now /\ d.id >= c.id)
    BY <1>0, <2>3, <2>4 DEF Received
  <2>5. CollectionInv'
    BY <1>0, <1>2, <2>2, <2>3, <2>4 DEF CollectionInv
  <2>6. FlightInv'
    BY <1>0 DEF FlightInv
  <2>7. AheadInv'
    <3>1. ASSUME NEW d, d.msg \in Nat, d.id \in Nat, Received(d) PROVE Received(d)'
      <4>1. CASE d.msg = Now /\ ~StartsAfresh /\ d.id >= lastId
        <5>1. lastId \in Nat /\ c.id = lastId - 1
          BY <2>2, <4>1, Basics DEF Expected
        <5>2. d.id >= c.id
          BY <2>1, <3>1, <4>1, <5>1
        <5> QED
          BY <2>d, <4>1, <5>2
      <4> QED
        BY <2>d, <3>1, <4>1 DEF Received
    <3>2. ASSUME NEW d, d.msg \in Nat, d.id \in Nat, Received(d)', ~Received(d)
          PROVE  d.msg = c.msg /\ d.id >= c.id
      BY <2>3, <2>d, <3>2 DEF Received
    <3>3. ASSUME NEW d, d = c PROVE Received(d)'
      BY <2>1, <2>3, <2>d, <3>3
    <3> HIDE DEF c
    <3> QED
      BY <1>0, <1>2, <2>1, <3>1, <3>2, <3>3, ReceivedStream DEF c
  <2>8. EarlierDataFirst'
    <3>1. ASSUME NEW i \in 1 .. Len(accepted'), accepted'[i].type = "END"
          PROVE  accepted'[i].msg <= Len(arrived)
      <4>1. i \in 1 .. Len(accepted) /\ accepted'[i] = accepted[i]
        BY <2>1, <3>1, AcceptEffect DEF ReceiveChunk
      <4> QED
        BY <1>2, <3>1, <4>1 DEF StreamInv, EarlierDataFirst, InOrder
    <3> QED
      BY <1>0, <1>2, <3>1 DEF StreamInv, EarlierDataFirst, InOrder
  <2> QED
    BY <2>5, <2>6, <2>7, <2>8 DEF StreamInv
<1> QED
  BY <1>1, <1>2

\* The last chunk completes the message that is next.
LEMMA LastChunkAssembled ==
  ASSUME TypeInv, StreamInv, ReceiveLastChunk, InOrder
  PROVE  /\ Now \in 1 .. Len(sent)
         /\ Expected(Arriving) /\ Arriving \in Chunk /\ Arriving.id = 0 /\ Arriving.msg = Now
         /\ Assembled(Arriving) = sent[Now]
<1>1. Arriving \in Chunk /\ Arriving.type = "DAT" /\ Arriving.id = 0
  BY AcceptTypes, PackageTypes DEF ReceiveLastChunk
<1>2. Expected(Arriving) /\ CollectionInv
  BY <1>1, AcceptEffect DEF StreamInv, FlightInv, ReceiveLastChunk
<1>3. /\ Now \in 1 .. Len(sent)
      /\ Collected(Arriving) = [i \in 1 .. Len(sent[Now]) |-> IF i > 0 THEN Ch(Now, i - 1) ELSE None]
  BY <1>1, <1>2, ExpectedCollected
<1>4. Len(sent[Now]) \in Nat /\ sent[Now] = [i \in 1 .. Len(sent[Now]) |-> Ch(Now, Len(sent[Now]) - i)]
  BY <1>3 DEF TypeInv, SentInv, Chunks, Ch
<1>5. Collected(Arriving) = [i \in 1 .. Len(sent[Now]) |-> Ch(Now, i - 1)]
  BY <1>3, <1>4
<1>6. Len(Collected(Arriving)) = Len(sent[Now])
  BY <1>4, <1>5
<1>7. Assembled(Arriving) = [i \in 1 .. Len(sent[Now]) |-> Collected(Arriving)[(Len(sent[Now]) - i) + 1]]
  BY <1>6 DEF Assembled, Reverse
<1>8. \A i \in 1 .. Len(sent[Now]) :
        Collected(Arriving)[(Len(sent[Now]) - i) + 1] = Ch(Now, Len(sent[Now]) - i)
  <2> SUFFICES ASSUME NEW i \in 1 .. Len(sent[Now])
               PROVE  Collected(Arriving)[(Len(sent[Now]) - i) + 1] = Ch(Now, Len(sent[Now]) - i)
    OBVIOUS
  <2>1. /\ (Len(sent[Now]) - i) + 1 \in 1 .. Len(sent[Now])
        /\ ((Len(sent[Now]) - i) + 1) - 1 = Len(sent[Now]) - i
    BY <1>4
  <2> QED
    BY <1>5, <2>1
<1>9. Assembled(Arriving) = sent[Now]
  BY <1>4, <1>7, <1>8
<1> QED
  BY <1>1, <1>2, <1>3, <1>9 DEF Expected

LEMMA ReceiveLastChunkStream ==
  ASSUME TypeInv, StreamInv, ReceiveLastChunk
  PROVE  StreamInv'
<1>0. /\ UNCHANGED <<sent, todo, queue, stop, air, rcv, offered>>
      /\ InFlight /\ ~InFlight' /\ (Failing' <=> Failing)
  BY AcceptEffect DEF ReceiveLastChunk, writer, sender, Failing
<1>1. CASE ~InOrder
  BY <1>0, <1>1, GoneStream DEF InOrder
<1>2. CASE InOrder
  <2> DEFINE c == Arriving
  <2>1. c \in Chunk /\ c.type = "DAT" /\ c.id = 0 /\ c.msg = Now /\ Expected(c) /\ Now \in 1 .. Len(sent)
    BY <1>2, LastChunkAssembled, PackageTypes
  <2>2. arrived \in Seq(Seq(Chunk)) /\ Assembled(c) \in Seq(Chunk)
    BY <2>1, AssembledTypes DEF ReceiveLastChunk, TypeInv, TypeOK
  <2>3. arrived' = Append(arrived, Assembled(c)) /\ lastId' = 0
    BY <1>2 DEF ReceiveLastChunk, Receiving, InOrder
  <2> HIDE DEF c
  <2>4. Len(arrived') = Now /\ Now' = Now + 1 /\ StartsAfresh' /\ Now \in Nat \ {0} /\ Len(arrived) = Now - 1
    BY <2>2, <2>3, AppendProperties, Basics DEF Now, StartsAfresh
  <2>d. \A d : Received(d)' <=> d.msg < Now + 1
    BY <2>4 DEF Received
  <2>5. CollectionInv'
    BY <1>0, <2>1, <2>4 DEF CollectionInv
  <2>6. FlightInv'
    BY <1>0 DEF FlightInv
  <2>7. AheadInv'
    <3>1. ASSUME NEW d, d.msg \in Nat, d.id \in Nat, Received(d) PROVE Received(d)'
      <4>1. CASE d.msg < Now
        BY <2>4, <2>d, <3>1, <4>1
      <4>2. CASE d.msg = Now
        BY <2>4, <2>d, <4>2
      <4> QED
        BY <3>1, <4>1, <4>2 DEF Received
    <3>2. ASSUME NEW d, d.msg \in Nat, d.id \in Nat, Received(d)', ~Received(d)
          PROVE  d.msg = c.msg /\ d.id >= c.id
      BY <2>1, <2>4, <2>d, <3>2 DEF Received
    <3>3. ASSUME NEW d, d = c PROVE Received(d)'
      BY <2>1, <2>4, <2>d, <3>3
    <3> QED
      BY <1>0, <1>2, <2>1, <3>1, <3>2, <3>3, ReceivedStream DEF c
  <2>8. EarlierDataFirst'
    <3>1. ASSUME NEW i \in 1 .. Len(accepted'), accepted'[i].type = "END"
          PROVE  i \in 1 .. Len(accepted) /\ accepted'[i] = accepted[i]
      BY <2>1, <3>1, AcceptEffect DEF ReceiveLastChunk, c
    <3>2. /\ \A p \in air : p.msg <= Len(arrived) /\ p.msg \in Nat
          /\ \A i \in 1 .. Len(accepted) : accepted[i].type = "END" =>
               accepted[i].msg <= Len(arrived) /\ accepted[i].msg \in Nat
      BY <1>2, PackageTypes DEF StreamInv, EarlierDataFirst, InOrder, TypeInv, TypeOK, Faf, Single
    <3>3. \A n \in Nat : n <= Len(arrived) => n <= Len(arrived')
      BY <2>4
    <3> QED
      BY <1>0, <3>1, <3>2, <3>3 DEF EarlierDataFirst
  <2> QED
    BY <2>5, <2>6, <2>7, <2>8 DEF StreamInv
<1> QED
  BY <1>1, <1>2

LEMMA ReceiveEndStream ==
  ASSUME TypeInv, StreamInv, ReceiveEnd
  PROVE  StreamInv'
<1>0. /\ UNCHANGED <<sent, todo, queue, stop, air, arrived, collection, lastId, offered>>
      /\ InFlight /\ ~InFlight' /\ InOrder' = (rcv = "up") /\ (Failing' <=> Failing)
  BY AcceptEffect DEF ReceiveEnd, writer, sender, collector, InOrder, Failing
<1>1. CASE ~InOrder
  BY <1>0, <1>1, GoneStream DEF InOrder
<1>2. CASE InOrder
  <2>1. Arriving.type = "END" /\ Arriving.msg <= Len(arrived)
    BY <1>0, <1>2 DEF ReceiveEnd, StreamInv, FlightInv
  <2>d. \A c : (Valid(c)' <=> Valid(c)) /\ (Received(c)' <=> Received(c))
    BY <1>0 DEF Valid, Received, Now, StartsAfresh
  <2>2. CollectionInv'
    BY <1>0, <1>2 DEF StreamInv, CollectionInv, StartsAfresh, Now
  <2>3. FlightInv'
    BY <1>0 DEF FlightInv
  <2>4. AheadInv'
    <3> SUFFICES ASSUME ~stop PROVE OrderInv' /\ (~Failing' => CompleteInv') /\ SingleInv'
      BY <1>0 DEF AheadInv
    <3>1. OrderInv /\ (~Failing => CompleteInv) /\ SingleInv
      BY <1>2 DEF StreamInv, AheadInv
    <3>2. OrderInv'
      BY <1>0, <3>1 DEF OrderInv, Before, Valid, Received, Now, StartsAfresh
    <3>3. ~Failing' => CompleteInv'
      BY <1>0, <2>1, <2>d, <3>1, PackageTypes DEF CompleteInv
    <3>4. SingleInv'
      BY <1>0, <3>1 DEF SingleInv
    <3> QED
      BY <3>2, <3>3, <3>4
  <2>5. EarlierDataFirst'
    <3>1. ASSUME NEW i \in 1 .. Len(accepted'), accepted'[i].type = "END"
          PROVE  accepted'[i].msg <= Len(arrived)
      <4>1. CASE i \in 1 .. Len(accepted)
        BY <1>2, <3>1, <4>1, AcceptEffect DEF ReceiveEnd, StreamInv, EarlierDataFirst, InOrder
      <4>2. CASE i \notin 1 .. Len(accepted)
        BY <2>1, <4>2, AcceptEffect DEF ReceiveEnd
      <4> QED
        BY <4>1, <4>2
    <3> QED
      BY <1>0, <1>2, <3>1 DEF StreamInv, EarlierDataFirst, InOrder
  <2> QED
    BY <2>2, <2>3, <2>4, <2>5 DEF StreamInv
<1> QED
  BY <1>1, <1>2

LEMMA StepStream ==
  ASSUME TypeInv, StreamInv, [Next]_vars
  PROVE  StreamInv'
<1> USE DEF writer, sender, link, receiver, collector
<1>1. CASE UNCHANGED vars
  BY <1>1, QuietStream DEF vars, Failing
<1>2. CASE Send \/ PutChunk \/ SendFaf \/ QueueEnd \/ CaughtQueuesEnd
  BY <1>2, SendStream, PutChunkStream, SendFafStream, EndStream
<1>3. CASE Get \/ GetRaises
  BY <1>3, GetStream, GetRaisesStream
<1>4. CASE Look \/ Acked \/ Cancelled \/ TimesOut \/ StopSending
  BY <1>4, QuietStream DEF Look, Acked, Cancelled, TimesOut, StopSending, EndConnection, Link!Confirm, Failing
<1>9. CASE KeepaliveRaises \/ ResendRaises \/ CaughtDisconnects \/ CaughtFlushed
  BY <1>9, QuietStream
     DEF KeepaliveRaises, ResendRaises, CaughtDisconnects, CaughtFlushed, EndConnection, Failing
<1>5. CASE Disconnect \/ Flushed \/ HearEnd \/ LoseFaf \/ Receive
  BY <1>5, QuietStream DEF Disconnect, Flushed, HearEnd, LoseFaf, Receive, EndConnection, Failing
<1>6. CASE Leave \/ Left \/ ReceiveRaises
  BY <1>6, GoneStream DEF Leave, Left, ReceiveRaises, InOrder
<1>7. CASE ReceiveChunk \/ ReceiveLastChunk \/ ReceiveEnd
  BY <1>7, ReceiveChunkStream, ReceiveLastChunkStream, ReceiveEndStream
<1>8. CASE ReceiveFaf
  <2>1. air' \subseteq air
    BY <1>8 DEF ReceiveFaf
  <2> QED
    BY <1>8, <2>1, QuietStream DEF ReceiveFaf, Failing
<1> QED
  BY <1>1, <1>2, <1>3, <1>4, <1>5, <1>6, <1>7, <1>8, <1>9 DEF Next, SendThread, ReceiveThread

THEOREM MessagesInvariant == Spec => [](TypeInv /\ StreamInv)
<1>1. Init => TypeInv /\ StreamInv
  BY InitTypes, InitStream
<1>2. TypeInv /\ StreamInv /\ [Next]_vars => TypeInv' /\ StreamInv'
  BY StepTypes, StepStream
<1> QED
  BY <1>1, <1>2, PTL DEF Spec

\* The types of Messages, whatever the number of messages, chunks and FAF packages.
THEOREM MessagesTypeCorrect == Spec => []TypeOK
<1>1. TypeInv => TypeOK
  BY DEF TypeInv
<1> QED
  BY <1>1, MessagesInvariant, PTL

\* Whatever send() and disconnect() queue while the send and the receive thread work:
\* a fire-and-forget package leaves, and an END is handled, after all earlier data.
THEOREM NothingOvertakes == Spec => []EarlierDataFirst
<1>1. StreamInv => EarlierDataFirst
  BY DEF StreamInv
<1> QED
  BY <1>1, MessagesInvariant, PTL

\* A step of Messages sends a message, delivers the next one, or does neither.
LEMMA StepMessageQueue ==
  ASSUME TypeInv, StreamInv, [Next]_vars
  PROVE  [Messages!Next]_<<sent, arrived>>
<1> USE DEF writer, sender, link, receiver, collector
<1>1. CASE Send
  <2>1. PICK n \in 1 .. MaxChunks : todo' = Chunks(Len(sent) + 1, n)
    BY <1>1 DEF Send
  <2>2. Len(sent) + 1 \in 1 .. MaxMessages /\ sent' = Append(sent, todo') /\ UNCHANGED arrived
    BY <1>1 DEF Send, TypeInv, TypeOK
  <2>3. todo' \in Data
    BY <2>1, <2>2 DEF Data
  <2> QED
    BY <2>2, <2>3 DEF Messages!Next, Messages!Send
<1>2. CASE ReceiveLastChunk
  <2>1. CASE rcv = "up"
    <3>1. Now \in 1 .. Len(sent) /\ Assembled(Arriving) = sent[Now]
      BY <1>2, <2>1, LastChunkAssembled DEF InOrder
    <3>2. arrived' = Append(arrived, sent[Now]) /\ UNCHANGED sent
      BY <1>2, <2>1, <3>1 DEF ReceiveLastChunk
    <3>3. Len(arrived) < Len(sent)
      BY <3>1, Basics
    <3> QED
      BY <3>2, <3>3 DEF Messages!Next, Messages!Arrive, Now
  <2>2. CASE rcv # "up"
    BY <1>2, <2>2 DEF ReceiveLastChunk
  <2> QED
    BY <2>1, <2>2
<1>3. CASE PutChunk \/ SendFaf \/ Disconnect \/ QueueEnd \/ Flushed \/ Leave \/ HearEnd \/ Left
  BY <1>3 DEF PutChunk, SendFaf, Disconnect, QueueEnd, Flushed, Leave, HearEnd, Left
<1>4. CASE SendThread
  BY <1>4
     DEF SendThread, Look, Get, GetRaises, KeepaliveRaises, Acked, Cancelled, ResendRaises, TimesOut,
         CaughtDisconnects, CaughtQueuesEnd, CaughtFlushed, StopSending
<1>5. CASE ReceiveChunk \/ ReceiveRaises \/ ReceiveEnd \/ ReceiveFaf \/ LoseFaf \/ Receive
  BY <1>5 DEF ReceiveChunk, ReceiveRaises, ReceiveEnd, ReceiveFaf, LoseFaf, Receive
<1>6. CASE UNCHANGED vars
  BY <1>6 DEF vars
<1> QED
  BY <1>1, <1>2, <1>3, <1>4, <1>5, <1>6 DEF Next, ReceiveThread

\* What send() is given arrives whole, once and in order, for messages of any number
\* and length, at any interleaving of the four threads, until the receiver leaves.
THEOREM DataArrivesInOrder == Spec => ImplementsMessageQueue
<1>1. Init => Messages!Init
  BY DEF Init, Messages!Init
<1>2. TypeInv /\ StreamInv /\ [Next]_vars => [Messages!Next]_<<sent, arrived>>
  BY StepMessageQueue
<1> QED
  BY <1>1, <1>2, MessagesInvariant, PTL DEF Spec, ImplementsMessageQueue, Messages!Spec, Messages!vars
-----------------------------------------------------------------------------
(* The link, and what may be lost between the threads.                     *)

\* The send thread keeps to the link's one package at a time without being held back.
THEOREM OnePackageAtATime == Spec => []OneAtATime
<1>1. TypeInv => OneAtATime
  BY DEF TypeInv, LinkInv, OneAtATime
<1> QED
  BY <1>1, MessagesInvariant, PTL

LEMMA StreamLosesNothing ==
  ASSUME TypeInv, StreamInv
  PROVE  NothingLost
<1> SUFFICES ASSUME InOrder, ~stop, ~Failing, NEW m \in Len(arrived) + 1 .. Len(sent), NEW i \in DOMAIN sent[m]
             PROVE  sent[m][i] \in OnItsWay \cup Range(collection)
  BY DEF NothingLost, InOrder, Range
<1> DEFINE c == sent[m][i]
<1>1. m \in 1 .. Len(sent) /\ m >= Now /\ Now \in Nat \ {0}
  BY Basics DEF Now
<1>2. /\ Len(sent[m]) \in 1 .. MaxChunks /\ m \in 1 .. MaxMessages
      /\ sent[m] = Chunks(m, Len(sent[m])) /\ i \in 1 .. Len(sent[m])
  <2>1. Len(sent[m]) \in 1 .. MaxChunks /\ sent[m] = Chunks(m, Len(sent[m]))
    BY <1>1 DEF TypeInv, SentInv
  <2>2. DOMAIN Chunks(m, Len(sent[m])) = 1 .. Len(sent[m])
    BY DEF Chunks
  <2>3. m \in 1 .. MaxMessages
    BY <1>1, Basics DEF TypeInv, SentInv
  <2> QED
    BY <2>1, <2>2, <2>3
<1>3. c = Ch(m, Len(sent[m]) - i) /\ c \in Chunk
  <2>1. c = Ch(m, Len(sent[m]) - i)
    BY <1>2, ChunksType
  <2> QED
    BY <1>2, <2>1 DEF Ch, Chunk
<1>4. c.msg = m /\ c.id = Len(sent[m]) - i /\ c.id \in Nat /\ c.id < Len(sent[m])
  BY <1>2, <1>3 DEF Ch
<1>5. Valid(c)
  BY <1>1, <1>4 DEF Valid
<1> HIDE DEF c
<1>6. CASE ~Received(c)
  <2>1. \/ InFlight /\ c = Arriving
        \/ \E j \in 1 .. Len(queue) : c = queue[j]
        \/ \E j \in 1 .. Len(todo) : c = todo[j]
    BY <1>3, <1>5, <1>6 DEF StreamInv, AheadInv, CompleteInv
  <2>2. CASE InFlight /\ c = Arriving
    <3>1. Len(accepted) + 1 \in Len(accepted) + 1 .. Len(offered)
      BY <2>2 DEF InFlight, TypeInv, TypeOK
    <3> QED
      BY <2>2, <3>1 DEF Arriving, OnItsWay, c
  <2>3. CASE \E j \in 1 .. Len(queue) : c = queue[j]
    <3>1. DOMAIN queue = 1 .. Len(queue)
      BY DEF TypeInv, TypeOK
    <3> QED
      BY <2>3, <3>1 DEF OnItsWay, Range, c
  <2>4. CASE \E j \in 1 .. Len(todo) : c = todo[j]
    <3>1. DOMAIN todo = 1 .. Len(todo)
      BY DEF TypeInv, TypeOK
    <3> QED
      BY <2>4, <3>1 DEF OnItsWay, Range, c
  <2> QED
    BY <2>1, <2>2, <2>3, <2>4
<1>7. CASE Received(c)
  <2>1. m = Now /\ ~StartsAfresh /\ c.id >= lastId
    BY <1>1, <1>4, <1>7 DEF Received
  <2>2. /\ collection = [k \in 1 .. Len(sent[Now]) |-> IF k > lastId THEN Ch(Now, k - 1) ELSE None]
        /\ lastId \in Nat
    BY <2>1, Basics DEF StreamInv, CollectionInv
  <2>3. c.id + 1 \in 1 .. Len(sent[Now]) /\ c.id + 1 > lastId /\ (c.id + 1) - 1 = c.id
    BY <1>2, <1>4, <2>1, <2>2
  <2>4. c = Ch(Now, c.id)
    BY <1>3, <1>4, <2>1
  <2>5. c.id + 1 \in DOMAIN collection /\ collection[c.id + 1] = c
    BY <2>2, <2>3, <2>4
  <2> QED
    BY <2>5 DEF Range, c
<1> QED
  BY <1>6, <1>7

\* No chunk is lost between the threads and the link while the connection lasts and no
\* sendto has raised an exception, for messages of any number and length.
THEOREM NothingIsLost == Spec => []NothingLost
<1>1. TypeInv /\ StreamInv => NothingLost
  BY StreamLosesNothing
<1> QED
  BY <1>1, MessagesInvariant, PTL

LEMMA NoGap ==
  ASSUME TypeInv, StreamInv, ReceiveRaises
  PROVE  ~InOrder
<1> SUFFICES ASSUME InOrder PROVE FALSE
  OBVIOUS
<1>1. Arriving \in Chunk /\ Arriving.type = "DAT" /\ Arriving.id = 0
  BY AcceptTypes, PackageTypes DEF ReceiveRaises
<1>2. Expected(Arriving) /\ CollectionInv
  BY <1>1, AcceptEffect DEF StreamInv, FlightInv, ReceiveRaises
<1>3. Collected(Arriving) = [i \in 1 .. Len(sent[Now]) |-> IF i > 0 THEN Ch(Now, i - 1) ELSE None]
  BY <1>1, <1>2, ExpectedCollected
<1>4. Len(sent[Now]) \in Nat /\ Now \in 1 .. MaxMessages
  BY <1>1, <1>2, Basics DEF Expected, TypeInv, SentInv
<1>5. ASSUME NEW i \in 1 .. Len(sent[Now]) PROVE Collected(Arriving)[i] # None
  <2>1. Collected(Arriving)[i] = Ch(Now, i - 1)
    BY <1>3, <1>4
  <2>2. i - 1 \in 0 .. MaxChunks - 1
    BY <1>2, <1>4, Basics DEF TypeInv, SentInv, Expected
  <2>3. Ch(Now, i - 1) \in Chunk
    BY <1>4, <2>2 DEF Ch, Chunk
  <2> QED
    BY <2>1, <2>3
<1>6. Complete(Collected(Arriving))
  BY <1>3, <1>5 DEF Complete
<1> QED
  BY <1>6 DEF ReceiveRaises

\* The join of the chunks raises no TypeError before the client calls disconnect().
THEOREM NoGapBeforeLeaving == Spec => NoGapWhileUp
<1>1. TypeInv /\ StreamInv /\ [Next]_vars => [ReceiveRaises => rcv # "up"]_vars
  BY NoGap DEF InOrder
<1> QED
  BY <1>1, MessagesInvariant, PTL DEF Spec, NoGapWhileUp
-----------------------------------------------------------------------------
(* disconnect().                                                           *)

\* The END of a disconnect() that waits is queued, or has been taken from the queue
\* after all the data ahead of it had arrived.
EndInv ==
  flushing # None /\ ~stop /\ InOrder =>
    \/ flushing <= Len(arrived)
    \/ \E i \in 1 .. Len(queue) : queue[i].type = "END" /\ queue[i].msg = flushing

LEMMA ArrivedGrows ==
  ASSUME TypeInv, [Next]_vars
  PROVE  Len(arrived) \in Nat /\ Len(arrived') \in Nat /\ Len(arrived) <= Len(arrived')
<1> USE DEF writer, sender, link, receiver, collector
<1>1. arrived \in Seq(Seq(Chunk)) /\ Len(arrived) \in Nat
  BY DEF TypeInv, TypeOK
<1>2. CASE ReceiveLastChunk
  <2>1. arrived' = arrived \/ arrived' = Append(arrived, Assembled(Arriving))
    BY <1>2 DEF ReceiveLastChunk
  <2>2. Len(Append(arrived, Assembled(Arriving))) = Len(arrived) + 1
    BY <1>1
  <2> QED
    BY <1>1, <2>1, <2>2
<1>3. CASE UNCHANGED arrived
  BY <1>1, <1>3
<1>4. CASE SendThread
  BY <1>3, <1>4
     DEF SendThread, Look, Get, GetRaises, KeepaliveRaises, Acked, Cancelled, ResendRaises, TimesOut,
         CaughtDisconnects, CaughtQueuesEnd, CaughtFlushed, StopSending
<1>5. CASE ReceiveThread \/ LoseFaf \/ Receive
  BY <1>2, <1>3, <1>5
     DEF ReceiveThread, ReceiveChunk, ReceiveRaises, ReceiveEnd, ReceiveFaf, LoseFaf, Receive
<1>6. CASE Send \/ PutChunk \/ SendFaf \/ Disconnect \/ QueueEnd \/ Flushed \/ Leave \/ HearEnd \/ Left
  BY <1>3, <1>6 DEF Send, PutChunk, SendFaf, Disconnect, QueueEnd, Flushed, Leave, HearEnd, Left
<1>7. CASE UNCHANGED vars
  BY <1>3, <1>7 DEF vars
<1> QED
  BY <1>4, <1>5, <1>6, <1>7 DEF Next

\* A step that takes nothing from the queue, unless it ends the connection.
LEMMA EndStays ==
  ASSUME TypeInv, EndInv, [Next]_vars, UNCHANGED flushing, stop => stop', InOrder' => InOrder,
         \/ stop' \/ UNCHANGED queue
         \/ \E p \in Package : queue' = Append(queue, p)
  PROVE  EndInv'
<1>1. Len(arrived) \in Nat /\ Len(arrived') \in Nat /\ Len(arrived) <= Len(arrived')
  BY ArrivedGrows
<1>2. flushing \in 0 .. MaxMessages \cup {None} /\ queue \in Seq(Package) /\ Len(queue) \in Nat
  BY DEF TypeInv, TypeOK
<1> SUFFICES ASSUME flushing # None, ~stop', InOrder', ~(flushing <= Len(arrived'))
             PROVE  \E i \in 1 .. Len(queue') : queue'[i].type = "END" /\ queue'[i].msg = flushing
  BY DEF EndInv
<1>3. PICK i \in 1 .. Len(queue) : queue[i].type = "END" /\ queue[i].msg = flushing
  BY <1>1, <1>2 DEF EndInv
<1>4. i \in 1 .. Len(queue') /\ queue'[i] = queue[i]
  <2>1. CASE \E p \in Package : queue' = Append(queue, p)
    BY <1>2, <1>3, <2>1, AppendProperties
  <2> QED
    BY <1>3, <2>1
<1> QED
  BY <1>3, <1>4

LEMMA QueueEndEnds ==
  ASSUME TypeInv, QueueEnd
  PROVE  EndInv'
<1>1. queue \in Seq(Package) /\ EndPackage \in Package /\ EndPackage.type = "END"
  BY EndPackageType DEF TypeInv, TypeOK
<1>2. queue' = Append(queue, EndPackage) /\ flushing' = EndPackage.msg
  BY DEF QueueEnd
<1>3. Len(queue') = Len(queue) + 1 /\ queue'[Len(queue) + 1] = EndPackage /\ Len(queue) \in Nat
  BY <1>1, <1>2, AppendProperties
<1>4. Len(queue) + 1 \in 1 .. Len(queue')
  BY <1>3
<1> HIDE DEF EndPackage
<1> QED
  BY <1>1, <1>2, <1>3, <1>4 DEF EndInv

\* The END is taken when no earlier package is on its way.
LEMMA TakenEnd ==
  ASSUME TypeInv, StreamInv, EndInv, Get \/ GetRaises
  PROVE  EndInv'
<1>1. queue \in Seq(Package) /\ queue # <<>> /\ queue' = Tail(queue) /\ snd = "get"
  BY DEF Get, GetRaises, TypeInv, TypeOK
<1>2. /\ Len(queue) \in Nat \ {0} /\ Len(queue') = Len(queue) - 1
      /\ \A i \in 1 .. Len(queue') : queue'[i] = queue[i + 1]
  BY <1>1, HeadTailProperties
<1>3. UNCHANGED <<flushing, stop, rcv, arrived>>
  BY DEF Get, GetRaises, receiver
<1> SUFFICES ASSUME flushing # None, ~stop, InOrder, ~(flushing <= Len(arrived))
             PROVE  \E i \in 1 .. Len(queue') : queue'[i].type = "END" /\ queue'[i].msg = flushing
  BY <1>3 DEF EndInv, InOrder
<1>4. PICK i \in 1 .. Len(queue) : queue[i].type = "END" /\ queue[i].msg = flushing
  BY DEF EndInv
<1>5. i # 1
  <2>1. ~InFlight
    BY <1>1 DEF TypeInv, TypeOK, LinkInv, InFlight
  <2>2. CollectionInv /\ CompleteInv /\ SingleInv
    BY <1>1 DEF StreamInv, AheadInv, Failing
  <2>3. queue[1].type # "DAT" => queue[1].msg <= Len(arrived)
    BY <1>1, <2>1, <2>2, HeadComplete
  <2> QED
    BY <1>4, <2>3
<1>6. i - 1 \in 1 .. Len(queue') /\ queue'[i - 1] = queue[(i - 1) + 1] /\ (i - 1) + 1 = i
  BY <1>2, <1>4, <1>5
<1> QED
  BY <1>4, <1>6

LEMMA StepEnd ==
  ASSUME TypeInv, StreamInv, EndInv, [Next]_vars
  PROVE  EndInv'
<1> USE DEF writer, sender, link, receiver, collector
<1>1. CASE QueueEnd \/ Get \/ GetRaises
  BY <1>1, QueueEndEnds, TakenEnd
<1>2. CASE PutChunk \/ SendFaf \/ CaughtQueuesEnd
  <2>1. PICK p \in Package : queue' = Append(queue, p)
    <3>1. CASE PutChunk
      <4>1. todo \in Seq(Chunk) /\ todo # <<>> /\ queue' = Append(queue, Head(todo))
        BY <3>1 DEF PutChunk, TypeInv, TypeOK
      <4> QED
        BY <4>1, HeadTailProperties, PackageTypes
    <3>2. CASE SendFaf
      <4>1. FafPackage \in Package
        BY DEF FafPackage, Package, Single, TypeInv, SentInv, TypeOK
      <4> QED
        BY <3>2, <4>1 DEF SendFaf
    <3>3. CASE CaughtQueuesEnd
      BY <3>3, EndPackageType DEF CaughtQueuesEnd
    <3> QED
      BY <1>2, <3>1, <3>2, <3>3
  <2>2. UNCHANGED <<flushing, stop, rcv>>
    BY <1>2 DEF PutChunk, SendFaf, CaughtQueuesEnd
  <2> QED
    BY <2>1, <2>2, EndStays DEF InOrder
<1>3. CASE UNCHANGED <<flushing, queue, stop>> /\ (InOrder' => InOrder)
  BY <1>3, EndStays
<1>4. CASE stop'
  BY <1>4 DEF EndInv
<1>5. CASE Flushed \/ HearEnd \/ TimesOut \/ CaughtDisconnects \/ CaughtFlushed
  BY <1>3, <1>4, <1>5 DEF Flushed, HearEnd, TimesOut, CaughtDisconnects, CaughtFlushed, EndConnection, InOrder
<1>6. CASE Look \/ KeepaliveRaises \/ Acked \/ Cancelled \/ ResendRaises \/ StopSending
  BY <1>3, <1>6 DEF Look, KeepaliveRaises, Acked, Cancelled, ResendRaises, StopSending, InOrder
<1>7. CASE Send \/ Disconnect \/ Leave \/ Left
  BY <1>3, <1>7 DEF Send, Disconnect, Leave, Left, InOrder
<1>8. CASE ReceiveChunk \/ ReceiveLastChunk \/ ReceiveRaises \/ ReceiveEnd
  BY <1>3, <1>8 DEF ReceiveChunk, ReceiveLastChunk, ReceiveRaises, ReceiveEnd, InOrder
<1>9. CASE ReceiveFaf \/ LoseFaf \/ Receive
  BY <1>3, <1>9 DEF ReceiveFaf, LoseFaf, Receive, InOrder
<1>10. CASE UNCHANGED vars
  BY <1>3, <1>10 DEF vars, InOrder
<1> QED
  BY <1>1, <1>2, <1>5, <1>6, <1>7, <1>8, <1>9, <1>10 DEF Next, SendThread, ReceiveThread

LEMMA FlushedDelivers ==
  ASSUME TypeInv, EndInv, Flushed, InOrder
  PROVE  flushing <= Len(arrived)
BY DEF Flushed, EndInv

\* disconnect() returns by itself only with everything before its END delivered, for
\* messages of any number and length, at any interleaving of the threads, and whichever
\* sendto of the send thread raises an exception.
THEOREM DisconnectDeliversData == Spec => DisconnectDelivers
<1>1. Init => EndInv
  BY DEF Init, EndInv
<1>2. TypeInv /\ StreamInv /\ EndInv /\ [Next]_vars => EndInv'
  BY StepEnd
<1>3. TypeInv /\ EndInv /\ [Next]_vars =>
        [Flushed /\ rcv \in {"up", "ended"} => flushing <= Len(arrived)]_vars
  BY FlushedDelivers DEF InOrder
<1> QED
  BY <1>1, <1>2, <1>3, MessagesInvariant, PTL DEF Spec, DisconnectDelivers
=============================================================================
