------------------------- MODULE FileTransferProofs -------------------------
(***************************************************************************)
(* Proofs about FileTransfer: the promises of Messages hold for the two    *)
(* programs on top of it, the receiving program takes what the sending one *)
(* sent, and a sender that has flushed its queue has delivered.            *)
(***************************************************************************)
EXTENDS FileTransfer, MessagesProofs

\* Neither program sends fire-and-forget packages.
NoFafInv == air = {} /\ \A i \in 1 .. Len(queue) : queue[i].type # "FAF"

\* What was sent where the sending program is.
SendingInv ==
  /\ spc = "header" => sent = <<>>
  /\ spc = "data" => Len(sent) <= 1
  /\ spc \in {"disconnect", "putEnd", "flush", "exit", "gone"} => todo = <<>>

\* That disconnect() puts its END behind everything that was sent.
EndsInv == flushing # None => spc \in {"flush", "exit", "gone"} /\ flushing = Len(sent)

\* The receiving program stays connected until it has the file, and has taken at most
\* the header until then.
TakingInv ==
  /\ rpc \in {"check", "receive", "data"} => InOrder
  /\ rpc \in {"check", "receive"} => inData = arrived
  /\ rpc = "data" => arrived # <<>> /\ inData = Tail(arrived)

PrefixInv == Len(arrived) <= Len(sent) /\ \A i \in 1 .. Len(arrived) : arrived[i] = sent[i]

\* disconnect() has ended the connection before the sending program exits.
ExitInv == spc \in {"exit", "gone"} => stop

FlowInv == TransferTypeOK /\ TypeInv /\ StreamInv /\ EndInv /\ ExitInv
ProgramInv == NoFafInv /\ SendingInv /\ EndsInv /\ TakingInv /\ PrefixInv
-----------------------------------------------------------------------------
(* The steps of the programs as steps of Messages.                         *)

\* disconnect() with the connection already ended, and the end of the process.
EndsAgain ==
  /\ stop /\ stop' /\ queue' = <<>>
  /\ UNCHANGED <<writer, ending, flushing, snd, link, air, receiver>>
Exits ==
  /\ stop
  /\ snd' = "dead"
  /\ UNCHANGED <<writer, queue, ending, flushing, stop, link, air, receiver>>

LEMMA TransferStep ==
  ASSUME ExitInv, [TransferNext]_allVars
  PROVE  [Next]_vars \/ EndsAgain \/ Exits
<1>1. CASE SendHeader \/ SendData \/ Done
  BY <1>1 DEF SendHeader, SendData, Done, SendRefused, Next
<1>2. CASE CallDisconnect
  BY <1>2 DEF CallDisconnect, EndConnection, EndsAgain, Next
<1>3. CASE DisconnectQueuesEnd \/ DisconnectReturns \/ SenderExits
  BY <1>3 DEF DisconnectQueuesEnd, DisconnectReturns, SenderExits, Exits, ExitInv, Next
<1>4. CASE ReceivingProgram
  BY <1>4 DEF ReceivingProgram, CheckConnected, NothingYet, TakeHeader, TakeData, ReceiverDisconnects, ReceiverExits, Next
<1>5. CASE Threads
  BY <1>5 DEF Threads, Next
<1>6. CASE UNCHANGED allVars
  BY <1>6 DEF allVars
<1> QED
  BY <1>1, <1>2, <1>3, <1>4, <1>5, <1>6 DEF TransferNext, SendingProgram

LEMMA EndsAgainFlow ==
  ASSUME TypeInv, StreamInv, EndsAgain
  PROVE  TypeInv' /\ StreamInv' /\ EndInv'
<1> USE DEF EndsAgain, writer, sender, link, collector, receiver
<1>1. TypeOK'
  BY DEF TypeInv, TypeOK
<1>2. SentInv' /\ TodoInv'
  BY DEF TypeInv, SentInv, TodoInv
<1>3. LinkInv' /\ GetInv'
  BY DEF TypeInv, LinkInv, GetInv, InOrder
<1>4. StreamInv'
  BY QuietStream DEF Failing
<1>5. EndInv'
  BY DEF EndInv, InOrder
<1> QED
  BY <1>1, <1>2, <1>3, <1>4, <1>5 DEF TypeInv

LEMMA ExitsFlow ==
  ASSUME TypeInv, StreamInv, EndInv, Exits
  PROVE  TypeInv' /\ StreamInv' /\ EndInv'
<1> USE DEF Exits, writer, sender, link, collector, receiver
<1>1. TypeOK'
  BY DEF TypeInv, TypeOK
<1>2. SentInv' /\ TodoInv'
  BY DEF TypeInv, SentInv, TodoInv
<1>3. LinkInv' /\ GetInv'
  BY DEF TypeInv, LinkInv, GetInv
<1>4. StreamInv'
  BY QuietStream DEF Failing
<1>5. EndInv'
  BY DEF EndInv, InOrder
<1> QED
  BY <1>1, <1>2, <1>3, <1>4, <1>5 DEF TypeInv

LEMMA StepProgramTypes ==
  ASSUME TransferTypeOK, [TransferNext]_allVars
  PROVE  /\ spc' \in {"header", "data", "progress", "disconnect", "putEnd", "flush", "exit", "gone"}
         /\ rpc' \in {"check", "receive", "data", "disconnect", "flush", "exit"}
         /\ saved' \in {"unknown", "written", "ignored"}
<1> USE DEF TransferTypeOK
<1>1. CASE SendingProgram
  BY <1>1 DEF SendingProgram, SendHeader, SendData, Done, CallDisconnect, DisconnectQueuesEnd, DisconnectReturns, SenderExits
<1>2. CASE ReceivingProgram
  BY <1>2 DEF ReceivingProgram, CheckConnected, NothingYet, TakeHeader, TakeData, ReceiverDisconnects, ReceiverExits
<1>3. CASE Threads \/ UNCHANGED allVars
  BY <1>3 DEF Threads, programs, allVars
<1> QED
  BY <1>1, <1>2, <1>3 DEF TransferNext

LEMMA StepExit ==
  ASSUME ExitInv, [TransferNext]_allVars
  PROVE  ExitInv'
<1> USE DEF ExitInv, writer, sender, link, receiver, collector, vars, programs, allVars
<1>1. CASE SendingProgram
  BY <1>1
     DEF SendingProgram, SendHeader, SendData, Done, CallDisconnect, DisconnectQueuesEnd,
         DisconnectReturns, SenderExits, SendRefused, Send, Disconnect, QueueEnd, Flushed, EndConnection
<1>2. CASE ReceivingProgram
  BY <1>2
     DEF ReceivingProgram, CheckConnected, NothingYet, TakeHeader, TakeData, ReceiverDisconnects,
         ReceiverExits, Receive, Leave, Left
<1>3. CASE (PutChunk \/ HearEnd \/ SendThread) /\ UNCHANGED programs
  BY <1>3
     DEF PutChunk, HearEnd, SendThread, Look, Get, GetRaises, KeepaliveRaises, Acked, Cancelled,
         ResendRaises, TimesOut, CaughtDisconnects, CaughtQueuesEnd, CaughtFlushed, StopSending, EndConnection
<1>4. CASE ReceiveThread /\ UNCHANGED programs
  BY <1>4 DEF ReceiveThread, ReceiveChunk, ReceiveLastChunk, ReceiveRaises, ReceiveEnd, ReceiveFaf
<1> QED
  BY <1>1, <1>2, <1>3, <1>4 DEF TransferNext, Threads

LEMMA StepFlow ==
  ASSUME FlowInv, [TransferNext]_allVars
  PROVE  FlowInv'
<1> USE DEF FlowInv
<1>1. CASE [Next]_vars
  BY <1>1, StepTypes, StepStream, StepEnd, StepExit, StepProgramTypes DEF TransferTypeOK, TypeInv
<1>2. CASE EndsAgain
  BY <1>2, EndsAgainFlow, StepExit, StepProgramTypes DEF TransferTypeOK, TypeInv
<1>3. CASE Exits
  BY <1>3, ExitsFlow, StepExit, StepProgramTypes DEF TransferTypeOK, TypeInv
<1> QED
  BY <1>1, <1>2, <1>3, TransferStep

LEMMA InitFlow == TransferInit => FlowInv
<1> SUFFICES ASSUME TransferInit PROVE FlowInv
  OBVIOUS
<1>1. TypeInv /\ StreamInv
  BY InitTypes, InitStream DEF TransferInit
<1>2. EndInv /\ ExitInv
  BY DEF TransferInit, Init, EndInv, ExitInv
<1> QED
  BY <1>1, <1>2 DEF TransferInit, FlowInv, TransferTypeOK, TypeInv

\* The invariants of Messages, in the system of the two programs (send_rec_main).
THEOREM TransferFlow == TransferSpec => []FlowInv
<1>1. FlowInv /\ [TransferNext]_allVars => FlowInv'
  BY StepFlow
<1> QED
  BY <1>1, InitFlow, PTL DEF TransferSpec

\* The types of FileTransfer, for headers and files of any length.
THEOREM TransferTypeCorrect == TransferSpec => []TransferTypeOK
<1>1. FlowInv => TransferTypeOK
  BY DEF FlowInv
<1> QED
  BY <1>1, TransferFlow, PTL

LEMMA StepTransferQueue ==
  ASSUME FlowInv, [TransferNext]_allVars
  PROVE  [Messages!Next]_<<sent, arrived>>
BY TransferStep, StepMessageQueue DEF FlowInv, EndsAgain, Exits, writer, receiver

\* The promise of Messages holds for the two programs, although disconnect() and the end
\* of the process are steps that Messages does not have.
THEOREM TransferArrivesInOrder == TransferSpec => ImplementsMessageQueue
<1>1. TransferInit => Messages!Init
  BY DEF TransferInit, Init, Messages!Init
<1>2. FlowInv /\ [TransferNext]_allVars => [Messages!Next]_<<sent, arrived>>
  BY StepTransferQueue
<1> QED
  BY <1>1, <1>2, TransferFlow, PTL DEF TransferSpec, ImplementsMessageQueue, Messages!Spec, Messages!vars
-----------------------------------------------------------------------------
(* What the programs have sent and taken.                                  *)

\* What the send thread leaves to the others.
LEMMA SendThreadKeeps ==
  ASSUME SendThread
  PROVE  UNCHANGED <<writer, ending, flushing, receiver>>
BY DEF SendThread, Look, Get, GetRaises, KeepaliveRaises, Acked, Cancelled, ResendRaises, TimesOut,
       CaughtDisconnects, CaughtQueuesEnd, CaughtFlushed, StopSending

\* A package that is put behind the queue.
LEMMA AppendNoFaf ==
  ASSUME FlowInv, NoFafInv, NEW p \in Package, p.type # "FAF", queue' = Append(queue, p), UNCHANGED air
  PROVE  NoFafInv'
<1>1. queue \in Seq(Package) /\ Len(queue) \in Nat
  BY DEF FlowInv, TypeInv, TypeOK
<1>2. /\ Len(queue') = Len(queue) + 1 /\ queue'[Len(queue) + 1] = p
      /\ \A i \in 1 .. Len(queue) : queue'[i] = queue[i]
  BY <1>1, AppendProperties
<1>3. \A i \in 1 .. Len(queue') : i \in 1 .. Len(queue) \/ i = Len(queue) + 1
  BY <1>1, <1>2
<1> QED
  BY <1>2, <1>3 DEF NoFafInv

LEMMA StepNoFaf ==
  ASSUME FlowInv, NoFafInv, [TransferNext]_allVars
  PROVE  NoFafInv'
<1> USE DEF writer, sender, link, receiver, collector, vars, programs, allVars
<1>a. queue \in Seq(Package) /\ Len(queue) \in Nat /\ todo \in Seq(Chunk) /\ TypeInv
  BY DEF FlowInv, TypeInv, TypeOK
<1>1. CASE UNCHANGED <<queue, air>>
  BY <1>1 DEF NoFafInv
<1>2. CASE queue' = <<>> /\ UNCHANGED air
  BY <1>2 DEF NoFafInv
<1>3. CASE PutChunk
  <2>1. UNCHANGED air /\ queue' = Append(queue, Head(todo)) /\ todo # <<>>
    BY <1>3 DEF PutChunk
  <2>2. Head(todo).type = "DAT" /\ Head(todo) \in Package
    BY <1>a, <2>1, HeadTailProperties, PackageTypes
  <2> QED
    BY <2>1, <2>2, AppendNoFaf
<1>4. CASE QueueEnd \/ CaughtQueuesEnd
  <2>1. UNCHANGED air /\ queue' = Append(queue, EndPackage)
    BY <1>4 DEF QueueEnd, CaughtQueuesEnd
  <2>2. EndPackage \in Package /\ EndPackage.type = "END"
    BY <1>a, EndPackageType
  <2> HIDE DEF EndPackage
  <2> QED
    BY <2>1, <2>2, AppendNoFaf
<1>5. CASE Get \/ GetRaises
  <2>1. queue # <<>> /\ queue' = Tail(queue)
    BY <1>5 DEF Get, GetRaises
  <2>2. /\ Len(queue) \in Nat \ {0} /\ Len(queue') = Len(queue) - 1 /\ Head(queue) = queue[1]
        /\ \A i \in 1 .. Len(queue') : queue'[i] = queue[i + 1] /\ i + 1 \in 1 .. Len(queue)
    BY <1>a, <2>1, HeadTailProperties
  <2>3. UNCHANGED air
    BY <1>5, <2>2 DEF NoFafInv, Get, GetRaises
  <2> QED
    BY <2>2, <2>3 DEF NoFafInv
<1>6. CASE SendingProgram
  <2>1. CASE SendHeader \/ SendData \/ Done \/ SenderExits
    BY <1>1, <2>1 DEF SendHeader, SendData, Done, SenderExits, SendRefused, Send
  <2>2. CASE CallDisconnect
    BY <1>1, <1>2, <2>2 DEF CallDisconnect, Disconnect, EndConnection
  <2>3. CASE DisconnectQueuesEnd
    BY <1>4, <2>3 DEF DisconnectQueuesEnd
  <2>4. CASE DisconnectReturns
    BY <1>1, <1>2, <2>4 DEF DisconnectReturns, Flushed, EndConnection
  <2> QED
    BY <1>6, <2>1, <2>2, <2>3, <2>4 DEF SendingProgram
<1>7. CASE ReceivingProgram
  BY <1>1, <1>7
     DEF ReceivingProgram, CheckConnected, NothingYet, TakeHeader, TakeData, ReceiverDisconnects,
         ReceiverExits, Receive, Leave, Left
<1>8. CASE HearEnd \/ TimesOut \/ CaughtDisconnects \/ CaughtFlushed
  BY <1>1, <1>2, <1>8 DEF HearEnd, TimesOut, CaughtDisconnects, CaughtFlushed, EndConnection
<1>9. CASE Look \/ KeepaliveRaises \/ Acked \/ Cancelled \/ ResendRaises \/ StopSending
  BY <1>1, <1>9 DEF Look, KeepaliveRaises, Acked, Cancelled, ResendRaises, StopSending
<1>10. CASE ReceiveThread
  <2>1. CASE ReceiveFaf
    BY <2>1 DEF ReceiveFaf, NoFafInv
  <2> QED
    BY <1>1, <1>10, <2>1 DEF ReceiveThread, ReceiveChunk, ReceiveLastChunk, ReceiveRaises, ReceiveEnd
<1> QED
  BY <1>1, <1>3, <1>4, <1>5, <1>6, <1>7, <1>8, <1>9, <1>10 DEF TransferNext, Threads, SendThread

\* The sending program is past its two calls of send() when it calls disconnect(), and
\* only that call puts an END that is waited for.
LEMMA SentStep ==
  ASSUME [TransferNext]_allVars
  PROVE  /\ spc \notin {"header", "data"} => sent' = sent
         /\ spc \in {"disconnect", "putEnd", "flush", "exit", "gone"} /\ todo = <<>> => todo' = <<>>
         /\ spc \in {"flush", "exit", "gone"} => spc' \in {"flush", "exit", "gone"}
         /\ flushing' = flushing \/ DisconnectQueuesEnd
<1> USE DEF writer, sender, link, receiver, collector, vars, programs, allVars
<1>1. CASE SendingProgram
  BY <1>1
     DEF SendingProgram, SendHeader, SendData, Done, CallDisconnect, DisconnectQueuesEnd,
         DisconnectReturns, SenderExits, SendRefused, Send, Disconnect, QueueEnd, Flushed, EndConnection
<1>2. CASE ReceivingProgram
  BY <1>2
     DEF ReceivingProgram, CheckConnected, NothingYet, TakeHeader, TakeData, ReceiverDisconnects,
         ReceiverExits, Receive, Leave, Left
<1>3. CASE (PutChunk \/ HearEnd) /\ UNCHANGED programs
  BY <1>3 DEF PutChunk, HearEnd, EndConnection
<1>4. CASE SendThread /\ UNCHANGED programs
  BY <1>4, SendThreadKeeps
<1>5. CASE ReceiveThread /\ UNCHANGED programs
  BY <1>5 DEF ReceiveThread, ReceiveChunk, ReceiveLastChunk, ReceiveRaises, ReceiveEnd, ReceiveFaf
<1> QED
  BY <1>1, <1>2, <1>3, <1>4, <1>5 DEF TransferNext, Threads

LEMMA StepEnds ==
  ASSUME SendingInv, EndsInv, [TransferNext]_allVars
  PROVE  EndsInv'
<1>1. CASE DisconnectQueuesEnd
  <2>1. spc = "putEnd" /\ spc' = "flush" /\ todo = <<>> /\ sent' = sent
    BY <1>1 DEF DisconnectQueuesEnd, QueueEnd, SendingInv, writer
  <2>2. flushing' = Len(sent)
    BY <1>1, <2>1 DEF DisconnectQueuesEnd, QueueEnd, EndPackage
  <2> QED
    BY <2>1, <2>2 DEF EndsInv
<1>2. CASE flushing' = flushing
  BY <1>2, SentStep DEF EndsInv
<1> QED
  BY <1>1, <1>2, SentStep

LEMMA StepSending ==
  ASSUME FlowInv, SendingInv, [TransferNext]_allVars
  PROVE  SendingInv'
<1> USE DEF SendingInv, writer, sender, link, receiver, collector, vars, programs, allVars
<1>1. CASE SendHeader
  <2>1. Len(sent') <= 1
    <3>1. Len(sent) = 0
      BY <1>1 DEF SendHeader
    <3>2. CASE Send
      <4>1. TypeInv
        BY DEF FlowInv
      <4>2. Len(sent') = Len(sent) + 1
        BY <3>2, <4>1, SendEffect
      <4> QED
        BY <3>1, <4>2
    <3> QED
      BY <1>1, <3>1, <3>2 DEF SendHeader, SendRefused
  <2>2. spc' = "data"
    BY <1>1 DEF SendHeader
  <2> QED
    BY <2>1, <2>2
<1>2. CASE SendData \/ Done \/ SenderExits
  BY <1>2 DEF SendData, Done, SenderExits, SendRefused, Send
<1>3. CASE CallDisconnect \/ DisconnectQueuesEnd \/ DisconnectReturns
  BY <1>3 DEF CallDisconnect, DisconnectQueuesEnd, DisconnectReturns, Disconnect, QueueEnd, Flushed, EndConnection
<1>4. CASE ReceivingProgram
  BY <1>4
     DEF ReceivingProgram, CheckConnected, NothingYet, TakeHeader, TakeData, ReceiverDisconnects,
         ReceiverExits, Receive, Leave, Left
<1>5. CASE (PutChunk \/ HearEnd) /\ UNCHANGED programs
  BY <1>5 DEF PutChunk, HearEnd, EndConnection
<1>6. CASE SendThread /\ UNCHANGED programs
  BY <1>6, SendThreadKeeps
<1>7. CASE ReceiveThread /\ UNCHANGED programs
  BY <1>7 DEF ReceiveThread, ReceiveChunk, ReceiveLastChunk, ReceiveRaises, ReceiveEnd, ReceiveFaf
<1> QED
  BY <1>1, <1>2, <1>3, <1>4, <1>5, <1>6, <1>7 DEF TransferNext, SendingProgram, Threads

LEMMA StepTaking ==
  ASSUME FlowInv, NoFafInv, TakingInv, [TransferNext]_allVars
  PROVE  TakingInv'
<1> USE DEF writer, sender, link, receiver, collector, vars, programs, allVars
<1>a. arrived \in Seq(Seq(Chunk)) /\ inData \in Seq(Seq(Chunk \cup Faf)) /\ TypeInv /\ StreamInv
  BY DEF FlowInv, TypeInv, TypeOK
<1>1. CASE UNCHANGED <<rpc, rcv, inData, arrived>>
  BY <1>1 DEF TakingInv, InOrder
<1>2. CASE SendingProgram
  BY <1>1, <1>2
     DEF SendingProgram, SendHeader, SendData, Done, CallDisconnect, DisconnectQueuesEnd,
         DisconnectReturns, SenderExits, SendRefused, Send, Disconnect, QueueEnd, Flushed, EndConnection
<1>3. CASE CheckConnected \/ NothingYet
  BY <1>3 DEF CheckConnected, NothingYet, TakingInv, InOrder
<1>4. CASE TakeHeader
  BY <1>4 DEF TakeHeader, Receive, TakingInv, InOrder
<1>5. CASE TakeData \/ ReceiverDisconnects \/ ReceiverExits
  BY <1>5 DEF TakeData, ReceiverDisconnects, ReceiverExits, TakingInv
<1>6. CASE (PutChunk \/ HearEnd \/ SendThread) /\ UNCHANGED programs
  BY <1>1, <1>6, SendThreadKeeps DEF PutChunk, HearEnd, EndConnection
<1>7. CASE (ReceiveChunk \/ ReceiveFaf) /\ UNCHANGED programs
  BY <1>1, <1>7 DEF ReceiveChunk, ReceiveFaf, NoFafInv
<1>8. CASE ReceiveLastChunk /\ UNCHANGED programs
  <2> SUFFICES ASSUME rpc \in {"check", "receive", "data"} PROVE TakingInv'
    BY <1>8 DEF TakingInv
  <2>1. rcv = "up" /\ rcv' = rcv
    BY <1>8 DEF TakingInv, InOrder, ReceiveLastChunk, Receiving
  <2>2. PICK d : inData' = Append(inData, d) /\ arrived' = Append(arrived, d)
    BY <1>8, <2>1 DEF ReceiveLastChunk
  <2>3. CASE rpc \in {"check", "receive"}
    BY <1>8, <2>1, <2>2, <2>3 DEF TakingInv, InOrder
  <2>4. CASE rpc = "data"
    <3>1. arrived # <<>> /\ inData = Tail(arrived)
      BY <2>4 DEF TakingInv
    <3>2. Tail(arrived') = Append(Tail(arrived), d) /\ arrived' # <<>>
      BY <1>a, <2>2, <3>1, HeadTailAppend
    <3> QED
      BY <1>8, <2>1, <2>2, <2>4, <3>1, <3>2 DEF TakingInv, InOrder
  <2> QED
    BY <2>3, <2>4
<1>9. CASE ReceiveRaises /\ UNCHANGED programs
  BY <1>a, <1>9, NoGap DEF TakingInv
<1>10. CASE ReceiveEnd /\ UNCHANGED programs
  BY <1>10 DEF ReceiveEnd, TakingInv, InOrder, Receiving
<1>11. CASE UNCHANGED allVars
  BY <1>1, <1>11
<1> QED
  BY <1>2, <1>3, <1>4, <1>5, <1>6, <1>7, <1>8, <1>9, <1>10, <1>11
     DEF TransferNext, ReceivingProgram, Threads, ReceiveThread

LEMMA StepPrefix ==
  ASSUME FlowInv, PrefixInv, [Messages!Next]_<<sent, arrived>>
  PROVE  PrefixInv'
<1>a. /\ sent \in Seq(Seq(Chunk)) /\ arrived \in Seq(Seq(Chunk))
      /\ Len(sent) \in Nat /\ Len(arrived) \in Nat
  BY DEF FlowInv, TypeInv, TypeOK
<1>1. CASE Messages!Send
  <2>1. PICK m : sent' = Append(sent, m) /\ arrived' = arrived
    BY <1>1 DEF Messages!Send
  <2>2. Len(sent') = Len(sent) + 1 /\ \A i \in 1 .. Len(sent) : sent'[i] = sent[i]
    BY <1>a, <2>1, AppendProperties
  <2> QED
    BY <1>a, <2>1, <2>2 DEF PrefixInv
<1>2. CASE Messages!Arrive
  <2>1. /\ Len(arrived) < Len(sent) /\ sent' = sent
        /\ arrived' = Append(arrived, sent[Len(arrived) + 1])
    BY <1>2 DEF Messages!Arrive
  <2>2. /\ Len(arrived') = Len(arrived) + 1 /\ arrived'[Len(arrived) + 1] = sent[Len(arrived) + 1]
        /\ \A i \in 1 .. Len(arrived) : arrived'[i] = arrived[i]
    BY <1>a, <2>1, AppendProperties
  <2>3. \A i \in 1 .. Len(arrived') : i \in 1 .. Len(arrived) \/ i = Len(arrived) + 1
    BY <1>a, <2>2
  <2> QED
    BY <1>a, <2>1, <2>2, <2>3 DEF PrefixInv
<1>3. CASE UNCHANGED <<sent, arrived>>
  BY <1>3 DEF PrefixInv
<1> QED
  BY <1>1, <1>2, <1>3 DEF Messages!Next

\* The whole inductive invariant of FileTransfer (send_rec_main).
THEOREM TransferInvariant == TransferSpec => [](FlowInv /\ ProgramInv)
<1>1. TransferInit => ProgramInv
  BY DEF TransferInit, Init, ProgramInv, NoFafInv, SendingInv, EndsInv, TakingInv, PrefixInv, InOrder
<1>2. FlowInv /\ ProgramInv /\ [TransferNext]_allVars => ProgramInv'
  BY StepNoFaf, StepSending, StepEnds, StepTaking, StepPrefix, StepTransferQueue DEF ProgramInv
<1> QED
  BY <1>1, <1>2, TransferFlow, PTL DEF TransferSpec

LEMMA TakenSent ==
  ASSUME FlowInv, ProgramInv
  PROVE  /\ TakeHeader => Len(sent) >= 1 /\ Head(inData) = sent[1]
         /\ TakeData => Len(sent) >= 2 /\ Head(inData) = sent[2]
<1>a. /\ sent \in Seq(Seq(Chunk)) /\ arrived \in Seq(Seq(Chunk))
      /\ Len(sent) \in Nat /\ Len(arrived) \in Nat
      /\ Len(arrived) <= Len(sent) /\ \A i \in 1 .. Len(arrived) : arrived[i] = sent[i]
  BY DEF FlowInv, TypeInv, TypeOK, ProgramInv, PrefixInv
<1>1. ASSUME TakeHeader PROVE Len(sent) >= 1 /\ Head(inData) = sent[1]
  <2>1. inData = arrived /\ arrived # <<>>
    BY <1>1 DEF TakeHeader, Receive, ProgramInv, TakingInv
  <2>2. Len(arrived) >= 1 /\ Head(arrived) = arrived[1]
    BY <1>a, <2>1, HeadTailProperties
  <2> QED
    BY <1>a, <2>1, <2>2
<1>2. ASSUME TakeData PROVE Len(sent) >= 2 /\ Head(inData) = sent[2]
  <2>1. inData = Tail(arrived) /\ arrived # <<>> /\ inData # <<>>
    BY <1>2 DEF TakeData, Receive, ProgramInv, TakingInv
  <2>2. inData \in Seq(Seq(Chunk)) /\ Len(inData) = Len(arrived) - 1
        /\ \A i \in 1 .. Len(inData) : inData[i] = arrived[i + 1]
    BY <1>a, <2>1, HeadTailProperties
  <2>3. Len(inData) >= 1 /\ Head(inData) = inData[1]
    BY <2>1, <2>2, HeadTailProperties
  <2>4. Len(arrived) >= 2 /\ inData[1] = arrived[2]
    BY <1>a, <2>2, <2>3
  <2> QED
    BY <1>a, <2>3, <2>4
<1> QED
  BY <1>1, <1>2

\* The receiving program takes the header and the file as they were given to send(), for
\* files of any length and wherever either program is when the other one ends.
THEOREM ProgramTakesWhatWasSent == TransferSpec => TakenIsSent
<1>1. FlowInv /\ ProgramInv /\ [TransferNext]_allVars =>
        [/\ TakeHeader => Len(sent) >= 1 /\ Head(inData) = sent[1]
         /\ TakeData => Len(sent) >= 2 /\ Head(inData) = sent[2]]_allVars
  BY TakenSent
<1> QED
  BY <1>1, TransferInvariant, PTL DEF TransferSpec, TakenIsSent

LEMMA DoneDelivered ==
  ASSUME FlowInv, ProgramInv, DisconnectReturns, ~stop, InOrder
  PROVE  arrived = sent
<1>1. Flushed
  BY DEF DisconnectReturns
<1>2. flushing <= Len(arrived)
  BY <1>1, FlushedDelivers DEF FlowInv
<1>3. flushing = Len(sent)
  BY <1>1 DEF Flushed, ProgramInv, EndsInv
<1>4. sent \in Seq(Seq(Chunk)) /\ arrived \in Seq(Seq(Chunk)) /\ Len(sent) \in Nat /\ Len(arrived) \in Nat
  BY DEF FlowInv, TypeInv, TypeOK
<1>5. Len(arrived) <= Len(sent) /\ \A j \in 1 .. Len(arrived) : arrived[j] = sent[j]
  BY DEF ProgramInv, PrefixInv
<1>6. Len(arrived) = Len(sent)
  BY <1>2, <1>3, <1>4, <1>5
<1> QED
  BY <1>4, <1>5, <1>6, SeqEqual

\* A sending program that was not interrupted has delivered the whole file when its
\* disconnect() returns, whatever its length.
THEOREM DoneMeansDelivered == TransferSpec => DoneIsDelivered
<1>1. FlowInv /\ ProgramInv /\ [TransferNext]_allVars =>
        [DisconnectReturns /\ ~stop /\ rcv \in {"up", "ended"} => arrived = sent]_allVars
  BY DoneDelivered DEF InOrder
<1> QED
  BY <1>1, TransferInvariant, PTL DEF TransferSpec, DoneIsDelivered
=============================================================================
