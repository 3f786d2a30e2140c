---------------------------- MODULE FileTransfer ----------------------------
(***************************************************************************)
(* The two programs of tools/file_transfer.py at the ends of a connection  *)
(* that is up: one sends a header and the data of a file and disconnects,  *)
(* the other polls for them.  Messages models the clients they call; here  *)
(* its steps are taken when the programs call for them.                    *)
(***************************************************************************)
EXTENDS Messages

VARIABLES
  spc,          \* the sending program
  rpc,          \* the receiving program
  saved         \* what became of the file: "unknown", "written", "ignored"

programs == <<spc, rpc, saved>>
allVars == <<vars, programs>>

TransferTypeOK ==
  /\ TypeOK
  /\ spc \in {"header", "data", "progress", "disconnect", "putEnd", "flush", "exit", "gone"}
  /\ rpc \in {"check", "receive", "data", "disconnect", "flush", "exit"}
  /\ saved \in {"unknown", "written", "ignored"}

TransferInit ==
  /\ Init
  /\ spc = "header"
  /\ rpc = "check"
  /\ saved = "unknown"
-----------------------------------------------------------------------------
(* The sending program.  It ignores what send() returns.                   *)

SendRefused == stop /\ todo = <<>> /\ UNCHANGED vars

SendHeader ==
  /\ spc = "header" /\ spc' = "data"
  /\ SendRefused \/ (Send /\ Len(todo') = 1)
  /\ UNCHANGED <<rpc, saved>>

\* An empty file is no message at all.
SendData ==
  /\ spc = "data" /\ todo = <<>> /\ spc' = "progress"
  /\ SendRefused \/ Send \/ UNCHANGED vars
  /\ UNCHANGED <<rpc, saved>>

\* The queue is empty, and "Done" is printed.
Done ==
  /\ spc = "progress" /\ todo = <<>> /\ queue = <<>>
  /\ spc' = "disconnect"
  /\ UNCHANGED <<vars, rpc, saved>>

CallDisconnect ==
  /\ spc = "disconnect"
  /\ IF stop
       THEN /\ spc' = "exit"
            /\ EndConnection
            /\ UNCHANGED <<writer, ending, flushing, snd, link, air, receiver>>
       ELSE /\ spc' = "putEnd"
            /\ Disconnect
  /\ UNCHANGED <<rpc, saved>>

DisconnectQueuesEnd ==
  /\ spc = "putEnd" /\ spc' = "flush"
  /\ QueueEnd
  /\ UNCHANGED <<rpc, saved>>

DisconnectReturns ==
  /\ spc = "flush" /\ queue = <<>> /\ spc' = "exit"
  /\ Flushed \/ (stop /\ UNCHANGED vars)
  /\ UNCHANGED <<rpc, saved>>

\* main() ends, and the daemon threads of the client with it.
SenderExits ==
  /\ spc = "exit" /\ spc' = "gone"
  /\ snd' = "dead"
  /\ UNCHANGED <<writer, queue, ending, flushing, stop, link, air, receiver, rpc, saved>>

SendingProgram ==
  \/ SendHeader \/ SendData \/ Done
  \/ CallDisconnect \/ DisconnectQueuesEnd \/ DisconnectReturns \/ SenderExits
-----------------------------------------------------------------------------
(* The receiving program.                                                  *)

\* while pc.is_connected()
CheckConnected ==
  /\ rpc = "check"
  /\ rpc' = IF rcv = "up" THEN "receive" ELSE "disconnect"
  /\ UNCHANGED <<vars, spc, saved>>

\* receive() returns None: sleep and look again.
NothingYet ==
  /\ rpc = "receive" /\ inData = <<>>
  /\ rpc' = "check"
  /\ UNCHANGED <<vars, spc, saved>>

\* The header: the user is asked whether to save the file.
TakeHeader ==
  /\ rpc = "receive"
  /\ Receive
  /\ rpc' = "data"
  /\ UNCHANGED <<spc, saved>>

\* The inner loop, which does not look at the connection, and its end.
TakeData ==
  /\ rpc = "data"
  /\ Receive
  /\ saved' \in {"written", "ignored"}
  /\ rpc' = "disconnect"
  /\ UNCHANGED spc

ReceiverDisconnects ==
  /\ rpc = "disconnect"
  /\ \/ Leave /\ rpc' = "flush"
     \/ rcv # "up" /\ rpc' = "exit" /\ UNCHANGED vars
  /\ UNCHANGED <<spc, saved>>

\* Its queue holds an END only; then _end_connection, or an END of the sender,
\* stops the threads.
ReceiverExits ==
  /\ rpc = "flush" /\ rpc' = "exit"
  /\ Left \/ (rcv = "gone" /\ UNCHANGED vars)
  /\ UNCHANGED <<spc, saved>>

ReceivingProgram ==
  \/ CheckConnected \/ NothingYet \/ TakeHeader \/ TakeData
  \/ ReceiverDisconnects \/ ReceiverExits
-----------------------------------------------------------------------------
\* The threads of the two clients, and the network.
Threads ==
  /\ PutChunk \/ SendThread \/ HearEnd \/ ReceiveThread
  /\ UNCHANGED programs

TransferNext == SendingProgram \/ ReceivingProgram \/ Threads

TransferSpec == TransferInit /\ [][TransferNext]_allVars
-----------------------------------------------------------------------------
\* A file that has arrived whole, and so was acknowledged to the sender, which has
\* printed "Done", is offered to the user before the receiving program exits
\* (send_rec_main).
ArrivedFileIsSaved ==
  rpc = "exit" /\ Len(arrived) = 2 => saved # "unknown"

\* What the receiving program takes for the header is what the sending program gave to
\* its first send(), and what it writes to the file is what it gave to the second, whole
\* (send_rec_main).
TakenIsSent ==
  [][/\ TakeHeader => Len(sent) >= 1 /\ Head(inData) = sent[1]
     /\ TakeData => Len(sent) >= 2 /\ Head(inData) = sent[2]]_allVars

\* The disconnect() of the sending program returns, unless something else has ended the
\* connection, only when everything it sent is queued at a receiving client that has
\* not left (send_rec_main).
DoneIsDelivered ==
  [][DisconnectReturns /\ ~stop /\ rcv \in {"up", "ended"} => arrived = sent]_allVars
=============================================================================
