------------------------------ MODULE SocketIo ------------------------------
(***************************************************************************)
(* One connection of multisim: a stream socket whose two ends are used     *)
(* only through send_msg() and read_msg() of socket_io.h.  The kernel      *)
(* moves units (bytes) and may cut a message anywhere; the two functions   *)
(* must still give the reader whole messages.                              *)
(*                                                                         *)
(* A call that has transferred nothing returns at once, so between two     *)
(* calls sendDone (the `done' of send_msg) is 0 and readBuf (the `done'    *)
(* first units of read_msg's buffer) is empty.  A call that has            *)
(* transferred a part of its message only returns when it is complete or   *)
(* its peer is gone: in between it loops on poll().  Each action is one    *)
(* iteration of one of the two loops, that is one send() or one read().    *)
(***************************************************************************)
EXTENDS Naturals, Sequences

CONSTANTS
    Size,            \* units of a message, `size' of send_msg and read_msg
    Cap,             \* units the kernel buffers between the two ends
    MaxMsg,          \* bound: number of messages the sender has to send
    SenderBlocking,  \* the sender's socket is blocking (MULTISIM_BLOCKING_SOCKET)
    ReaderBlocking   \* the reader's socket is blocking (MULTISIM_BLOCKING_SOCKET)

ASSUME SocketIoAssumption ==
    /\ Size \in Nat \ {0}
    /\ Cap \in Nat \ {0}
    /\ MaxMsg \in Nat
    /\ SenderBlocking \in BOOLEAN
    /\ ReaderBlocking \in BOOLEAN

VARIABLES
    wire,        \* the units in the kernel, oldest first
    sent,        \* number of messages send_msg returned `size' for
    sendDone,    \* `done' of the send_msg call in progress
    sendResult,  \* how the last send_msg call returned
    readBuf,     \* the `done' units of the read_msg call in progress
    received,    \* the buffers read_msg returned `size' for
    readResult,  \* how the last read_msg call returned
    senderOpen,  \* the sender's file descriptor is open
    readerOpen   \* the reader's file descriptor is open

sendVars == <<sent, sendDone, sendResult>>
readVars == <<readBuf, received, readResult>>
vars == <<wire, sendVars, readVars, senderOpen, readerOpen>>

-----------------------------------------------------------------------------
(* Units and messages *)

\* The unit at offset o of message m; a unit is known by its place.
Unit(m, o) == [msg |-> m, off |-> o]

\* Mutant: each piece is taken from the start of the message.
BugChunk(m, d, k) == [i \in 1..k |-> Unit(m, i)]

\* The k units that follow the first d units of message m.
Chunk(m, d, k) == [i \in 1..k |-> Unit(m, d + i)]

\* The whole message m.
Message(m) == Chunk(m, 0, Size)

\* The unit that follows u in an aligned stream.
Succ(u) == IF u.off = Size THEN Unit(u.msg + 1, 1) ELSE Unit(u.msg, u.off + 1)

Units == [msg : Nat \ {0}, off : 1..Size]

\* The values send_msg and read_msg return: size, -1 with EAGAIN or EINTR, 0,
\* -1 with another errno.
Results == {"none", "size", "again", "zero", "error"}

-----------------------------------------------------------------------------
Init ==
    /\ wire = <<>>
    /\ sent = 0
    /\ sendDone = 0
    /\ sendResult = "none"
    /\ readBuf = <<>>
    /\ received = <<>>
    /\ readResult = "none"
    /\ senderOpen = TRUE
    /\ readerOpen = TRUE

\* The sender is inside send_msg, or its caller has one more message to send.
CanSend == senderOpen /\ (sendDone > 0 \/ sent < MaxMsg)

\* send() takes k units: r > 0, done += r, and the loop ends when done = size.
SendSome(k) ==
    /\ CanSend
    /\ sendDone + k <= Size
    /\ Len(wire) + k <= Cap
    /\ wire' = wire \o Chunk(sent + 1, sendDone, k)
    /\ IF sendDone + k = Size
       THEN /\ sent' = sent + 1
            /\ sendDone' = 0
            /\ sendResult' = "size"
       ELSE /\ sendDone' = sendDone + k
            /\ UNCHANGED <<sent, sendResult>>
    /\ UNCHANGED <<readVars, senderOpen, readerOpen>>

\* Mutant: the result of a full buffer is returned in the middle of a message.
BugSendAgain ==
    /\ CanSend
    /\ ~SenderBlocking
    /\ Len(wire) = Cap
    /\ sendDone' = 0
    /\ sendResult' = "again"
    /\ UNCHANGED <<wire, sent, readVars, senderOpen, readerOpen>>

\* send() finds the buffer full (EAGAIN) and nothing was transferred: the call
\* returns -1.  With done > 0 it waits in poll(): no step.
SendAgain ==
    /\ CanSend
    /\ ~SenderBlocking
    /\ sendDone = 0
    /\ Len(wire) = Cap
    /\ sendResult' = "again"
    /\ UNCHANGED <<wire, sent, sendDone, readVars, senderOpen, readerOpen>>

\* Mutant: a peer gone in the middle of a message is taken for a full buffer,
\* and waited for.
BugSendGone ==
    /\ CanSend
    /\ ~readerOpen
    /\ sendDone = 0
    /\ sendResult' = "error"
    /\ UNCHANGED <<wire, sent, sendDone, readVars, senderOpen, readerOpen>>

\* send() fails because the peer is gone (EPIPE, ECONNRESET): -1 when nothing
\* was transferred, 0 in the middle of a message.  TCP may also take units after
\* the peer is gone, which is SendSome.
SendGone ==
    /\ CanSend
    /\ ~readerOpen
    /\ sendResult' = IF sendDone = 0 THEN "error" ELSE "zero"
    /\ sendDone' = 0
    /\ UNCHANGED <<wire, sent, readVars, senderOpen, readerOpen>>

\* Mutant: a short read is returned as a failure and its units are dropped.
BugReadSome(k) ==
    /\ readerOpen
    /\ Len(readBuf) + k <= Size
    /\ k <= Len(wire)
    /\ wire' = SubSeq(wire, k + 1, Len(wire))
    /\ readBuf' = <<>>
    /\ IF k = Size
       THEN /\ received' = Append(received, SubSeq(wire, 1, k))
            /\ readResult' = "size"
       ELSE /\ readResult' = "again"
            /\ UNCHANGED received
    /\ UNCHANGED <<sendVars, senderOpen, readerOpen>>

\* read() gives k units: r > 0, done += r, and the loop ends when done = size.
ReadSome(k) ==
    /\ readerOpen
    /\ Len(readBuf) + k <= Size
    /\ k <= Len(wire)
    /\ wire' = SubSeq(wire, k + 1, Len(wire))
    /\ IF Len(readBuf) + k = Size
       THEN /\ received' = Append(received, readBuf \o SubSeq(wire, 1, k))
            /\ readBuf' = <<>>
            /\ readResult' = "size"
       ELSE /\ readBuf' = readBuf \o SubSeq(wire, 1, k)
            /\ UNCHANGED <<received, readResult>>
    /\ UNCHANGED <<sendVars, senderOpen, readerOpen>>

\* read() finds nothing (EAGAIN) and nothing was transferred: the call returns
\* -1.  With done > 0 it waits in poll(): no step.
ReadAgain ==
    /\ readerOpen
    /\ senderOpen
    /\ ~ReaderBlocking
    /\ wire = <<>>
    /\ readBuf = <<>>
    /\ readResult' = "again"
    /\ UNCHANGED <<wire, sendVars, readBuf, received, senderOpen, readerOpen>>

\* Mutant: nothing to read in the middle of a message is taken for a peer gone.
BugReadEof ==
    /\ readerOpen
    /\ ~senderOpen \/ readBuf # <<>>
    /\ wire = <<>>
    /\ readBuf' = <<>>
    /\ readResult' = "zero"
    /\ UNCHANGED <<wire, sendVars, received, senderOpen, readerOpen>>

\* read() returns 0, the end of the stream: read_msg returns 0 in the middle of
\* a message too, and the part it has is dropped with its buffer.
ReadEof ==
    /\ readerOpen
    /\ ~senderOpen
    /\ wire = <<>>
    /\ readBuf' = <<>>
    /\ readResult' = "zero"
    /\ UNCHANGED <<wire, sendVars, received, senderOpen, readerOpen>>

\* A process closes its end: it exits, is killed inside or outside of a call, or
\* (a server) was told by its last call that the client is gone.
CloseSender ==
    /\ senderOpen
    /\ senderOpen' = FALSE
    /\ UNCHANGED <<wire, sendVars, readVars, readerOpen>>

CloseReader ==
    /\ readerOpen
    /\ readerOpen' = FALSE
    /\ UNCHANGED <<wire, sendVars, readVars, senderOpen>>

Send == (\E k \in 1..Size : SendSome(k)) \/ SendAgain \/ SendGone
Read == (\E k \in 1..Size : ReadSome(k)) \/ ReadAgain \/ ReadEof

Next == Send \/ Read \/ CloseSender \/ CloseReader

Spec == Init /\ [][Next]_vars

\* A send_msg that has begun runs to its return (its loop is not interrupted),
\* and the pull modules call read_msg at every posedge while they are ready.
SendRest == sendDone > 0 /\ Send
Fairness == WF_vars(SendRest) /\ WF_vars(Read)

FairSpec == Spec /\ Fairness

-----------------------------------------------------------------------------
(* Properties *)

\* The variables hold values of their types and the kernel buffer is not
\* overfull (send_msg, read_msg, the kernel).
TypeOK ==
    /\ wire \in Seq(Units)
    /\ Len(wire) <= Cap
    /\ sent \in Nat
    /\ sendDone \in 0..(Size - 1)
    /\ sendResult \in Results
    /\ readBuf \in Seq(Units)
    /\ Len(readBuf) < Size
    /\ received \in Seq(Seq(Units))
    /\ readResult \in Results
    /\ senderOpen \in BOOLEAN
    /\ readerOpen \in BOOLEAN

\* However the stream was cut, every buffer read_msg returned is one message,
\* complete and alone in it, and they come in the order they were sent: none
\* lost, none twice ("so that the stream stays aligned on messages").
Aligned == \A i \in 1..Len(received) : received[i] = Message(i)

\* A reader told that its peer is gone (read_msg returned 0) got every message
\* the peer was told is sent: closing the socket then loses nothing.
ZeroMeansDrained == readResult = "zero" => Len(received) = sent

\* Neighbours in the stream are neighbours in an aligned stream, also across
\* the units of a message that is still being sent.
Chain ==
    /\ \A i \in 1..Len(wire), d \in 0..Size :
          i + d <= Len(wire) /\ wire[i].off + d <= Size
              => wire[i + d] = Unit(wire[i].msg, wire[i].off + d)
    /\ \A i \in 1..(Len(wire) - 1) : wire[i].off = Size => wire[i + 1] = Succ(wire[i])

\* The stream starts where the reader stands and ends where the sender stands.
Ends ==
    /\ wire # <<>> =>
          /\ wire[1] = Unit(Len(received) + 1, Len(readBuf) + 1)
          /\ Succ(wire[Len(wire)]) = Unit(sent + 1, sendDone + 1)
    /\ wire = <<>> =>
          /\ Len(received) = sent
          /\ readResult # "zero" => Len(readBuf) = sendDone
    /\ readResult = "zero" => ~senderOpen /\ wire = <<>> /\ readBuf = <<>>

\* The units in the kernel are units that send_msg put there.
Behind ==
    \A i \in 1..Len(wire) :
        \/ wire[i].msg <= sent
        \/ wire[i].msg = sent + 1 /\ wire[i].off <= sendDone

\* The inductive invariant: the buffer of the read in progress is a prefix of
\* the next message, and while the reader is there the units in the kernel are
\* exactly the ones between the reader and the sender.  Once the reader is gone
\* a send that failed in the middle leaves garbage that nobody reads.
IInv ==
    /\ TypeOK
    /\ Aligned
    /\ Len(received) <= sent
    /\ readResult = "zero" => ~senderOpen /\ Len(received) = sent
    /\ \A i \in 1..Len(readBuf) : readBuf[i] = Unit(Len(received) + 1, i)
    /\ readerOpen => Chain /\ Ends /\ Behind

\* send_msg never waits for ever in poll(): a message that has begun to go is
\* sent completely, or the call is told that the reader is gone.
SendReturns == sendDone > 0 ~> sendDone = 0 \/ ~senderOpen

\* A message send_msg returned `size' for reaches the reader, even if the
\* sender exits just after, unless the reader itself goes away.
SentIsReceived ==
    \A n \in 1..MaxMsg : sent >= n ~> Len(received) >= n \/ ~readerOpen

\* The connection implements the abstract channel.
Chan == INSTANCE MsgChannel WITH
    accepted <- sent,
    delivered <- [i \in 1..Len(received) |-> received[i][1].msg],
    ended <- readResult = "zero",
    upS <- senderOpen,
    upR <- readerOpen

\* Seen by the two callers, send_msg and read_msg over a stream that cuts
\* messages anywhere behave as a channel of whole messages (MsgChannel).
ImplementsChannel == Chan!Spec
=============================================================================
