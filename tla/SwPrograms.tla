----------------------------- MODULE SwPrograms -----------------------------
(***************************************************************************)
(* The software programs of example/sw_server, each a server process and a *)
(* client process on channels of the library: the read/write server and    *)
(* its test, the modes of the benchmark, and two unit tests.  A process is *)
(* one thread: a call that waits keeps it from everything else.            *)
(*                                                                         *)
(* A program is a sequence of calls per process, except for the read/write *)
(* server, which is a loop over its channels.  Up is the channel from      *)
(* client to server ("rw_cmd", "req"), Down the one from server to client  *)
(* ("rw_rsp", "rsp", "ch"); each is a SocketIo connection, so that calls   *)
(* stop in the middle of messages.  The clients are built with MULTISIM_SW: *)
(* their sockets are blocking, the ones of the servers are not.            *)
(***************************************************************************)
EXTENDS Naturals, Sequences, SequencesExt

CONSTANTS
    Programs,    \* the programs of a run
    Messages,    \* messages of a benchmark, addresses of the read/write test
    MemSize,     \* words of the server's memory
    UpSize,      \* units of a message on Up
    DownSize,    \* units of a message on Down
    Cap          \* units the kernel buffers on each connection

ASSUME SwProgramsAssumption ==
    /\ Programs \subseteq {"read_write", "pingpong", "stream", "upstream", "idle",
                           "slow_stream", "sigpipe"}
    /\ Messages \in Nat \ {0}
    /\ MemSize \in Nat \ {0}

VARIABLES
    prog,     \* the program
    links,    \* channels the client has connected, in the order it starts them
    cpc,      \* the client's call
    cEnd,     \* how the client ended: "running", "done" (its last call is made),
              \* "failed" (an assertion, or a return of 1), "killed"
    spc,      \* the server's call; 1, 2 and 3 in the read/write loop
    sEnd,     \* how the server ended
    mem,      \* mem of the read/write server
    reply,    \* rsp of the read/write server, buf of the echo
    said,     \* contents of the messages sent on Down
    exitMsg,  \* the message on the "exit" connection has been sent
    wireU, sentU, sendDoneU, sendResultU, readBufU, receivedU, readResultU,
    clientOpenU, serverOpenU,
    wireD, sentD, sendDoneD, sendResultD, readBufD, receivedD, readResultD,
    serverOpenD, clientOpenD

upVars == <<wireU, sentU, sendDoneU, sendResultU, readBufU, receivedU,
            readResultU, clientOpenU, serverOpenU>>
downVars == <<wireD, sentD, sendDoneD, sendResultD, readBufD, receivedD,
              readResultD, serverOpenD, clientOpenD>>
clientVars == <<links, cpc, cEnd, exitMsg>>
serverVars == <<spc, sEnd, mem, reply, said>>
vars == <<prog, clientVars, serverVars, upVars, downVars>>

Up == INSTANCE SocketIo WITH
    wire <- wireU, sent <- sentU, sendDone <- sendDoneU, sendResult <- sendResultU,
    readBuf <- readBufU, received <- receivedU, readResult <- readResultU,
    senderOpen <- clientOpenU, readerOpen <- serverOpenU,
    Size <- UpSize, MaxMsg <- 6 * Messages + 2,
    SenderBlocking <- TRUE, ReaderBlocking <- FALSE

Down == INSTANCE SocketIo WITH
    wire <- wireD, sent <- sentD, sendDone <- sendDoneD, sendResult <- sendResultD,
    readBuf <- readBufD, received <- receivedD, readResult <- readResultD,
    senderOpen <- serverOpenD, readerOpen <- clientOpenD,
    Size <- DownSize, MaxMsg <- 6 * Messages + 2,
    SenderBlocking <- FALSE, ReaderBlocking <- TRUE

-----------------------------------------------------------------------------
(* The programs.  A message is a tuple, <<>> is any message.               *)

\* What a failed call leads to: "retry" (while (!call)), "assert" (the process
\* ends), "once" (nothing, the result is not looked at).
Push(v, must) == [op |-> "push", val |-> v, must |-> must]
Pull(v, must) == [op |-> "pull", val |-> v, must |-> must]
PushExit == [op |-> "exit", val |-> <<>>, must |-> "once"]

\* write_server and read_server: a command, then its response.
Write(a, v) == <<Push(<<"write", a, v>>, "assert"), Pull(<<>>, "assert")>>
Read(a, v) == <<Push(<<"read", a, 0>>, "assert"), Pull(v, "assert")>>

\* The functional tests and one write and one read of the bandwidth tests.
ReadWriteTest ==
    LET first(i) == Write(i - 1, 10 + i) \o Read(i - 1, <<10 + i>>)
        write(i) == Write(i - 1, 20 + i)
        read(i) == Read(i - 1, <<20 + i>>)
    IN  FlattenSeq([i \in 1..Messages |-> first(i)])
            \o FlattenSeq([i \in 1..Messages |-> write(i)])
            \o FlattenSeq([i \in 1..Messages |-> read(i)])
            \o Write(0, 21) \o Read(0, <<>>)

\* Mutant: the last response is not waited for.
BugReadWriteClient == Append(Front(ReadWriteTest), PushExit)

ReadWriteClient == Append(ReadWriteTest, PushExit)

PingpongClient ==
    FlattenSeq([i \in 1..Messages |-> <<Push(<<i>>, "retry"), Pull(<<i>>, "retry")>>])

PingpongServer ==
    FlattenSeq([i \in 1..Messages |-> <<Pull(<<>>, "retry"), Push(<<>>, "retry")>>])

PushAll == [i \in 1..Messages |-> Push(<<i>>, "retry")]
PullAll(must) == [i \in 1..Messages |-> Pull(<<i>>, must)]
PullSome == [i \in 1..Messages |-> Pull(<<>>, "once")]

ClientCalls ==
    CASE prog = "read_write" -> ReadWriteClient
      [] prog = "pingpong" -> PingpongClient
      [] prog = "stream" -> PullAll("retry")
      [] prog = "upstream" -> PushAll
      [] prog = "idle" -> <<>>
      [] prog = "slow_stream" -> PullAll("assert")
      [] prog = "sigpipe" -> PullSome

ServerCalls ==
    CASE prog = "pingpong" -> PingpongServer
      [] prog \in {"stream", "slow_stream"} -> PushAll
      [] prog = "upstream" -> PullAll("retry")
      [] prog = "idle" -> <<Push(<<0>>, "retry")>> \o PullSome
      [] prog = "sigpipe" -> PushAll \o <<Push(<<0>>, "once"), Push(<<0>>, "once")>>

\* The channels, in the order the client starts them.
Channels ==
    CASE prog = "read_write" -> <<"exit", "up", "down">>
      [] prog \in {"slow_stream", "sigpipe"} -> <<"down">>
      [] OTHER -> <<"up", "down">>

\* These sleep or pause when they have made their calls.
ClientStays == prog \in {"upstream", "idle"}
ServerStays == prog = "slow_stream"

-----------------------------------------------------------------------------
Init ==
    /\ prog \in Programs
    /\ links = 0 /\ cpc = 1 /\ cEnd = "running" /\ exitMsg = FALSE
    /\ spc = 1 /\ sEnd = "running"
    /\ mem = [a \in 0..(MemSize - 1) |-> 0] /\ reply = <<>> /\ said = <<>>
    /\ Up!Init
    /\ Down!Init

Linked(ch) == \E i \in 1..links : Channels[i] = ch

\* The content of a message that read_msg returned: the buffer is message n only
\* if all of it is.
Content(units, size, values) ==
    IF \E n \in 1..Len(values) : units = [i \in 1..size |-> [msg |-> n, off |-> i]]
    THEN values[units[1].msg]
    ELSE <<"garbage", 0, 0>>

\* What the client has pushed so far, in order.
Asked ==
    LET push(c) == c.op = "push"
        all == SelectSeq(ClientCalls, push)
    IN  [n \in 1..Len(all) |-> all[n].val]

\* The call c returns with success or not (neither: it goes on), and what it got
\* is right or not: the next call and how the process is.
Goes(c, ok, fail, right, pc, end) ==
    [pc |-> IF (ok /\ right) \/ (fail /\ c.must = "once") THEN pc + 1 ELSE pc,
     end |-> IF (ok /\ ~right) \/ (fail /\ c.must = "assert") THEN "failed" ELSE end]

-----------------------------------------------------------------------------
(* The client *)

ClientRuns == cEnd = "running"

\* multisim_client_start of the next channel
ClientConnect ==
    /\ ClientRuns
    /\ links < Len(Channels)
    /\ links' = links + 1
    /\ UNCHANGED <<prog, cpc, cEnd, exitMsg, serverVars, upVars, downVars>>

\* Mutant: a channel is started when it is needed first.
BugClientReady == ClientRuns /\ cpc <= Len(ClientCalls) /\ links >= 1

ClientReady == ClientRuns /\ cpc <= Len(ClientCalls) /\ links = Len(Channels)

ClientGoes(ok, fail, right) ==
    LET next == Goes(ClientCalls[cpc], ok, fail, right, cpc, cEnd)
    IN  cpc' = next.pc /\ cEnd' = next.end

\* multisim_client_push, one send() of it
ClientPush ==
    /\ ClientReady
    /\ ClientCalls[cpc].op = "push"
    /\ Up!Send
    /\ LET ok == sentU' > sentU
       IN  ClientGoes(ok, sendDoneU' = 0 /\ ~ok, TRUE)
    /\ UNCHANGED <<prog, links, exitMsg, serverVars, downVars>>

\* multisim_client_pull, one read() of it, and the check of what it got
ClientPull ==
    /\ ClientReady
    /\ ClientCalls[cpc].op = "pull"
    /\ Down!Read
    /\ LET ok == Len(receivedD') > Len(receivedD)
           want == ClientCalls[cpc].val
           right == ok /\ want \in {<<>>, Content(Last(receivedD'), DownSize, said)}
       IN  ClientGoes(ok, readBufD' = <<>> /\ ~ok, right)
    /\ UNCHANGED <<prog, links, exitMsg, serverVars, upVars>>

\* exit_server()
ClientPushExit ==
    /\ ClientReady
    /\ ClientCalls[cpc].op = "exit"
    /\ exitMsg' = TRUE
    /\ cpc' = cpc + 1
    /\ UNCHANGED <<prog, links, cEnd, serverVars, upVars, downVars>>

\* The end of main, or the client is killed.
ClientEnd ==
    /\ ClientRuns
    /\ \/ cpc > Len(ClientCalls) /\ ~ClientStays /\ cEnd' = "done"
       \/ cEnd' = "killed"
    /\ UNCHANGED <<prog, links, cpc, exitMsg, serverVars, upVars, downVars>>

\* The kernel closes the sockets of a process that has ended.
ClientCloses ==
    /\ ~ClientRuns
    /\ Up!CloseSender
    /\ Down!CloseReader
    /\ UNCHANGED <<prog, clientVars, serverVars>>

Client == ClientConnect \/ ClientPush \/ ClientPull \/ ClientPushExit \/ ClientCloses

-----------------------------------------------------------------------------
(* The server *)

ServerRuns == sEnd = "running"

\* The connection is closed when a call was told that the client is gone.
GoneUp == serverOpenU /\ readResultU = "zero"
GoneDown == serverOpenD /\ sendResultD \in {"zero", "error"}

ServerCloses ==
    /\ GoneUp \/ GoneDown
    /\ IF GoneUp THEN Up!CloseReader ELSE UNCHANGED upVars
    /\ IF GoneDown THEN Down!CloseSender ELSE UNCHANGED downVars
    /\ UNCHANGED <<prog, clientVars, serverVars>>

ServerReady == ServerRuns /\ ~GoneUp /\ ~GoneDown

\* One read() of multisim_server_pull on Up; without a client it fails at once.
PullUp == IF Linked("up") /\ serverOpenU THEN Up!Read ELSE UNCHANGED upVars
PullOk == Len(receivedU') > Len(receivedU)
PullFailed == readBufU' = <<>> /\ ~PullOk
Pulled == Content(Last(receivedU'), UpSize, Asked)

\* One send() of multisim_server_push of v on Down.
PushDown(v) ==
    /\ IF Linked("down") /\ serverOpenD THEN Down!Send ELSE UNCHANGED downVars
    /\ said' = IF sentD' > sentD THEN Append(said, v) ELSE said
PushOk == sentD' > sentD
PushFailed == sendDoneD' = 0 /\ ~PushOk

\* The read/write loop looks for the exit command first.
RwExit ==
    /\ ServerReady /\ prog = "read_write" /\ spc = 1
    /\ IF exitMsg /\ Linked("exit")
       THEN sEnd' = "done" /\ UNCHANGED spc
       ELSE spc' = 2 /\ UNCHANGED sEnd
    /\ UNCHANGED <<prog, clientVars, mem, reply, said, upVars, downVars>>

\* The command is parsed and processed.
RwProcess ==
    LET a == Pulled[2] % MemSize
    IN  IF Pulled[1] = "write"
        THEN mem' = [mem EXCEPT ![a] = Pulled[3]] /\ reply' = <<0>>
        ELSE reply' = <<mem[a]>> /\ UNCHANGED mem

\* The loop looks for a command, then goes on at next when there is none.
RwLook(next) ==
    /\ ServerReady /\ prog = "read_write" /\ spc = 2
    /\ PullUp
    /\ IF PullOk THEN RwProcess ELSE UNCHANGED <<mem, reply>>
    /\ spc' = IF PullOk THEN 3 ELSE IF PullFailed THEN next ELSE 2
    /\ UNCHANGED <<prog, clientVars, sEnd, said, downVars>>

\* Mutant: while there is no command the exit command is not looked for.
BugRwCommand == RwLook(2)

RwCommand == RwLook(1)

\* assert(r > 0) on the push of the response
RwRespond ==
    /\ ServerReady /\ prog = "read_write" /\ spc = 3
    /\ PushDown(reply)
    /\ spc' = IF PushOk THEN 1 ELSE 3
    /\ sEnd' = IF PushFailed THEN "failed" ELSE sEnd
    /\ UNCHANGED <<prog, clientVars, mem, reply, upVars>>

ScriptReady == ServerReady /\ prog # "read_write" /\ spc <= Len(ServerCalls)

ServerGoes(ok, fail, right) ==
    LET next == Goes(ServerCalls[spc], ok, fail, right, spc, sEnd)
    IN  spc' = next.pc /\ sEnd' = next.end

ServerPull ==
    /\ ScriptReady
    /\ ServerCalls[spc].op = "pull"
    /\ PullUp
    /\ reply' = IF PullOk THEN Pulled ELSE reply
    /\ ServerGoes(PullOk, PullFailed, PullOk /\ ServerCalls[spc].val \in {<<>>, Pulled})
    /\ UNCHANGED <<prog, clientVars, mem, said, downVars>>

\* A push of <<>> is the echo of what was pulled.
ServerPush ==
    /\ ScriptReady
    /\ ServerCalls[spc].op = "push"
    /\ PushDown(IF ServerCalls[spc].val = <<>> THEN reply ELSE ServerCalls[spc].val)
    /\ ServerGoes(PushOk, PushFailed, TRUE)
    /\ UNCHANGED <<prog, clientVars, mem, reply, upVars>>

ServerEnd ==
    /\ ServerReady /\ prog # "read_write" /\ ~ServerStays
    /\ spc > Len(ServerCalls)
    /\ sEnd' = "done"
    /\ UNCHANGED <<prog, clientVars, spc, mem, reply, said, upVars, downVars>>

\* The kernel closes the sockets of a process that has ended.
ServerExits ==
    /\ ~ServerRuns
    /\ serverOpenU \/ serverOpenD
    /\ IF serverOpenU THEN Up!CloseReader ELSE UNCHANGED upVars
    /\ IF serverOpenD THEN Down!CloseSender ELSE UNCHANGED downVars
    /\ UNCHANGED <<prog, clientVars, serverVars>>

Server ==
    \/ ServerCloses \/ ServerExits \/ ServerEnd
    \/ RwExit \/ RwCommand \/ RwRespond
    \/ ServerPull \/ ServerPush

Next == Client \/ ClientEnd \/ Server

Spec == Init /\ [][Next]_vars

\* Both processes run, and end when they have made their calls; a kill is never
\* due.
FairSpec ==
    /\ Spec
    /\ WF_vars(Client)
    /\ WF_vars(ClientEnd /\ cEnd' = "done")
    /\ WF_vars(Server)

-----------------------------------------------------------------------------
(* Properties *)

\* No assertion fails and no check finds wrong data: every write is read back,
\* every stream arrives in order, and the read/write server always has room and
\* a connection for its response ("assert(r > 0)", "assert(rdata == wdata)", "bad
\* data").  Only the server of a client that was killed may fail its push.
ChecksPass == cEnd # "failed" /\ (sEnd = "failed" => cEnd = "killed")

\* A server that has ended has left nothing: the exit command, which has a channel
\* of its own, overtakes no command and no response that the client waits for.
NothingUnserved ==
    sEnd = "done" /\ cEnd # "killed" =>
        /\ Len(receivedU) = sentU /\ sendDoneU = 0
        /\ prog = "read_write" => Len(receivedD) = sentU

\* A message that has begun ends: no process stays in send_msg or read_msg for
\* ever, also when its peer is killed in the middle of a message.
CallsReturn ==
    /\ ServerRuns /\ sendDoneD > 0 ~> sendDoneD = 0 \/ ~ServerRuns
    /\ ServerRuns /\ readBufU # <<>> ~> readBufU = <<>> \/ ~ServerRuns
    /\ ClientRuns /\ sendDoneU > 0 ~> sendDoneU = 0 \/ ~ClientRuns
    /\ ClientRuns /\ readBufD # <<>> ~> readBufD = <<>> \/ ~ClientRuns

\* Both processes come to the end of their programs, unless the client is killed.
ProgramsEnd ==
    <>(\/ cEnd = "killed"
       \/ /\ cEnd = "done" \/ (ClientStays /\ cpc > Len(ClientCalls))
          /\ sEnd = "done" \/ (ServerStays /\ spc > Len(ServerCalls)))
=============================================================================
