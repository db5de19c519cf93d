---------------------------- MODULE PullThenPush ----------------------------
(***************************************************************************)
(* multisim_server_pull_then_push: one process that pulls a command, shows *)
(* it to the device of the server simulation, takes the response and       *)
(* pushes it, again and again until the client has room for it.  It pulls  *)
(* at most every dpi_delay cycles, a delay that grows while no command     *)
(* comes.                                                                  *)
(*                                                                         *)
(* The process and the device run on one clock: an action is a posedge of  *)
(* it, in which both see the values before the posedge.  Clients come one  *)
(* after another; each connects to the two servers, uses the connections   *)
(* as SocketIo provides them, one message after another, and ends, which   *)
(* the process finds out at a pull and, apart from that, at a push.        *)
(* Command n of client c and its response are the message <<c, n>>.        *)
(***************************************************************************)
EXTENDS Integers, Sequences, SequencesExt

CONSTANTS
    Clients,      \* bound: number of clients
    Commands,     \* bound: number of commands a client has
    Killable,     \* the clients that may be killed
    Tcp,          \* the clients connected over TCP, the others by a Unix socket
    Cap,          \* messages the kernel buffers on each connection
    Active,       \* DPI_DELAY_CYCLES_ACTIVE
    Inactive,     \* DPI_DELAY_CYCLES_INACTIVE
    Grace,        \* DPI_GRACE_PULLS
    IntWidth,     \* bits of an int (32, few in the runs so that it wraps)
    AlwaysReady   \* the device has pull_data_rdy high when it gets a command

\* The last conjunct follows from IntWidth > 0, for a reader; the provers do not
\* know powers.
ASSUME PullThenPushAssumption ==
    /\ Clients \in Nat /\ Commands \in Nat
    /\ Killable \subseteq 1..Clients
    /\ Tcp \subseteq 1..Clients
    /\ Cap \in Nat \ {0}
    /\ Active \in Nat /\ Inactive \in Nat /\ Active <= Inactive
    /\ IntWidth \in Nat \ {0}
    /\ Grace \in Nat /\ Grace < 2 ^ (IntWidth - 1)
    /\ AlwaysReady \in BOOLEAN
    /\ 2 ^ (IntWidth - 1) \in Nat \ {0}

VARIABLES
    client,   \* the client that runs, or the last one that did; 0 before them
    up,       \* it runs
    killed,   \* the clients that were killed
    sent,     \* commands a client has pushed
    cmd,      \* messages on a client's connection to pull_server_name
    rsp,      \* messages on a client's connection to push_server_name
    answers,  \* responses a client has pulled
    cmdSock,  \* sockets[] of pull_server_name: the last client accepted, and
              \* whether its connection is open
    rspSock,  \* sockets[] of push_server_name
    pc,       \* where the process waits for a posedge: "top", "delay" (in the
              \* repeat), "present", "respond", "retry" (of the push)
    left,     \* posedges left in the repeat
    delay,    \* dpi_delay
    grace,    \* grace_pulls
    cmdVld,   \* pull_data_vld
    command,  \* pull_data
    todo,     \* the command the device is at
    rspVld,   \* push_data_vld, its push_data is todo
    rspRdy,   \* push_data_rdy
    dataQ     \* push_data_q

clientVars == <<client, up, killed, sent, answers>>
cmdVars == <<cmd, cmdSock>>
rspVars == <<rsp, rspSock>>
pullVars == <<left, delay, grace, cmdVld, command>>
deviceVars == <<todo, rspVld>>
pushVars == <<rspRdy, dataQ>>
vars == <<clientVars, cmdVars, rspVars, pc, pullVars, deviceVars, pushVars>>

Messages == (1..Clients) \X (1..Commands)
None == <<0, 0>>
Closed(c) == [of |-> c, open |-> FALSE]
Open(c) == [of |-> c, open |-> TRUE]

Init ==
    /\ client = 0 /\ up = FALSE /\ killed = {}
    /\ sent = [c \in 1..Clients |-> 0]
    /\ cmd = [c \in 1..Clients |-> <<>>]
    /\ rsp = [c \in 1..Clients |-> <<>>]
    /\ answers = [c \in 1..Clients |-> <<>>]
    /\ cmdSock = Closed(0) /\ rspSock = Closed(0)
    /\ pc = "top"
    /\ left = 0 /\ delay = 0 /\ grace = 0
    /\ cmdVld = FALSE /\ command = None
    /\ todo = None /\ rspVld = FALSE
    /\ rspRdy = FALSE /\ dataQ = None

-----------------------------------------------------------------------------
(* The clients, and the device of the server simulation *)

serverVars == <<cmdSock, rspSock, pc, pullVars, deviceVars, pushVars>>

\* A client starts, and is connected to both servers.
ClientStart ==
    /\ ~up /\ client < Clients
    /\ client' = client + 1
    /\ up' = TRUE
    /\ UNCHANGED <<killed, sent, answers, cmd, rsp, serverVars>>

ClientSend ==
    /\ up
    /\ sent[client] < Commands
    /\ Len(cmd[client]) < Cap
    /\ sent' = [sent EXCEPT ![client] = @ + 1]
    /\ cmd' = [cmd EXCEPT ![client] = Append(@, <<client, sent'[client]>>)]
    /\ UNCHANGED <<client, up, killed, answers, rsp, serverVars>>

ClientReceive ==
    /\ up
    /\ rsp[client] # <<>>
    /\ answers' = [answers EXCEPT ![client] = Append(@, Head(rsp[client]))]
    /\ rsp' = [rsp EXCEPT ![client] = Tail(@)]
    /\ UNCHANGED <<client, up, killed, sent, cmd, serverVars>>

\* It ends when it has a response to each of its commands, or is killed.
ClientEnd ==
    /\ up
    /\ \/ Len(answers[client]) = sent[client] /\ UNCHANGED killed
       \/ client \in Killable /\ killed' = killed \cup {client}
    /\ up' = FALSE
    /\ UNCHANGED <<client, sent, answers, cmd, rsp, serverVars>>

Gone(c) == c < client \/ ~up

\* The client of a pull or push: that of the open connection, else the next
\* one in the backlog, which is accepted; 0 when there is none.
Current(sock) ==
    IF sock.open THEN sock.of ELSE IF sock.of < client THEN sock.of + 1 ELSE 0

\* One posedge of the device: it takes a command when both sides are ready,
\* holds its response until it is taken, and is at one command at a time.
Device(ready) ==
    /\ ready => todo = None
    /\ AlwaysReady /\ cmdVld /\ todo = None => ready
    /\ todo' = IF cmdVld /\ ready THEN command
               ELSE IF rspVld /\ rspRdy THEN None
               ELSE todo
    /\ \E valid \in BOOLEAN :
          /\ valid => todo' # None
          /\ rspVld /\ todo' # None => valid
          /\ rspVld' = valid

-----------------------------------------------------------------------------
(* multisim_server_pull_then_push *)

\* Mutant: a delay of 0 is shifted too.
BugInactiveDelay(current, pulls) ==
    LET next == IF pulls > 0 THEN current ELSE 4 * current
    IN  IF next < Inactive THEN next ELSE Inactive

\* get_inactive_dpi_delay()
InactiveDelay(current, pulls) ==
    LET next == IF pulls > 0 THEN current
                ELSE IF current <= 0 THEN 1
                ELSE 4 * current
    IN  IF next < Inactive THEN next ELSE Inactive

\* grace_pulls - 1, an int that wraps.
Minus1(pulls) ==
    IF pulls = -(2 ^ (IntWidth - 1)) THEN 2 ^ (IntWidth - 1) - 1 ELSE pulls - 1

AtTop(ready) == pc = "top" /\ (~cmdVld \/ ready)

CallNow(ready) == (AtTop(ready) /\ delay = 0) \/ (pc = "delay" /\ left = 1)

WaitBegin(ready) ==
    /\ AtTop(ready)
    /\ delay > 0
    /\ pc' = "delay"
    /\ left' = delay
    /\ cmdVld' = FALSE
    /\ UNCHANGED <<cmdVars, rspVars, delay, grace, command, pushVars>>

WaitStep ==
    /\ pc = "delay"
    /\ left > 1
    /\ left' = left - 1
    /\ cmdVld' = FALSE
    /\ UNCHANGED <<cmdVars, rspVars, pc, delay, grace, command, pushVars>>

\* The pull has a command: it is on the port at the next posedge.
PullOk(ready) ==
    LET c == Current(cmdSock) IN
    /\ CallNow(ready)
    /\ c # 0 /\ cmd[c] # <<>>
    /\ cmd' = [cmd EXCEPT ![c] = Tail(@)]
    /\ cmdSock' = Open(c)
    /\ command' = Head(cmd[c])
    /\ cmdVld' = TRUE
    /\ delay' = Active
    /\ grace' = Grace
    /\ left' = 0
    /\ pc' = "present"
    /\ UNCHANGED <<pushVars, rspVars>>

\* Mutant: the connection of a client that has gone is not closed.
BugPullNothing ==
    LET c == Current(cmdSock) IN
    /\ c # 0 => cmd[c] = <<>>
    /\ cmdSock' = IF c = 0 THEN cmdSock ELSE Open(c)
    /\ UNCHANGED cmd

\* There is no client, or no command of it, or it has gone and its connection
\* is closed.
PullNothing ==
    LET c == Current(cmdSock) IN
    /\ c # 0 => cmd[c] = <<>>
    /\ cmdSock' = IF c = 0 THEN cmdSock ELSE IF Gone(c) THEN Closed(c) ELSE Open(c)
    /\ UNCHANGED cmd

\* MULTISIM_FAIL
PullFail(ready) ==
    /\ CallNow(ready)
    /\ PullNothing
    /\ cmdVld' = FALSE
    /\ delay' = InactiveDelay(delay, grace)
    /\ grace' = Minus1(grace)
    /\ left' = 0
    /\ pc' = "top"
    /\ UNCHANGED <<command, pushVars, rspVars>>

\* The posedge at which the device sees the command; pull_data_rdy is not
\* looked at.
Present ==
    /\ pc = "present"
    /\ cmdVld' = FALSE
    /\ rspRdy' = TRUE
    /\ pc' = "respond"
    /\ UNCHANGED <<cmdVars, rspVars, left, delay, grace, command, dataQ>>

\* The kernel takes d, to be read by the client.  TCP does so also when the
\* client has gone, until the other host has answered with a reset.
PushOk(c, d) ==
    /\ Gone(c) => c \in Tcp
    /\ Len(rsp[c]) < Cap
    /\ rsp' = [rsp EXCEPT ![c] = Append(@, d)]
    /\ rspSock' = Open(c)
    /\ pc' = "top"

PushFull(c) ==
    /\ ~Gone(c) /\ Len(rsp[c]) = Cap
    /\ rspSock' = Open(c)
    /\ pc' = "retry"
    /\ UNCHANGED rsp

\* Mutant: the response is given up together with the connection.
BugPushGone(c) ==
    /\ Gone(c)
    /\ rspSock' = Closed(c)
    /\ pc' = "top"
    /\ UNCHANGED rsp

\* The client has gone (EPIPE): its connection is closed.
PushGone(c) ==
    /\ Gone(c)
    /\ rspSock' = Closed(c)
    /\ pc' = "retry"
    /\ UNCHANGED rsp

PushNoClient ==
    /\ Current(rspSock) = 0
    /\ pc' = "retry"
    /\ UNCHANGED rspVars

\* The push of d, tried again at the next posedge when it fails.
Push(d) ==
    \/ PushNoClient
    \/ /\ Current(rspSock) # 0
       /\ LET c == Current(rspSock)
          IN  PushOk(c, d) \/ PushFull(c) \/ PushGone(c)

TakeResponse ==
    /\ pc = "respond"
    /\ rspVld
    /\ rspRdy' = FALSE
    /\ dataQ' = todo
    /\ Push(todo)
    /\ UNCHANGED <<cmdVars, pullVars>>

AwaitResponse ==
    /\ pc = "respond"
    /\ ~rspVld
    /\ UNCHANGED <<cmdVars, rspVars, pc, pullVars, pushVars>>

\* Mutant: the retry sends what is on the port, not what was taken.
BugRetryPush ==
    /\ pc = "retry"
    /\ Push(todo)
    /\ UNCHANGED <<cmdVars, pullVars, pushVars>>

RetryPush ==
    /\ pc = "retry"
    /\ Push(dataQ)
    /\ UNCHANGED <<cmdVars, pullVars, pushVars>>

Process(ready) ==
    \/ WaitBegin(ready)
    \/ WaitStep
    \/ PullOk(ready)
    \/ PullFail(ready)
    \/ Present
    \/ TakeResponse
    \/ AwaitResponse
    \/ RetryPush

Posedge(ready) == Process(ready) /\ Device(ready) /\ UNCHANGED clientVars

Next ==
    \/ ClientStart
    \/ ClientSend
    \/ ClientReceive
    \/ ClientEnd
    \/ \E ready \in BOOLEAN : Posedge(ready)

Spec == Init /\ [][Next]_vars

\* The clock runs, the device gets to its response, and a client pulls its
\* responses; it need not send, nor end, and no client need come.
Fairness ==
    /\ WF_vars(\E ready \in BOOLEAN : Posedge(ready))
    /\ WF_vars(\E ready \in BOOLEAN : Posedge(ready) /\ rspVld')
    /\ WF_vars(ClientReceive)

FairSpec == Spec /\ Fairness

-----------------------------------------------------------------------------
(* Properties *)

Ints == -(2 ^ (IntWidth - 1)) .. (2 ^ (IntWidth - 1) - 1)
Socks == [of : 0..Clients, open : BOOLEAN]

\* The variables hold values of their types.
TypeOK ==
    /\ client \in 0..Clients
    /\ up \in BOOLEAN
    /\ killed \subseteq Killable
    /\ sent \in [1..Clients -> 0..Commands]
    /\ cmd \in [1..Clients -> Seq(Messages)]
    /\ rsp \in [1..Clients -> Seq(Messages)]
    /\ answers \in [1..Clients -> Seq(Messages)]
    /\ \A c \in 1..Clients : Len(cmd[c]) <= Cap /\ Len(rsp[c]) <= Cap
    /\ cmdSock \in Socks /\ rspSock \in Socks
    /\ pc \in {"top", "delay", "present", "respond", "retry"}
    /\ left \in 0..Inactive /\ delay \in 0..Inactive /\ grace \in Ints
    /\ cmdVld \in BOOLEAN /\ rspVld \in BOOLEAN /\ rspRdy \in BOOLEAN
    /\ {command, todo, dataQ} \subseteq Messages \cup {None}

\* Every command that was sent is in one place, in order, as itself or as its
\* response: nothing is lost, repeated or overtaken between the two ready/valid
\* ports ("core library (ready/valid protocol)"), the retry of the push and the
\* connections of clients that come, go and are killed.  A response to a client
\* that was killed may be with the next one; what a client left unread counts.
InPort == IF cmdVld THEN <<command>> ELSE <<>>
InDevice == IF todo # None THEN <<todo>> ELSE <<>>
InRetry == IF pc = "retry" THEN <<dataQ>> ELSE <<>>

InProcess == InRetry \o InDevice \o InPort
Given(c) == answers[c] \o rsp[c]

Before(x, y) == x[1] < y[1] \/ (x[1] = y[1] /\ x[2] < y[2])
Ahead(s, t) == \A x \in Range(s), y \in Range(t) : Before(x, y)
Ascending(s) == \A i, j \in 1..Len(s) : i < j => Before(s[i], s[j])

InOrder ==
    /\ Ascending(InProcess)
    /\ \A c \in 1..Clients :
          /\ Ascending(Given(c)) /\ Ahead(Given(c), InProcess)
          /\ Ascending(cmd[c]) /\ Ahead(InProcess, cmd[c])
          /\ \A d \in 1..Clients :
                /\ Ahead(Given(c), cmd[d])
                /\ c < d => Ahead(Given(c), Given(d)) /\ Ahead(cmd[c], cmd[d])

IsSomewhere(m) ==
    \/ m \in Range(InProcess)
    \/ \E c \in 1..Clients : m \in Range(Given(c)) \/ m \in Range(cmd[c])

CommandsKept ==
    /\ InOrder
    /\ \A m \in Messages : IsSomewhere(m) <=> m[2] <= sent[m[1]]

\* While no earlier client was killed, and none had a TCP connection, which may
\* take a response when its client has gone, a client gets the responses to its
\* own commands, in their order and without a gap: what an earlier client left in
\* the two servers is never taken for an answer to this one.
NoneBefore(c) == \A k \in killed \cup Tcp : k >= c

OwnAnswers ==
    \A c \in 1..Clients :
        NoneBefore(c) => answers[c] = [n \in 1..Len(answers[c]) |-> <<c, n>>]

\* When no more commands come the process gets back to the inactive delay and
\* stays there, also after grace_pulls has wrapped, unless it waits for a
\* client to take its response.
Settles == <>[](delay = Inactive \/ pc = "retry")

\* A client that is not killed gets as many responses as it sent commands,
\* whatever room it leaves for them and whoever was connected before it: "retry
\* until the client gets the data".
EveryCommandAnswered ==
    \A c \in 1..Clients, n \in 1..Commands :
        sent[c] >= n ~> Len(answers[c]) >= n \/ c \in killed
=============================================================================
