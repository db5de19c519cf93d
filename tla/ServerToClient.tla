--------------------------- MODULE ServerToClient ---------------------------
(***************************************************************************)
(* A server->client channel: multisim_server_push in the server            *)
(* simulation, multisim_client_pull in each client simulation, and the DPI *)
(* library below them.  The server pushes to one client; the push that     *)
(* finds it gone closes the connection, and a later push accepts the next  *)
(* client.                                                                 *)
(*                                                                         *)
(* An action is one posedge of one simulator's clock with the DPI call it  *)
(* makes.  A connection carries whole messages (SocketIo).  A message is   *)
(* the number of the item the server's user handed over: 1, 2, 3...        *)
(***************************************************************************)
EXTENDS Naturals, Sequences

CONSTANTS
    Clients,      \* the client simulations that use the channel
    UnixClients,  \* the ones on the host of the server
    None,         \* no client
    Items,        \* bound: number of items the server's user has
    Cap,          \* messages the kernel buffers on one connection
    Active,       \* DPI_DELAY_CYCLES_ACTIVE
    Inactive      \* DPI_DELAY_CYCLES_INACTIVE

ASSUME ServerToClientAssumption ==
    /\ UnixClients \subseteq Clients
    /\ None \notin Clients
    /\ Items \in Nat
    /\ Cap \in Nat \ {0}
    /\ Active \in Nat
    /\ Inactive \in Nat

VARIABLES
    vld,     \* data_vld of multisim_server_push, driven by the server's user
    rdy,     \* its data_rdy
    item,    \* the number of the item on its data port
    dataQ,   \* its data_q, 0 before it is written
    unixQ,   \* pending connections of the server's Unix socket
    tcpQ,    \* pending connections of its TCP socket
    sock,    \* sockets[idx]: the accepted client
    state,   \* of a client simulation: "down", "up", "gone"
    wire,    \* messages on the client's connection
    left,    \* posedges left in `repeat (dpi_delay)' of multisim_client_pull
    delay,   \* its dpi_delay
    out,     \* its data register
    outVld,  \* its data_vld
    got      \* items the client's user took

pushVars == <<vld, rdy, item, dataQ>>
connVars == <<unixQ, tcpQ, sock>>
pullVars == <<left, delay, out, outVld, got>>
vars == <<pushVars, connVars, state, wire, pullVars>>

-----------------------------------------------------------------------------
\* multisim_server_start() has returned: data_rdy is up before any client is.
Init ==
    /\ vld = FALSE
    /\ rdy = TRUE
    /\ item = 1
    /\ dataQ = 0
    /\ unixQ = <<>>
    /\ tcpQ = <<>>
    /\ sock = None
    /\ state = [c \in Clients |-> "down"]
    /\ wire = [c \in Clients |-> <<>>]
    /\ left = [c \in Clients |-> 0]
    /\ delay = [c \in Clients |-> 0]
    /\ out = [c \in Clients |-> 0]
    /\ outVld = [c \in Clients |-> FALSE]
    /\ got = [c \in Clients |-> <<>>]

-----------------------------------------------------------------------------
(* multisim_server_push *)

\* The user presents its next item, which it then holds until it is taken.
ServerPresent ==
    /\ ~vld
    /\ item <= Items
    /\ vld' = TRUE
    /\ UNCHANGED <<rdy, item, dataQ, connVars, state, wire, pullVars>>

\* acceptNewSocket(): the oldest connection of the Unix socket, else of TCP.
Accepted ==
    IF unixQ # <<>> THEN Head(unixQ)
    ELSE IF tcpQ # <<>> THEN Head(tcpQ)
    ELSE None

AcceptNewSocket ==
    IF unixQ # <<>> THEN unixQ' = Tail(unixQ) /\ UNCHANGED tcpQ
    ELSE IF tcpQ # <<>> THEN tcpQ' = Tail(tcpQ) /\ UNCHANGED unixQ
    ELSE UNCHANGED <<unixQ, tcpQ>>

Current == IF sock = None THEN Accepted ELSE sock

AcceptIfNone == IF sock = None THEN AcceptNewSocket ELSE UNCHANGED <<unixQ, tcpQ>>

\* The call accepts a client when it has none, leaves the connection of client
\* and returns ok.
PushReturns(client, ok) == sock' = client /\ rdy' = ok /\ AcceptIfNone

PushWaits ==
    /\ Current # None => state[Current] = "up" /\ Len(wire[Current]) = Cap
    /\ UNCHANGED wire

\* Mutant: the connection is closed at any push that fails.
BugPushAgain == PushWaits /\ PushReturns(None, FALSE)

\* No client, or send_msg finds the buffer full (EAGAIN): the connection is kept.
PushAgain == PushWaits /\ PushReturns(Current, FALSE)

SendTo(d) ==
    /\ PushReturns(Current, TRUE)
    /\ wire' = [wire EXCEPT ![Current] = Append(@, d)]

\* Mutant: a full buffer is not noticed.
BugPushOk(d) == Current # None /\ SendTo(d)

\* send_msg takes the message, which a client that is gone will never read: TCP
\* only tells of it at a later send.
PushOk(d) == Current # None /\ Len(wire[Current]) < Cap /\ SendTo(d)

\* send_msg returns 0 or an errno other than EAGAIN: the client is gone.
SendFails == Current # None /\ state[Current] = "gone" /\ UNCHANGED wire

\* Mutant: a message that fails because the client is gone counts as sent.
BugPushGone == SendFails /\ PushReturns(None, TRUE)

\* Mutant: an error of send (EPIPE, ECONNRESET) is treated as a full buffer.
BugPushKeep == SendFails /\ PushReturns(Current, FALSE)

\* The connection is closed, and a later push accepts a new client.
PushGone == SendFails /\ PushReturns(None, FALSE)

Push(d) == PushAgain \/ PushOk(d) \/ PushGone

\* posedge with data_vld && data_rdy: the item is taken whatever the call
\* returns, and kept in data_q; the user presents the next one or nothing.
ServerTake ==
    /\ vld /\ rdy
    /\ dataQ' = item
    /\ Push(item)
    /\ item' = item + 1
    /\ \E more \in BOOLEAN :
          /\ more => item < Items
          /\ vld' = more
    /\ UNCHANGED <<state, pullVars>>

\* posedge with data_rdy low: the kept item is pushed again.
ServerRetry ==
    /\ ~rdy
    /\ Push(dataQ)
    /\ UNCHANGED <<vld, item, dataQ, state, pullVars>>

ServerPosedge == ServerTake \/ ServerRetry

-----------------------------------------------------------------------------
(* multisim_client_pull *)

\* multisim_client_start() connects: the connection waits in the backlog of the
\* socket it used until a push of the server accepts it.
ClientStart(c) ==
    /\ state[c] = "down"
    /\ state' = [state EXCEPT ![c] = "up"]
    /\ IF c \in UnixClients
       THEN unixQ' = Append(unixQ, c) /\ UNCHANGED tcpQ
       ELSE tcpQ' = Append(tcpQ, c) /\ UNCHANGED unixQ
    /\ UNCHANGED <<pushVars, sock, wire, pullVars>>

\* The client simulation ends, or is killed: what it has not read is lost, and
\* so is the item in its register.
ClientExit(c) ==
    /\ state[c] = "up"
    /\ state' = [state EXCEPT ![c] = "gone"]
    /\ UNCHANGED <<pushVars, connVars, wire, pullVars>>

\* The client's user takes the register at a posedge with data_vld && data_rdy.
Consume(c, ready) ==
    got' = IF outVld[c] /\ ready THEN [got EXCEPT ![c] = Append(@, out[c])] ELSE got

\* The process is at the top of its always block and its register is free.
AtTop(c, ready) == left[c] = 0 /\ (~outVld[c] \/ ready)

\* The posedge at which multisim_client_pull() is called: there is nothing to
\* wait for, or the last posedge of the wait.
CallNow(c, ready) == (AtTop(c, ready) /\ delay[c] = 0) \/ left[c] = 1

BeginWait(c, ready) ==
    /\ state[c] = "up"
    /\ AtTop(c, ready)
    /\ delay[c] > 0
    /\ left' = [left EXCEPT ![c] = delay[c]]
    /\ Consume(c, ready)
    /\ UNCHANGED <<pushVars, connVars, state, wire, delay, out>>

\* Mutant: data_vld is not cleared while the module waits.
BugWaitBegin(c, ready) == BeginWait(c, ready) /\ UNCHANGED outVld

\* repeat (dpi_delay): data_vld <= 0 and wait for the next posedge.
WaitBegin(c, ready) ==
    BeginWait(c, ready) /\ outVld' = [outVld EXCEPT ![c] = FALSE]

WaitStep(c, ready) ==
    /\ state[c] = "up"
    /\ left[c] > 1
    /\ left' = [left EXCEPT ![c] = @ - 1]
    /\ outVld' = [outVld EXCEPT ![c] = FALSE]
    /\ Consume(c, ready)
    /\ UNCHANGED <<pushVars, connVars, state, wire, delay, out>>

\* read_msg returned a message, accepted connection or not.
PullMessage(c, ready) ==
    /\ state[c] = "up"
    /\ CallNow(c, ready)
    /\ wire[c] # <<>>
    /\ wire' = [wire EXCEPT ![c] = Tail(@)]
    /\ out' = [out EXCEPT ![c] = Head(wire[c])]
    /\ delay' = [delay EXCEPT ![c] = Active]
    /\ left' = [left EXCEPT ![c] = 0]
    /\ Consume(c, ready)
    /\ UNCHANGED <<pushVars, connVars, state>>

\* Mutant: data_vld is not set by the call that returned the message.
BugPullOk(c, ready) ==
    PullMessage(c, ready) /\ outVld' = [outVld EXCEPT ![c] = FALSE]

PullOk(c, ready) == PullMessage(c, ready) /\ outVld' = [outVld EXCEPT ![c] = TRUE]

\* MULTISIM_FAIL: nothing to read.
PullFail(c, ready) ==
    /\ state[c] = "up"
    /\ CallNow(c, ready)
    /\ wire[c] = <<>>
    /\ outVld' = [outVld EXCEPT ![c] = FALSE]
    /\ delay' = [delay EXCEPT ![c] = Inactive]
    /\ left' = [left EXCEPT ![c] = 0]
    /\ Consume(c, ready)
    /\ UNCHANGED <<pushVars, connVars, state, wire, out>>

\* A posedge of a client's clock; `ready' is data_rdy, driven by its user.
ClientPosedge(c, ready) ==
    \/ WaitBegin(c, ready)
    \/ WaitStep(c, ready)
    \/ PullOk(c, ready)
    \/ PullFail(c, ready)

Next ==
    \/ ServerPresent
    \/ ServerPosedge
    \/ \E c \in Clients :
          \/ ClientStart(c)
          \/ ClientExit(c)
          \/ \E ready \in BOOLEAN : ClientPosedge(c, ready)

Spec == Init /\ [][Next]_vars

\* The clocks run and the clients' users are ready again and again.
Fairness ==
    /\ WF_vars(ServerPosedge)
    /\ \A c \in Clients : WF_vars(ClientPosedge(c, TRUE))

FairSpec == Spec /\ Fairness

-----------------------------------------------------------------------------
(* Properties *)

\* The variables hold values of their types and no buffer is overfull.
TypeOK ==
    /\ vld \in BOOLEAN
    /\ rdy \in BOOLEAN
    /\ item \in Nat \ {0}
    /\ dataQ \in Nat
    /\ unixQ \in Seq(UnixClients)
    /\ tcpQ \in Seq(Clients \ UnixClients)
    /\ sock \in Clients \cup {None}
    /\ state \in [Clients -> {"down", "up", "gone"}]
    /\ wire \in [Clients -> Seq(Nat)]
    /\ \A c \in Clients : Len(wire[c]) <= Cap
    /\ left \in [Clients -> Nat]
    /\ delay \in [Clients -> Nat]
    /\ out \in [Clients -> Nat]
    /\ outVld \in [Clients -> BOOLEAN]
    /\ got \in [Clients -> Seq(Nat)]

\* The items that were sent to c, oldest first: taken by its user, in its data
\* register, on its connection.
InRegister(c) == IF outVld[c] THEN <<out[c]>> ELSE <<>>
Stream(c) == got[c] \o InRegister(c) \o wire[c]

SentTo(c, n) == \E i \in 1..Len(Stream(c)) : Stream(c)[i] = n

\* A client gets consecutive items: between the first and the last it is sent,
\* none is skipped, repeated or reordered, whatever the back-pressure, the waits
\* and the failed calls of both modules.
Consecutive ==
    \A c \in Clients : \A i \in 1..Len(Stream(c)) : Stream(c)[i] = Stream(c)[1] + i - 1

\* Every item the server's user handed over went to exactly one client, except
\* the one that multisim_server_push keeps for its retry, which went to none: a
\* client that goes away neither makes the server skip an item nor makes two
\* clients see the same one.
ExactlyOneClient ==
    \A n \in 1..(item - 1) :
        IF ~rdy /\ n = item - 1
        THEN dataQ = n /\ \A c \in Clients : ~SentTo(c, n)
        ELSE /\ \E c \in Clients : SentTo(c, n)
             /\ \A c, d \in Clients : SentTo(c, n) /\ SentTo(d, n) => c = d

\* A client that is there is in a backlog or accepted: the server closes the
\* connection of no client that could still be served.
InBacklog(q, c) == \E i \in 1..Len(q) : q[i] = c
Pending(c) == InBacklog(unixQ, c) \/ InBacklog(tcpQ, c)

NoClientDropped == \A c \in Clients : state[c] = "up" => Pending(c) \/ sock = c

\* The channel as its only client sees it.
Channel(c) == INSTANCE ReadyValid WITH
    started <- TRUE, linked <- state[c] # "down", rdy <- rdy, dataQ <- dataQ,
    chan <- wire[c], vld <- outVld[c], data <- out[c]

ChannelStep(c) == Channel(c)!ChannelNext(item) \/ UNCHANGED Channel(c)!channelVars

OnlyClient(c) == state[c] # "gone" /\ \A d \in Clients \ {c} : state[d] = "down"

\* As long as no second client comes and the first one stays, the two modules are
\* a channel as the quasi-static and APB modules assume one.
ImplementsChannel ==
    /\ \A c \in Clients : Channel(c)!StartedInit(0)
    /\ [][\A c \in Clients : OnlyClient(c)' => ChannelStep(c)]_vars

\* An item sent to a client that stays reaches its user.
SentIsTaken ==
    \A c \in Clients, n \in 1..Items :
        SentTo(c, n) ~> (\E i \in 1..Len(got[c]) : got[c][i] = n) \/ state[c] = "gone"

\* An item that could not be sent goes, also when the client of the connection
\* is gone, as soon as another client is there to get it.
RetrySucceeds == ~rdy ~> rdy \/ \A c \in Clients : state[c] # "up"
=============================================================================
