--------------------------- MODULE ClientToServer ---------------------------
(***************************************************************************)
(* A client->server channel: multisim_client_push in each client           *)
(* simulation, multisim_server_pull in the server simulation, and the DPI  *)
(* library below them.  Clients come and go one after the other; the       *)
(* server holds at most one connection and accepts the next one at the     *)
(* pull that finds it has none.                                            *)
(*                                                                         *)
(* An action is one posedge of one simulator's clock with the DPI call it  *)
(* makes.  A connection carries whole messages: SocketIo shows that        *)
(* send_msg and read_msg make it so.  A message is the number of the item  *)
(* its client's user handed over: 1, 2, 3...                               *)
(***************************************************************************)
EXTENDS Naturals, Sequences

CONSTANTS
    Clients,      \* the client simulations that use the channel
    UnixClients,  \* the ones on the host of the server
    None,         \* no client
    Items,        \* bound: number of items the user of each client has
    Cap,          \* messages the kernel buffers on one connection
    Active,       \* DPI_DELAY_CYCLES_ACTIVE
    Inactive      \* DPI_DELAY_CYCLES_INACTIVE

ASSUME ClientToServerAssumption ==
    /\ UnixClients \subseteq Clients
    /\ None \notin Clients
    /\ Items \in [Clients -> Nat]
    /\ Cap \in Nat \ {0}
    /\ Active \in Nat
    /\ Inactive \in Nat

VARIABLES
    state,   \* of a client simulation: "down", "up", "gone"
    vld,     \* data_vld of multisim_client_push, driven by the client's user
    rdy,     \* its data_rdy
    item,    \* the number of the item on its data port
    dataQ,   \* its data_q, 0 before it is written
    wire,    \* messages on the client's connection
    unixQ,   \* pending connections of the server's Unix socket
    tcpQ,    \* pending connections of its TCP socket
    sock,    \* sockets[idx]: the accepted client
    left,    \* posedges left in `repeat (dpi_delay)', 0 outside of it
    delay,   \* dpi_delay of multisim_server_pull
    out,     \* its data register: [client, item]
    outVld,  \* its data_vld
    got      \* items the server's user took, client by client

clientVars == <<state, vld, rdy, item, dataQ>>
connVars == <<unixQ, tcpQ, sock>>
pullVars == <<left, delay, out, outVld, got>>
vars == <<clientVars, wire, connVars, pullVars>>

-----------------------------------------------------------------------------
Init ==
    /\ state = [c \in Clients |-> "down"]
    /\ vld = [c \in Clients |-> FALSE]
    /\ rdy = [c \in Clients |-> FALSE]
    /\ item = [c \in Clients |-> 1]
    /\ dataQ = [c \in Clients |-> 0]
    /\ wire = [c \in Clients |-> <<>>]
    /\ unixQ = <<>>
    /\ tcpQ = <<>>
    /\ sock = None
    /\ left = 0
    /\ delay = 0
    /\ out = [client |-> None, item |-> 0]
    /\ outVld = FALSE
    /\ got = [c \in Clients |-> <<>>]

-----------------------------------------------------------------------------
(* multisim_client_push *)

\* multisim_client_start() connects: the connection waits in the backlog of the
\* socket it used, and the module can push at once.
ClientStart(c) ==
    /\ state[c] = "down"
    /\ state' = [state EXCEPT ![c] = "up"]
    /\ rdy' = [rdy EXCEPT ![c] = TRUE]
    /\ IF c \in UnixClients
       THEN unixQ' = Append(unixQ, c) /\ UNCHANGED tcpQ
       ELSE tcpQ' = Append(tcpQ, c) /\ UNCHANGED unixQ
    /\ UNCHANGED <<vld, item, dataQ, wire, sock, pullVars>>

\* The user has nothing on the port and nothing is retried: it may present its
\* next item, which it then holds until it is taken.
ClientPresent(c) ==
    /\ state[c] = "up"
    /\ ~vld[c]
    /\ item[c] <= Items[c]
    /\ vld' = [vld EXCEPT ![c] = TRUE]
    /\ UNCHANGED <<state, rdy, item, dataQ, wire, connVars, pullVars>>

\* multisim_client_push_core: send_msg takes the message or finds the buffer full.
Push(c, d) ==
    IF Len(wire[c]) < Cap
    THEN /\ wire' = [wire EXCEPT ![c] = Append(@, d)]
         /\ rdy' = [rdy EXCEPT ![c] = TRUE]
    ELSE /\ rdy' = [rdy EXCEPT ![c] = FALSE]
         /\ UNCHANGED wire

\* posedge with data_vld && data_rdy: the item is taken whatever the call
\* returns; the user presents the next one or nothing.
Take(c) ==
    /\ state[c] = "up"
    /\ vld[c] /\ rdy[c]
    /\ Push(c, item[c])
    /\ item' = [item EXCEPT ![c] = @ + 1]
    /\ \E more \in BOOLEAN :
          /\ more => item[c] < Items[c]
          /\ vld' = [vld EXCEPT ![c] = more]
    /\ UNCHANGED <<state, connVars, pullVars>>

\* Mutant: the item is not kept for the retry.
BugClientTake(c) == Take(c) /\ UNCHANGED dataQ

\* The item is kept in data_q.
ClientTake(c) == Take(c) /\ dataQ' = [dataQ EXCEPT ![c] = item[c]]

\* posedge with data_rdy low: the kept item is pushed again.
ClientRetry(c) ==
    /\ state[c] = "up"
    /\ ~rdy[c]
    /\ Push(c, dataQ[c])
    /\ UNCHANGED <<state, vld, item, dataQ, connVars, pullVars>>

\* The client simulation ends, or is killed, between two calls.  What it sent
\* stays readable; an item in data_q that was not sent ends with it.
ClientExit(c) ==
    /\ state[c] = "up"
    /\ state' = [state EXCEPT ![c] = "gone"]
    /\ UNCHANGED <<vld, rdy, item, dataQ, wire, connVars, pullVars>>

-----------------------------------------------------------------------------
(* multisim_server_pull *)

\* acceptNewSocket(): the oldest connection of the Unix socket, else of TCP.
Accepted ==
    IF unixQ # <<>> THEN Head(unixQ)
    ELSE IF tcpQ # <<>> THEN Head(tcpQ)
    ELSE None

AcceptNewSocket ==
    IF unixQ # <<>> THEN unixQ' = Tail(unixQ) /\ UNCHANGED tcpQ
    ELSE IF tcpQ # <<>> THEN tcpQ' = Tail(tcpQ) /\ UNCHANGED unixQ
    ELSE UNCHANGED <<unixQ, tcpQ>>

\* The connection this pull reads: the one it has, else the one it accepts.
Current == IF sock = None THEN Accepted ELSE sock

AcceptIfNone == IF sock = None THEN AcceptNewSocket ELSE UNCHANGED <<unixQ, tcpQ>>

\* The server's user takes the register at a posedge with data_vld && data_rdy.
Consume(ready) ==
    got' = IF outVld /\ ready
           THEN [got EXCEPT ![out.client] = Append(@, out.item)]
           ELSE got

\* The process is at the top of its always block and its register is free.
AtTop(ready) == left = 0 /\ (~outVld \/ ready)

\* The posedge at which multisim_server_pull() is called: there is nothing to
\* wait for, or the last posedge of the wait.
CallNow(ready) == (AtTop(ready) /\ delay = 0) \/ left = 1

\* repeat (dpi_delay): data_vld <= 0 and wait for the next posedge.
WaitBegin(ready) ==
    /\ AtTop(ready)
    /\ delay > 0
    /\ left' = delay
    /\ outVld' = FALSE
    /\ Consume(ready)
    /\ UNCHANGED <<clientVars, wire, connVars, delay, out>>

WaitStep(ready) ==
    /\ left > 1
    /\ left' = left - 1
    /\ outVld' = FALSE
    /\ Consume(ready)
    /\ UNCHANGED <<clientVars, wire, connVars, delay, out>>

\* read_msg returned a message: MULTISIM_SUCCESS.
PullOk(ready) ==
    /\ CallNow(ready)
    /\ Current # None
    /\ wire[Current] # <<>>
    /\ sock' = Current
    /\ AcceptIfNone
    /\ wire' = [wire EXCEPT ![Current] = Tail(@)]
    /\ out' = [client |-> Current, item |-> Head(wire[Current])]
    /\ outVld' = TRUE
    /\ delay' = Active
    /\ left' = 0
    /\ Consume(ready)
    /\ UNCHANGED clientVars

\* The call finds no message; it leaves the connection of client and data_vld.
PullNothing(ready, client, valid) ==
    /\ CallNow(ready)
    /\ Current # None => wire[Current] = <<>>
    /\ sock' = client
    /\ AcceptIfNone
    /\ outVld' = valid
    /\ delay' = Inactive
    /\ left' = 0
    /\ Consume(ready)
    /\ UNCHANGED <<clientVars, wire, out>>

\* read_msg returned 0: the client is gone and all its messages were read.
AtEnd == Current # None /\ state[Current] = "gone"

\* Mutant: data_vld does not depend on what the call returns.
BugPullVld(ready) == PullNothing(ready, IF AtEnd THEN None ELSE Current, TRUE)

\* Mutant: the connection is closed at any pull that finds no message.
BugPullFail(ready) == PullNothing(ready, None, FALSE)

\* Mutant: the connection is never closed.
BugNoClose(ready) == PullNothing(ready, Current, FALSE)

\* MULTISIM_FAIL: no client, nothing to read (EAGAIN), or the end of the stream,
\* for which the connection is closed.
PullFail(ready) == PullNothing(ready, IF AtEnd THEN None ELSE Current, FALSE)

\* A posedge of the server's clock; `ready' is data_rdy, driven by its user.
ServerPosedge(ready) ==
    WaitBegin(ready) \/ WaitStep(ready) \/ PullOk(ready) \/ PullFail(ready)

ClientPosedge(c) == ClientTake(c) \/ ClientRetry(c)

Next ==
    \/ \E c \in Clients :
          \/ ClientStart(c)
          \/ ClientPresent(c)
          \/ ClientPosedge(c)
          \/ ClientExit(c)
    \/ \E ready \in BOOLEAN : ServerPosedge(ready)

Spec == Init /\ [][Next]_vars

\* Both clocks run, the server's user is ready again and again, and every
\* client simulation ends some day, which is what lets the next one in.
Fairness ==
    /\ \A c \in Clients : WF_vars(ClientPosedge(c)) /\ WF_vars(ClientExit(c))
    /\ WF_vars(ServerPosedge(TRUE))

FairSpec == Spec /\ Fairness

-----------------------------------------------------------------------------
(* Properties *)

\* The variables hold values of their types and no buffer is overfull.
TypeOK ==
    /\ state \in [Clients -> {"down", "up", "gone"}]
    /\ vld \in [Clients -> BOOLEAN]
    /\ rdy \in [Clients -> BOOLEAN]
    /\ item \in [Clients -> Nat \ {0}]
    /\ dataQ \in [Clients -> Nat]
    /\ wire \in [Clients -> Seq(Nat)]
    /\ \A c \in Clients : Len(wire[c]) <= Cap
    /\ unixQ \in Seq(UnixClients)
    /\ tcpQ \in Seq(Clients \ UnixClients)
    /\ sock \in Clients \cup {None}
    /\ left \in Nat
    /\ delay \in Nat
    /\ out \in [client : Clients \cup {None}, item : Nat]
    /\ outVld \in BOOLEAN
    /\ outVld => out.client # None
    /\ got \in [Clients -> Seq(Nat)]

\* What is in the server's register for c, and what c still has to send again.
InRegister(c) == IF outVld /\ out.client = c THEN <<out.item>> ELSE <<>>
InRetry(c) == IF state[c] # "down" /\ ~rdy[c] THEN <<dataQ[c]>> ELSE <<>>

\* Every item a client's user handed over is in exactly one place, and in order:
\* taken by the server's user, in the register of multisim_server_pull, in the
\* kernel, or kept by multisim_client_push.  No back-pressure, wait or failed
\* call of either module loses, repeats or reorders one.
Conserved ==
    \A c \in Clients :
        got[c] \o InRegister(c) \o wire[c] \o InRetry(c) = [i \in 1..(item[c] - 1) |-> i]

\* A client that is connected and neither pending nor accepted was closed by the
\* server: it is gone, and all it sent was pulled (also what it sent just before
\* it ended).
Connected(c) == state[c] # "down"
Pending(c) ==
    \/ \E i \in 1..Len(unixQ) : unixQ[i] = c
    \/ \E i \in 1..Len(tcpQ) : tcpQ[i] = c

NothingLeftBehind ==
    \A c \in Clients :
        Connected(c) /\ ~Pending(c) /\ sock # c => state[c] = "gone" /\ wire[c] = <<>>

\* The connection of a client, with what its user and the server's user see of
\* it.  What is in the register is the last item the server's user took, or the
\* one it is shown.
Channel(c) == INSTANCE ReadyValid WITH
    started <- state[c] # "down", linked <- state[c] # "down",
    rdy <- rdy[c], dataQ <- dataQ[c], chan <- wire[c],
    vld <- outVld /\ out.client = c,
    data <- IF outVld /\ out.client = c THEN out.item ELSE Len(got[c])

ChannelStep(c) == Channel(c)!ChannelNext(item[c]) \/ UNCHANGED Channel(c)!channelVars

\* Each client has a channel as the quasi-static and APB modules assume one, for
\* itself: other clients, the backlogs, the waits between the calls and the ends
\* of clients only make the server's module look as if nothing had come yet.
ImplementsChannel ==
    /\ \A c \in Clients : Channel(c)!ChannelInit(0)
    /\ [][\A c \in Clients : ChannelStep(c)]_vars

\* Whatever a client has sent reaches the user of the server: clients that wait
\* behind others in the backlog are served too, even when they have ended
\* meanwhile.
EverySentIsTaken ==
    \A c \in Clients : \A n \in 1..Items[c] :
        (\E i \in 1..Len(wire[c]) : wire[c][i] = n)
            ~> (\E i \in 1..Len(got[c]) : got[c][i] = n)
=============================================================================
