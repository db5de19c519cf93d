----------------------------- MODULE ReadyValid -----------------------------
(***************************************************************************)
(* A channel between two simulations as the modules built on top of it see *)
(* it: the ready/valid port of a push module, whole messages on the way,   *)
(* and the ready/valid port of a pull module.  ClientToServer and          *)
(* ServerToClient model the same two modules down to the connections, and  *)
(* implement this one (ImplementsChannel): items arrive once, in order.    *)
(* PushPosedge and PullPosedge are part of a posedge of the module that    *)
(* instantiates this one.                                                  *)
(***************************************************************************)
EXTENDS Naturals, Sequences

CONSTANT Cap   \* messages the kernel buffers, at least 1

VARIABLES
    started,  \* the push module has started
    linked,   \* the two ends are connected: a server's push may come before
    rdy,      \* its data_rdy
    dataQ,    \* its data_q
    chan,     \* messages on the connection
    vld,      \* data_vld of the pull module
    data      \* its data

pushVars == <<started, rdy, dataQ>>
wireVars == <<linked, chan>>
pullVars == <<vld, data>>
channelVars == <<pushVars, wireVars, pullVars>>

\* `zero' is what a register holds before it is written.
ChannelInit(zero) ==
    /\ started = FALSE
    /\ linked = FALSE
    /\ rdy = FALSE
    /\ dataQ = zero
    /\ chan = <<>>
    /\ vld = FALSE
    /\ data = zero

\* The push module of a server that has started before any client has.
StartedInit(zero) ==
    /\ started = TRUE
    /\ linked = FALSE
    /\ rdy = TRUE
    /\ dataQ = zero
    /\ chan = <<>>
    /\ vld = FALSE
    /\ data = zero

-----------------------------------------------------------------------------
(* The push module *)

\* The push module starts; that of a client connects then.
Start ==
    /\ ~started
    /\ started' = TRUE
    /\ rdy' = TRUE
    /\ linked' \in {linked, TRUE}
    /\ UNCHANGED <<dataQ, chan, pullVars>>

\* The client has connected and the server has accepted it.
Link ==
    /\ ~linked
    /\ linked' = TRUE
    /\ UNCHANGED <<pushVars, chan, pullVars>>

\* The DPI call: the message is sent, or has to be sent again later.
Push(d) ==
    IF linked /\ Len(chan) < Cap
    THEN chan' = Append(chan, d) /\ rdy' = TRUE
    ELSE rdy' = FALSE /\ UNCHANGED chan

\* Mutant: what the call returns is not looked at.
BugPushTake(valid, d) ==
    /\ valid /\ rdy
    /\ chan' = IF linked /\ Len(chan) < Cap THEN Append(chan, d) ELSE chan
    /\ dataQ' = d
    /\ UNCHANGED rdy

PushTake(valid, d) == valid /\ rdy /\ Push(d) /\ dataQ' = d

PushRetry == started /\ ~rdy /\ Push(dataQ) /\ UNCHANGED dataQ

PushIdle(valid) ==
    /\ ~(valid /\ rdy)
    /\ ~(started /\ ~rdy)
    /\ UNCHANGED <<rdy, dataQ, chan>>

\* A posedge with data_vld = valid and the item d on the port.
PushPosedge(valid, d) ==
    /\ PushTake(valid, d) \/ PushRetry \/ PushIdle(valid)
    /\ UNCHANGED <<started, linked, pullVars>>

-----------------------------------------------------------------------------
(* The pull module *)

\* The DPI call returns a message.
PullOk(ready) ==
    /\ ~vld \/ ready
    /\ chan # <<>>
    /\ data' = Head(chan)
    /\ chan' = Tail(chan)
    /\ vld' = TRUE

\* There is none, or the module waits dpi_delay cycles.
PullNothing(ready) ==
    /\ ~vld \/ ready
    /\ vld' = FALSE
    /\ UNCHANGED <<chan, data>>

PullHold(ready) == vld /\ ~ready /\ UNCHANGED <<vld, chan, data>>

\* A posedge with data_rdy = ready.
PullPosedge(ready) ==
    /\ PullOk(ready) \/ PullNothing(ready) \/ PullHold(ready)
    /\ UNCHANGED <<pushVars, linked>>

\* A step of a channel with the item d on the port of the push module.
ChannelNext(d) ==
    \/ Start
    \/ Link
    \/ \E valid \in BOOLEAN : PushPosedge(valid, d)
    \/ \E ready \in BOOLEAN : PullPosedge(ready)

-----------------------------------------------------------------------------
\* The items between the two ports, the oldest first.
InFlight ==
    (IF vld THEN <<data>> ELSE <<>>)
        \o chan
        \o (IF started /\ ~rdy THEN <<dataQ>> ELSE <<>>)
=============================================================================
