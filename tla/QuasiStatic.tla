---------------------------- MODULE QuasiStatic ----------------------------
(***************************************************************************)
(* The quasi-static modules: a signal of one simulation (an interrupt, for *)
(* instance) is shown to another.  The push module samples its input, puts *)
(* every change in a queue and offers the queue to a channel; the pull     *)
(* module shows what arrives.  The two directions, client->server and      *)
(* server->client, have the same code.                                     *)
(*                                                                         *)
(* An action is a posedge of one of the two simulations, or the moment the *)
(* channel is up.                                                          *)
(***************************************************************************)
EXTENDS Naturals, Sequences

CONSTANTS
    Values,      \* the values of the signal
    Zero,        \* the one a register holds at first
    Cap,         \* messages the kernel buffers
    MaxChanges   \* bound: changes of the signal

ASSUME QuasiStaticAssumption ==
    /\ Zero \in Values
    /\ Cap \in Nat \ {0}
    /\ MaxChanges \in Nat

VARIABLES
    data,      \* the input of the push module
    dataPrev,  \* its data_prev
    queue,     \* its data_queue
    dataVld,   \* its data_vld
    dataPush,  \* its data_push
    started, linked, rdy, dataQ, chan, vld, pulled,   \* the channel, see ReadyValid
    out,       \* the output of the pull module
    inputs,    \* the values the input has had
    outputs    \* the values the output was given

sourceVars == <<data, dataPrev, queue, dataVld, dataPush, inputs>>
sinkVars == <<out, outputs>>
channelVars == <<started, linked, rdy, dataQ, chan, vld, pulled>>
vars == <<sourceVars, channelVars, sinkVars>>

Channel == INSTANCE ReadyValid WITH data <- pulled

\* The initial block: the first value is in the queue.
Init ==
    /\ data \in Values
    /\ dataPrev = data
    /\ queue = <<data>>
    /\ dataVld = FALSE
    /\ dataPush = Zero
    /\ Channel!ChannelInit(Zero)
    /\ out = Zero
    /\ inputs = <<data>>
    /\ outputs = <<>>

-----------------------------------------------------------------------------
\* The queue after the change detection of this posedge.
Sampled == IF data # dataPrev THEN Append(queue, data) ELSE queue

\* Mutant: what is offered is replaced although it was not accepted.
BugOffer ==
    IF Sampled # <<>>
    THEN /\ dataPush' = Head(Sampled)
         /\ queue' = Tail(Sampled)
         /\ dataVld' = TRUE
    ELSE /\ dataVld' = (dataVld /\ ~rdy)
         /\ queue' = <<>>
         /\ UNCHANGED dataPush

\* "keep the data until it is accepted"
Offer ==
    IF dataVld /\ ~rdy THEN queue' = Sampled /\ UNCHANGED <<dataVld, dataPush>>
    ELSE IF Sampled # <<>>
    THEN /\ dataPush' = Head(Sampled)
         /\ queue' = Tail(Sampled)
         /\ dataVld' = TRUE
    ELSE /\ dataVld' = FALSE
         /\ queue' = <<>>
         /\ UNCHANGED dataPush

\* The user drives the input after the posedge; it may keep it.
Drive ==
    \E d \in Values :
        /\ data' = d
        /\ inputs' = IF d = data THEN inputs ELSE Append(inputs, d)
        /\ Len(inputs') <= MaxChanges + 1

SourcePosedge ==
    /\ dataPrev' = data
    /\ Offer
    /\ Channel!PushPosedge(dataVld, dataPush)
    /\ Drive
    /\ UNCHANGED sinkVars

ChannelUp == (Channel!Start \/ Channel!Link) /\ UNCHANGED <<sourceVars, sinkVars>>

\* data_rdy is 1: what arrives is shown at once.
Show ==
    IF vld THEN out' = pulled /\ outputs' = Append(outputs, pulled)
    ELSE UNCHANGED <<out, outputs>>

SinkPosedge ==
    /\ Show
    /\ Channel!PullPosedge(TRUE)
    /\ UNCHANGED sourceVars

Next == SourcePosedge \/ ChannelUp \/ SinkPosedge

Spec == Init /\ [][Next]_vars

\* Both clocks run, the channel comes up, and the pull module gets to its DPI
\* call again and again.
FairSpec ==
    /\ Spec
    /\ WF_vars(SourcePosedge)
    /\ WF_vars(ChannelUp)
    /\ WF_vars(SinkPosedge)
    /\ WF_vars(SinkPosedge /\ Channel!PullOk(TRUE))

-----------------------------------------------------------------------------
(* Properties *)

\* Every value the signal has had, also one that was gone at the next posedge or
\* before the channel was up, is shown on the other side once, in order: it is in
\* one place on the way there.
NotSampled == IF data # dataPrev THEN <<data>> ELSE <<>>
Offered == IF dataVld THEN <<dataPush>> ELSE <<>>

NoChangeLost == outputs \o Channel!InFlight \o Offered \o queue \o NotSampled = inputs

\* When the signal stops changing the other side shows it and keeps showing it.
FollowsSignal == <>[](out = data)
=============================================================================
