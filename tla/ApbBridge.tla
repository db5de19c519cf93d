----------------------------- MODULE ApbBridge -----------------------------
(***************************************************************************)
(* An APB bus cut in two: multisim_*_apb_push is the subordinate of the    *)
(* manager's simulation, multisim_*_apb_pull the manager of the            *)
(* subordinate's.  Requests cross one channel, responses another.  Both    *)
(* ends follow the phases of the bus with a multisim_apb_fsm whose state   *)
(* is combinational.  Client and server may be either end: their code is   *)
(* the same.                                                               *)
(*                                                                         *)
(* An action is a posedge of one of the two simulations, with the wires    *)
(* settled before it.  Transfer n, its request and its response are the    *)
(* number n.                                                               *)
(***************************************************************************)
EXTENDS Naturals, Sequences

CONSTANTS
    Transfers,   \* bound: number of transfers of the manager
    Cap          \* messages the kernel buffers on each connection

ASSUME ApbBridgeAssumption ==
    /\ Transfers \in Nat
    /\ Cap \in Nat \ {0}

VARIABLES
    phase,      \* of the manager: "idle", "setup" (psel), "access" (and penable)
    transfer,   \* the transfer it is at, or was at last
    done,       \* the responses it has got
    mPrev,      \* prev_state of the FSM at its side
    mReadyD1,   \* apb_pready_d1 of that FSM
    latch,      \* request_vld as it was in the last cycle: a latch in ACCESS
    sPrev,      \* prev_state of the FSM at the subordinate's side
    sReadyD1,   \* apb_pready_d1 of that FSM
    sReq,       \* o_apb_m_req as it was in the last cycle: a latch but in SETUP
    performed,  \* the transfers the subordinate has performed
    startedQ, linkedQ, rdyQ, dataQ, chanQ, vldQ, pulledQ,   \* the request channel
    startedP, linkedP, rdyP, dataP, chanP, vldP, pulledP    \* the response channel

managerVars == <<phase, transfer, done, mPrev, mReadyD1, latch>>
subordinateVars == <<sPrev, sReadyD1, sReq, performed>>
requestVars == <<startedQ, linkedQ, rdyQ, dataQ, chanQ, vldQ, pulledQ>>
responseVars == <<startedP, linkedP, rdyP, dataP, chanP, vldP, pulledP>>
vars == <<managerVars, subordinateVars, requestVars, responseVars>>

Request == INSTANCE ReadyValid WITH
    started <- startedQ, linked <- linkedQ, rdy <- rdyQ, dataQ <- dataQ, chan <- chanQ,
    vld <- vldQ, data <- pulledQ

Response == INSTANCE ReadyValid WITH
    started <- startedP, linked <- linkedP, rdy <- rdyP, dataQ <- dataP, chan <- chanP,
    vld <- vldP, data <- pulledP

\* prev_state is not one of the states before the first posedge: the FSM is IDLE.
Init ==
    /\ phase = "idle"
    /\ transfer = 0
    /\ done = <<>>
    /\ mPrev = "IDLE"
    /\ mReadyD1 = FALSE
    /\ latch = FALSE
    /\ sPrev = "IDLE"
    /\ sReadyD1 = FALSE
    /\ sReq = 0
    /\ performed = <<>>
    /\ Request!ChannelInit(0)
    /\ Response!ChannelInit(0)

-----------------------------------------------------------------------------
(* multisim_apb_fsm *)

\* Mutant: the end of a transfer is not waited for.
BugState(prev, readyD1, psel) ==
    IF prev = "SETUP" THEN "ACCESS" ELSE IF psel THEN "SETUP" ELSE "IDLE"

\* next_state_logic
State(prev, readyD1, psel) ==
    IF prev = "SETUP" \/ (prev = "ACCESS" /\ ~readyD1) THEN "ACCESS"
    ELSE IF psel THEN "SETUP"
    ELSE "IDLE"

-----------------------------------------------------------------------------
(* The manager's simulation: multisim_*_apb_push *)

MState == State(mPrev, mReadyD1, phase # "idle")

\* Mutant: the request is offered in the whole access phase.
BugRequestVld == MState # "IDLE"

\* request_vld: in ACCESS it keeps its value until request_rdy.
RequestVld ==
    \/ MState = "SETUP"
    \/ MState = "ACCESS" /\ ~rdyQ /\ latch

\* o_apb_s_pready: response_rdy is 1, a response is there for one posedge.
MReady == vldP

\* The manager: a setup cycle, then access cycles until pready; a next transfer
\* may follow at once.
ManagerStep ==
    \/ /\ phase = "setup"
       /\ phase' = "access"
       /\ UNCHANGED <<transfer, done>>
    \/ /\ phase = "access" /\ ~MReady
       /\ UNCHANGED <<phase, transfer, done>>
    \/ /\ phase = "idle" \/ (phase = "access" /\ MReady)
       /\ done' = IF phase = "access" THEN Append(done, pulledP) ELSE done
       /\ \/ phase' = "idle" /\ UNCHANGED transfer
          \/ /\ transfer < Transfers
             /\ phase' = "setup"
             /\ transfer' = transfer + 1

ManagerPosedge ==
    /\ ManagerStep
    /\ mPrev' = MState
    /\ mReadyD1' = MReady
    /\ latch' = RequestVld
    /\ Request!PushPosedge(RequestVld, transfer)
    /\ Response!PullPosedge(TRUE)
    /\ UNCHANGED subordinateVars

-----------------------------------------------------------------------------
(* The subordinate's simulation: multisim_*_apb_pull *)

SState == State(sPrev, sReadyD1, vldQ)

RequestRdy == SState # "ACCESS"

\* o_apb_m_req: the request in SETUP, what it was then in ACCESS.
SReq == IF SState = "SETUP" THEN pulledQ ELSE sReq

\* response_vld; pready is driven by the subordinate, in any phase.
ResponseVld(pready) == pready /\ SState = "ACCESS"

SubordinatePosedge(pready) ==
    /\ sPrev' = SState
    /\ sReadyD1' = pready
    /\ sReq' = SReq
    /\ performed' = IF SState = "ACCESS" /\ pready THEN Append(performed, SReq)
                    ELSE performed
    /\ Request!PullPosedge(RequestRdy)
    /\ Response!PushPosedge(ResponseVld(pready), SReq)
    /\ UNCHANGED managerVars

-----------------------------------------------------------------------------
\* The channels come up: a push module has started before the first posedge of
\* its simulation, its peer may connect later.
RequestUp ==
    /\ Request!Link \/ (phase = "idle" /\ Request!Start)
    /\ UNCHANGED <<managerVars, subordinateVars, responseVars>>

ResponseUp ==
    /\ Response!Link \/ Response!Start
    /\ UNCHANGED <<managerVars, subordinateVars, requestVars>>

Next ==
    \/ startedQ /\ ManagerPosedge
    \/ startedP /\ (\E pready \in BOOLEAN : SubordinatePosedge(pready))
    \/ RequestUp
    \/ ResponseUp

Spec == Init /\ [][Next]_vars

\* Both clocks run, the channels come up, the pull modules get to their DPI call
\* and the subordinate to its pready again and again.
FairSpec ==
    /\ Spec
    /\ WF_vars(startedQ /\ ManagerPosedge)
    /\ WF_vars(startedQ /\ ManagerPosedge /\ Response!PullOk(TRUE))
    /\ WF_vars(startedP /\ SubordinatePosedge(TRUE))
    /\ WF_vars(startedP /\ (\E pready \in BOOLEAN : SubordinatePosedge(pready))
                 /\ Request!PullOk(RequestRdy))
    /\ WF_vars(RequestUp)
    /\ WF_vars(ResponseUp)

-----------------------------------------------------------------------------
(* Properties *)

States == {"IDLE", "SETUP", "ACCESS"}

\* The FSM of the manager's side is in the phase of the bus in every cycle, from
\* the delayed pready of the cycle before.
FollowsBus ==
    MState = CASE phase = "idle" -> "IDLE"
               [] phase = "setup" -> "SETUP"
               [] phase = "access" -> "ACCESS"

\* The valids of a request and of a response are up for one posedge and nobody
\* looks at the ready of the channel they go to: it is ready at that posedge.
ReadyIsNotNeeded ==
    /\ MState = "SETUP" => rdyQ
    /\ SState = "ACCESS" /\ sPrev = "SETUP" => rdyP

\* The subordinate performs the transfers of the manager, each once and in order,
\* never ahead of it, and the manager gets the response of the transfer it is at.
Up(n) == [i \in 1..n |-> i]

SameTransfers ==
    /\ performed \in {Up(Len(done)), Up(transfer)}
    /\ done = Up(IF phase = "idle" THEN transfer ELSE transfer - 1)

\* The bus that is cut in two works as one: a transfer is performed once, while
\* the manager holds it on the bus, and pready comes with its own response.
Bus == INSTANCE RemoteCall WITH
    Answers <- [n \in Nat |-> {n}],
    busy <- phase # "idle", arg <- transfer, executed <- performed, returned <- done

ImplementsCalls == Bus!Spec

\* Every transfer the manager begins is completed.
TransferCompletes == phase # "idle" ~> phase = "access" /\ MReady
=============================================================================
