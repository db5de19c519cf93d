-------------------------- MODULE ApbBridge_proofs --------------------------
(***************************************************************************)
(* Proofs about ApbBridge for any number of transfers and any buffers.     *)
(***************************************************************************)
EXTENDS ApbBridge, SequenceTheorems, TLAPS

-----------------------------------------------------------------------------
(* The inductive invariant *)

Type ==
    /\ phase \in {"idle", "setup", "access"}
    /\ transfer \in Nat
    /\ mPrev \in States /\ sPrev \in States
    /\ startedQ \in BOOLEAN /\ rdyQ \in BOOLEAN /\ vldQ \in BOOLEAN
    /\ startedP \in BOOLEAN /\ rdyP \in BOOLEAN /\ vldP \in BOOLEAN
    /\ mReadyD1 \in BOOLEAN /\ sReadyD1 \in BOOLEAN

\* A channel is empty: a push module that has started is ready.
NoRequest == ~vldQ /\ chanQ = <<>> /\ (startedQ => rdyQ)
NoResponse == ~vldP /\ chanP = <<>> /\ (startedP => rdyP)

\* A channel has item n and nothing else: at the pull module, on the connection, or
\* to be sent again.
HasRequest(n) ==
    \/ vldQ /\ pulledQ = n /\ chanQ = <<>> /\ rdyQ
    \/ ~vldQ /\ chanQ = <<n>> /\ rdyQ
    \/ ~vldQ /\ chanQ = <<>> /\ ~rdyQ /\ dataQ = n

HasResponse(n) ==
    \/ vldP /\ pulledP = n /\ chanP = <<>> /\ rdyP
    \/ ~vldP /\ chanP = <<n>> /\ rdyP
    \/ ~vldP /\ chanP = <<>> /\ ~rdyP /\ dataP = n

\* The FSM of the subordinate's side is not in ACCESS.
AtRest == SState # "ACCESS"

\* One transfer is at one place: nowhere yet or no more, a request, at the
\* subordinate, a response.
Idle ==
    /\ phase = "idle" /\ NoRequest /\ NoResponse /\ AtRest
    /\ done = Up(transfer) /\ performed = Up(transfer)

Pending == transfer # 0 /\ startedQ /\ done = Up(transfer - 1)

Setup ==
    /\ Pending /\ phase = "setup" /\ NoRequest /\ NoResponse /\ AtRest
    /\ performed = Up(transfer - 1)

Requested ==
    /\ Pending /\ phase = "access" /\ HasRequest(transfer) /\ NoResponse /\ AtRest
    /\ performed = Up(transfer - 1)

Performing ==
    /\ Pending /\ phase = "access" /\ NoRequest /\ NoResponse /\ ~AtRest
    /\ startedP /\ sReq = transfer
    /\ performed = Up(transfer - 1)

Answered ==
    /\ Pending /\ phase = "access" /\ NoRequest /\ HasResponse(transfer) /\ AtRest
    /\ startedP
    /\ performed = Up(transfer)

OnePlace == Idle \/ Setup \/ Requested \/ Performing \/ Answered

IInv == Type /\ FollowsBus /\ OnePlace

-----------------------------------------------------------------------------
(* Operators *)

\* The numbers up to n, and one more.
LEMMA UpIs ==
    ASSUME NEW n \in Nat
    PROVE  Up(n) \in Seq(Nat) /\ Len(Up(n)) = n /\ Append(Up(n), n + 1) = Up(n + 1)
<1>1. Up(n) \in [1..n -> Nat] /\ Up(n + 1) \in [1..(n + 1) -> Nat]
    BY DEF Up
<1>2. Up(n) \in Seq(Nat) /\ Len(Up(n)) = n
    BY <1>1, LenProperties
<1>3. Append(Up(n), n + 1) = Up(n + 1)
    BY <1>2 DEF Up
<1>4. QED BY <1>2, <1>3

\* A posedge of the push module of the requests.
LEMMA RequestPushed ==
    ASSUME Type, NEW v \in BOOLEAN, NEW d, NEW n, Request!PushPosedge(v, d)
    PROVE  /\ NoRequest /\ ~v => NoRequest'
           /\ NoRequest /\ startedQ /\ v => HasRequest(d)'
           /\ HasRequest(n) /\ startedQ /\ ~(v /\ rdyQ) => HasRequest(n)'
           /\ rdyQ' \in BOOLEAN /\ UNCHANGED <<startedQ, linkedQ, vldQ, pulledQ>>
<1>1. UNCHANGED <<startedQ, linkedQ, vldQ, pulledQ>> /\ rdyQ \in BOOLEAN
    BY DEF Type, Request!PushPosedge, Request!pullVars
<1>2. Append(<<>>, d) = <<d>> /\ Append(<<>>, dataQ) = <<dataQ>>
    OBVIOUS
<1>3. CASE Request!PushTake(v, d)
    <2>1. /\ v /\ rdyQ /\ dataQ' = d
          /\ \/ chanQ' = Append(chanQ, d) /\ rdyQ' = TRUE
             \/ chanQ' = chanQ /\ rdyQ' = FALSE
        BY <1>3 DEF Request!PushTake, Request!Push
    <2>2. QED BY <1>1, <1>2, <2>1 DEF NoRequest, HasRequest
<1>4. CASE Request!PushRetry
    <2>1. /\ startedQ /\ ~rdyQ /\ dataQ' = dataQ
          /\ \/ chanQ' = Append(chanQ, dataQ) /\ rdyQ' = TRUE
             \/ chanQ' = chanQ /\ rdyQ' = FALSE
        BY <1>4 DEF Request!PushRetry, Request!Push
    <2>2. QED BY <1>1, <1>2, <2>1 DEF NoRequest, HasRequest
<1>5. CASE Request!PushIdle(v)
    BY <1>1, <1>5 DEF Request!PushIdle, NoRequest, HasRequest
<1>6. QED BY <1>3, <1>4, <1>5 DEF Request!PushPosedge

\* A posedge of the pull module of the requests.
LEMMA RequestPulled ==
    ASSUME Type, NEW r \in BOOLEAN, NEW n, Request!PullPosedge(r)
    PROVE  /\ NoRequest => NoRequest'
           /\ HasRequest(n) /\ ~vldQ => HasRequest(n)'
           /\ HasRequest(n) /\ vldQ /\ r => NoRequest'
           /\ vldQ' \in BOOLEAN /\ UNCHANGED <<startedQ, linkedQ, rdyQ, dataQ>>
<1>1. UNCHANGED <<startedQ, linkedQ, rdyQ, dataQ>> /\ vldQ \in BOOLEAN
    BY DEF Type, Request!PullPosedge, Request!pushVars
<1>2. Head(<<n>>) = n /\ Tail(<<n>>) = <<>> /\ <<n>> # <<>>
    OBVIOUS
<1>3. CASE Request!PullOk(r)
    <2>1. /\ ~vldQ \/ r
          /\ chanQ # <<>> /\ pulledQ' = Head(chanQ) /\ chanQ' = Tail(chanQ) /\ vldQ' = TRUE
        BY <1>3 DEF Request!PullOk
    <2>2. QED BY <1>1, <1>2, <2>1 DEF NoRequest, HasRequest
<1>4. CASE Request!PullNothing(r)
    BY <1>1, <1>4 DEF Request!PullNothing, NoRequest, HasRequest
<1>5. CASE Request!PullHold(r)
    BY <1>1, <1>5 DEF Request!PullHold, NoRequest, HasRequest
<1>6. QED BY <1>3, <1>4, <1>5 DEF Request!PullPosedge

\* The same of the responses.
LEMMA ResponsePushed ==
    ASSUME Type, NEW v \in BOOLEAN, NEW d, NEW n, Response!PushPosedge(v, d)
    PROVE  /\ NoResponse /\ ~v => NoResponse'
           /\ NoResponse /\ startedP /\ v => HasResponse(d)'
           /\ HasResponse(n) /\ startedP /\ ~(v /\ rdyP) => HasResponse(n)'
           /\ rdyP' \in BOOLEAN /\ UNCHANGED <<startedP, linkedP, vldP, pulledP>>
<1>1. UNCHANGED <<startedP, linkedP, vldP, pulledP>> /\ rdyP \in BOOLEAN
    BY DEF Type, Response!PushPosedge, Response!pullVars
<1>2. Append(<<>>, d) = <<d>> /\ Append(<<>>, dataP) = <<dataP>>
    OBVIOUS
<1>3. CASE Response!PushTake(v, d)
    <2>1. /\ v /\ rdyP /\ dataP' = d
          /\ \/ chanP' = Append(chanP, d) /\ rdyP' = TRUE
             \/ chanP' = chanP /\ rdyP' = FALSE
        BY <1>3 DEF Response!PushTake, Response!Push
    <2>2. QED BY <1>1, <1>2, <2>1 DEF NoResponse, HasResponse
<1>4. CASE Response!PushRetry
    <2>1. /\ startedP /\ ~rdyP /\ dataP' = dataP
          /\ \/ chanP' = Append(chanP, dataP) /\ rdyP' = TRUE
             \/ chanP' = chanP /\ rdyP' = FALSE
        BY <1>4 DEF Response!PushRetry, Response!Push
    <2>2. QED BY <1>1, <1>2, <2>1 DEF NoResponse, HasResponse
<1>5. CASE Response!PushIdle(v)
    BY <1>1, <1>5 DEF Response!PushIdle, NoResponse, HasResponse
<1>6. QED BY <1>3, <1>4, <1>5 DEF Response!PushPosedge

LEMMA ResponsePulled ==
    ASSUME Type, NEW r \in BOOLEAN, NEW n, Response!PullPosedge(r)
    PROVE  /\ NoResponse => NoResponse'
           /\ HasResponse(n) /\ ~vldP => HasResponse(n)'
           /\ HasResponse(n) /\ vldP /\ r => NoResponse'
           /\ vldP' \in BOOLEAN /\ UNCHANGED <<startedP, linkedP, rdyP, dataP>>
<1>1. UNCHANGED <<startedP, linkedP, rdyP, dataP>> /\ vldP \in BOOLEAN
    BY DEF Type, Response!PullPosedge, Response!pushVars
<1>2. Head(<<n>>) = n /\ Tail(<<n>>) = <<>> /\ <<n>> # <<>>
    OBVIOUS
<1>3. CASE Response!PullOk(r)
    <2>1. /\ ~vldP \/ r
          /\ chanP # <<>> /\ pulledP' = Head(chanP) /\ chanP' = Tail(chanP) /\ vldP' = TRUE
        BY <1>3 DEF Response!PullOk
    <2>2. QED BY <1>1, <1>2, <2>1 DEF NoResponse, HasResponse
<1>4. CASE Response!PullNothing(r)
    BY <1>1, <1>4 DEF Response!PullNothing, NoResponse, HasResponse
<1>5. CASE Response!PullHold(r)
    BY <1>1, <1>5 DEF Response!PullHold, NoResponse, HasResponse
<1>6. QED BY <1>3, <1>4, <1>5 DEF Response!PullPosedge

-----------------------------------------------------------------------------
(* Every step preserves the invariant *)

\* The FSM of the subordinate's side, out of ACCESS: a request begins SETUP.
LEMMA SStateIs ==
    ASSUME Type
    PROVE  SState \in States /\ (AtRest => SState = IF vldQ THEN "SETUP" ELSE "IDLE")
BY DEF Type, AtRest, SState, State, States

\* The FSM of the manager's side, from the phase of the bus.
LEMMA MStateIs ==
    ASSUME Type, FollowsBus
    PROVE  /\ MState \in States
           /\ MState = "IDLE" <=> phase = "idle"
           /\ MState = "SETUP" <=> phase = "setup"
           /\ MState = "ACCESS" <=> phase = "access"
<1>1. CASE phase = "idle"
    BY <1>1 DEF FollowsBus, States
<1>2. CASE phase = "setup"
    BY <1>2 DEF FollowsBus, States
<1>3. CASE phase = "access"
    BY <1>3 DEF FollowsBus, States
<1>4. QED BY <1>1, <1>2, <1>3 DEF Type

\* The FSM is in the phase of the bus, whatever the manager does.
LEMMA ManagerFollows ==
    ASSUME Type, FollowsBus, ManagerStep, mPrev' = MState, mReadyD1' = MReady
    PROVE  FollowsBus' /\ phase' \in {"idle", "setup", "access"} /\ mPrev' \in States
<1>1. /\ mPrev' \in States
      /\ mPrev' = "IDLE" <=> phase = "idle"
      /\ mPrev' = "SETUP" <=> phase = "setup"
      /\ mPrev' = "ACCESS" <=> phase = "access"
    BY MStateIs
<1>2. CASE phase = "setup"
    <2>1. phase' = "access" /\ mPrev' = "SETUP"
        BY <1>1, <1>2 DEF ManagerStep
    <2>2. QED BY <1>1, <2>1 DEF FollowsBus, MState, State
<1>3. CASE phase = "access" /\ ~MReady
    <2>1. phase' = "access" /\ mPrev' = "ACCESS" /\ ~mReadyD1'
        BY <1>1, <1>3 DEF ManagerStep
    <2>2. QED BY <1>1, <2>1 DEF FollowsBus, MState, State
<1>4. CASE phase = "idle" \/ (phase = "access" /\ MReady)
    <2>1. /\ phase' \in {"idle", "setup"} /\ mPrev' # "SETUP"
          /\ mPrev' = "ACCESS" => mReadyD1'
        <3>1. phase' = phase => phase # "access"
            BY <1>4 DEF ManagerStep
        <3>2. QED BY <1>1, <1>4, <3>1 DEF ManagerStep, Type
    <2>2. CASE phase' = "idle"
        BY <1>1, <2>1, <2>2 DEF FollowsBus, MState, State
    <2>3. CASE phase' = "setup"
        BY <1>1, <2>1, <2>3 DEF FollowsBus, MState, State
    <2>4. QED BY <1>1, <2>1, <2>2, <2>3
<1>5. QED BY <1>2, <1>3, <1>4 DEF Type

LEMMA ManagerInv ==
    ASSUME IInv, startedQ, ManagerPosedge
    PROVE  IInv'
<1>1. /\ Type /\ FollowsBus /\ OnePlace /\ ManagerStep
      /\ mPrev' = MState /\ mReadyD1' = MReady
      /\ Request!PushPosedge(RequestVld, transfer) /\ Response!PullPosedge(TRUE)
      /\ UNCHANGED <<sPrev, sReadyD1, sReq, performed>>
    BY DEF IInv, ManagerPosedge, subordinateVars
<1>2. RequestVld \in BOOLEAN
    BY Zenon DEF RequestVld
<1> PICK n : n = transfer
    OBVIOUS
<1>3. /\ NoRequest /\ ~RequestVld => NoRequest'
      /\ NoRequest /\ RequestVld => HasRequest(n)'
      /\ HasRequest(n) /\ ~(RequestVld /\ rdyQ) => HasRequest(n)'
      /\ rdyQ' \in BOOLEAN /\ UNCHANGED <<startedQ, vldQ>>
    BY <1>1, <1>2, RequestPushed
<1>4. /\ NoResponse => NoResponse'
      /\ HasResponse(n) /\ ~vldP => HasResponse(n)'
      /\ HasResponse(n) /\ vldP => NoResponse'
      /\ vldP' \in BOOLEAN /\ UNCHANGED <<startedP, rdyP>>
    BY <1>1, ResponsePulled
<1>5. FollowsBus' /\ phase' \in {"idle", "setup", "access"} /\ mPrev' \in States
    BY <1>1, ManagerFollows
<1>6. Type'
    <2>1. transfer' \in Nat /\ mReadyD1' \in BOOLEAN
        BY <1>1 DEF Type, ManagerStep, MReady
    <2>2. QED BY <1>1, <1>3, <1>4, <1>5, <2>1 DEF Type
<1>7. AtRest' <=> AtRest
    BY <1>1, <1>3 DEF AtRest, SState, State
<1>8. transfer \in Nat /\ transfer + 1 # 0 /\ (transfer + 1) - 1 = transfer
    BY <1>1 DEF Type
<1>9. RequestVld => phase = "setup" \/ ~rdyQ
    BY <1>1, MStateIs DEF RequestVld
<1>10. CASE Idle
    <2>1. /\ done' = done /\ \/ phase' = "idle" /\ transfer' = transfer
                             \/ phase' = "setup" /\ transfer' = transfer + 1
        BY <1>1, <1>10 DEF Idle, ManagerStep
    <2>2. NoRequest' /\ NoResponse'
        BY <1>3, <1>4, <1>9, <1>10 DEF Idle, NoRequest
    <2>3. Idle' \/ Setup'
        BY <1>1, <1>3, <1>7, <1>8, <1>10, <2>1, <2>2 DEF Idle, Setup, Pending, Up
    <2>4. QED BY <1>5, <1>6, <2>3 DEF IInv, OnePlace
<1>11. CASE Setup
    <2>1. RequestVld
        BY <1>1, <1>11, MStateIs DEF Setup, RequestVld
    <2>2. phase' = "access" /\ UNCHANGED <<transfer, done>>
        BY <1>1, <1>11 DEF Setup, ManagerStep
    <2>3. HasRequest(n)' /\ NoResponse'
        BY <1>3, <1>4, <1>11, <2>1 DEF Setup
    <2>4. Requested'
        BY <1>1, <1>3, <1>7, <1>11, <2>2, <2>3 DEF Setup, Requested, Pending, Up, HasRequest
    <2>5. QED BY <1>5, <1>6, <2>4 DEF IInv, OnePlace
<1>12. ASSUME phase = "access", ~vldP PROVE phase' = "access" /\ UNCHANGED <<transfer, done>>
    BY <1>1, <1>12 DEF ManagerStep, MReady
<1>13. CASE Requested
    <2>1. ~vldP /\ phase = "access"
        BY <1>13 DEF Requested, NoResponse
    <2>2. phase' = "access" /\ UNCHANGED <<transfer, done>>
        BY <1>12, <2>1
    <2>3. HasRequest(n)' /\ NoResponse'
        BY <1>3, <1>4, <1>9, <1>13, <2>1 DEF Requested
    <2>4. Requested'
        BY <1>1, <1>3, <1>7, <1>13, <2>2, <2>3 DEF Requested, Pending, Up, HasRequest
    <2>5. QED BY <1>5, <1>6, <2>4 DEF IInv, OnePlace
<1>14. CASE Performing
    <2>1. ~vldP /\ phase = "access" /\ rdyQ
        BY <1>14 DEF Performing, Pending, NoRequest, NoResponse
    <2>2. phase' = "access" /\ UNCHANGED <<transfer, done>>
        BY <1>12, <2>1
    <2>3. NoRequest' /\ NoResponse'
        BY <1>3, <1>4, <1>9, <1>14, <2>1 DEF Performing
    <2>4. Performing'
        BY <1>1, <1>3, <1>4, <1>7, <1>14, <2>2, <2>3 DEF Performing, Pending, Up
    <2>5. QED BY <1>5, <1>6, <2>4 DEF IInv, OnePlace
<1>15. CASE Answered
    <2>1. phase = "access" /\ rdyQ /\ NoRequest'
        BY <1>3, <1>9, <1>15 DEF Answered, Pending, NoRequest
    <2>2. CASE ~vldP
        <3>1. phase' = "access" /\ UNCHANGED <<transfer, done>>
            BY <1>12, <2>1, <2>2
        <3>2. HasResponse(n)'
            BY <1>4, <1>15, <2>2 DEF Answered
        <3>3. Answered'
            BY <1>1, <1>3, <1>4, <1>7, <1>15, <2>1, <3>1, <3>2
               DEF Answered, Pending, Up, HasResponse
        <3>4. QED BY <1>5, <1>6, <3>3 DEF IInv, OnePlace
    <2>3. CASE vldP
        <3>1. NoResponse' /\ pulledP = transfer
            BY <1>4, <1>15, <2>3 DEF Answered, HasResponse
        <3>2. /\ done' = Append(done, transfer)
              /\ \/ phase' = "idle" /\ transfer' = transfer
                 \/ phase' = "setup" /\ transfer' = transfer + 1
            BY <1>1, <2>1, <2>3, <3>1 DEF ManagerStep, MReady
        <3>3. done' = Up(transfer)
            <4>1. transfer - 1 \in Nat /\ (transfer - 1) + 1 = transfer
                BY <1>8, <1>15 DEF Answered, Pending
            <4>2. QED BY <1>15, <3>2, <4>1, UpIs DEF Answered, Pending
        <3>4. Idle' \/ Setup'
            BY <1>1, <1>3, <1>7, <1>8, <1>15, <2>1, <3>1, <3>2, <3>3
               DEF Answered, Idle, Setup, Pending, Up
        <3>5. QED BY <1>5, <1>6, <3>4 DEF IInv, OnePlace
    <2>4. QED BY <2>2, <2>3
<1>16. QED BY <1>1, <1>10, <1>11, <1>13, <1>14, <1>15 DEF OnePlace

LEMMA SubordinateInv ==
    ASSUME IInv, startedP, NEW pready \in BOOLEAN, SubordinatePosedge(pready)
    PROVE  IInv'
<1>1. /\ Type /\ FollowsBus /\ OnePlace
      /\ sPrev' = SState /\ sReadyD1' = pready /\ sReq' = SReq
      /\ performed' = IF SState = "ACCESS" /\ pready THEN Append(performed, SReq) ELSE performed
      /\ Request!PullPosedge(RequestRdy) /\ Response!PushPosedge(ResponseVld(pready), SReq)
      /\ UNCHANGED <<phase, transfer, done, mPrev, mReadyD1>>
    BY DEF IInv, SubordinatePosedge, managerVars
<1>2. RequestRdy \in BOOLEAN /\ ResponseVld(pready) \in BOOLEAN
    BY Zenon DEF RequestRdy, ResponseVld
<1>3. SState \in States /\ (AtRest => SState = IF vldQ THEN "SETUP" ELSE "IDLE")
    BY <1>1, SStateIs
<1> PICK n : n = transfer
    OBVIOUS
<1>4. /\ NoRequest => NoRequest'
      /\ HasRequest(n) /\ ~vldQ => HasRequest(n)'
      /\ HasRequest(n) /\ vldQ /\ RequestRdy => NoRequest'
      /\ vldQ' \in BOOLEAN /\ UNCHANGED <<startedQ, rdyQ>>
    BY <1>1, <1>2, RequestPulled
<1>5. /\ NoResponse /\ ~ResponseVld(pready) => NoResponse'
      /\ NoResponse /\ ResponseVld(pready) /\ SReq = n => HasResponse(n)'
      /\ HasResponse(n) /\ ~(ResponseVld(pready) /\ rdyP) => HasResponse(n)'
      /\ rdyP' \in BOOLEAN /\ UNCHANGED <<startedP, vldP>>
    <2> PICK d : d = SReq
        OBVIOUS
    <2>1. Response!PushPosedge(ResponseVld(pready), d)
        BY <1>1
    <2>2. QED BY <1>1, <1>2, <2>1, ResponsePushed
<1>6. FollowsBus'
    BY <1>1 DEF FollowsBus, MState, State
<1>7. Type'
    BY <1>1, <1>3, <1>4, <1>5 DEF Type
<1>8. ResponseVld(pready) <=> ~AtRest /\ pready
    BY DEF ResponseVld, AtRest
<1>9. ASSUME AtRest, ~vldQ PROVE AtRest'
    <2>1. sPrev' = "IDLE"
        BY <1>1, <1>3, <1>9
    <2>2. QED BY <2>1 DEF AtRest, SState, State
<1>10. AtRest => performed' = performed
    BY <1>1 DEF AtRest
<1>11. CASE Idle
    <2>1. AtRest' /\ NoRequest' /\ NoResponse' /\ performed' = performed
        BY <1>4, <1>5, <1>8, <1>9, <1>10, <1>11 DEF Idle, NoRequest
    <2>2. Idle'
        BY <1>1, <1>11, <2>1 DEF Idle, Up
    <2>3. QED BY <1>6, <1>7, <2>2 DEF IInv, OnePlace
<1>12. CASE Setup
    <2>1. AtRest' /\ NoRequest' /\ NoResponse' /\ performed' = performed
        BY <1>4, <1>5, <1>8, <1>9, <1>10, <1>12 DEF Setup, NoRequest
    <2>2. Setup'
        BY <1>1, <1>4, <1>12, <2>1 DEF Setup, Pending, Up
    <2>3. QED BY <1>6, <1>7, <2>2 DEF IInv, OnePlace
<1>13. CASE Requested
    <2>1. NoResponse' /\ performed' = performed
        BY <1>5, <1>8, <1>10, <1>13 DEF Requested
    <2>2. CASE ~vldQ
        <3>1. AtRest' /\ HasRequest(n)'
            BY <1>4, <1>9, <1>13, <2>2 DEF Requested
        <3>2. Requested'
            BY <1>1, <1>4, <1>13, <2>1, <3>1 DEF Requested, Pending, Up, HasRequest
        <3>3. QED BY <1>6, <1>7, <3>2 DEF IInv, OnePlace
    <2>3. CASE vldQ
        <3>1. SState = "SETUP" /\ pulledQ = n
            BY <1>3, <1>13, <2>3 DEF Requested, HasRequest
        <3>2. NoRequest'
            BY <1>4, <1>13, <2>3, <3>1 DEF Requested, RequestRdy
        <3>3. ~AtRest' /\ sReq' = transfer
            BY <1>1, <3>1 DEF AtRest, SState, State, SReq
        <3>4. Performing'
            BY <1>1, <1>4, <1>5, <1>13, <2>1, <3>2, <3>3 DEF Requested, Performing, Pending, Up
        <3>5. QED BY <1>6, <1>7, <3>4 DEF IInv, OnePlace
    <2>4. QED BY <2>2, <2>3
<1>14. CASE Performing
    <2>1. SState = "ACCESS" /\ SReq = n /\ sReq' = n /\ NoRequest'
        BY <1>1, <1>4, <1>14 DEF Performing, AtRest, SReq
    <2>2. CASE ~pready
        <3>1. ~AtRest' /\ NoResponse' /\ performed' = performed
            <4>1. sPrev' = "ACCESS" /\ ~sReadyD1'
                BY <1>1, <2>1, <2>2
            <4>2. QED BY <1>1, <1>5, <1>8, <1>14, <2>1, <2>2, <4>1
                      DEF Performing, AtRest, SState, State
        <3>2. Performing'
            BY <1>1, <1>4, <1>5, <1>14, <2>1, <3>1 DEF Performing, Pending, Up
        <3>3. QED BY <1>6, <1>7, <3>2 DEF IInv, OnePlace
    <2>3. CASE pready
        <3>1. AtRest'
            <4>1. sPrev' = "ACCESS" /\ sReadyD1'
                BY <1>1, <2>1, <2>3
            <4>2. QED BY <4>1 DEF AtRest, SState, State
        <3>2. HasResponse(n)'
            BY <1>5, <1>8, <1>14, <2>1, <2>3 DEF Performing
        <3>3. performed' = Up(transfer)
            <4>1. transfer - 1 \in Nat /\ (transfer - 1) + 1 = transfer
                BY <1>1, <1>14 DEF Performing, Pending, Type
            <4>2. QED BY <1>1, <1>14, <2>1, <2>3, <4>1, UpIs DEF Performing
        <3>4. Answered'
            BY <1>1, <1>4, <1>5, <1>14, <2>1, <3>1, <3>2, <3>3
               DEF Performing, Answered, Pending, Up, HasResponse
        <3>5. QED BY <1>6, <1>7, <3>4 DEF IInv, OnePlace
    <2>4. QED BY <2>2, <2>3
<1>15. CASE Answered
    <2>1. AtRest' /\ NoRequest' /\ HasResponse(n)' /\ performed' = performed
        BY <1>4, <1>5, <1>8, <1>9, <1>10, <1>15 DEF Answered, NoRequest
    <2>2. Answered'
        BY <1>1, <1>4, <1>5, <1>15, <2>1 DEF Answered, Pending, Up, HasResponse
    <2>3. QED BY <1>6, <1>7, <2>2 DEF IInv, OnePlace
<1>16. QED BY <1>1, <1>11, <1>12, <1>13, <1>14, <1>15 DEF OnePlace

\* A channel that comes up is empty.
LEMMA RequestUpInv ==
    ASSUME IInv, RequestUp
    PROVE  IInv'
<1>1. Type /\ FollowsBus /\ OnePlace
    BY DEF IInv
<1>2. /\ UNCHANGED <<phase, transfer, done, mPrev, mReadyD1, sPrev, sReadyD1, sReq, performed>>
      /\ UNCHANGED <<startedP, rdyP, dataP, chanP, vldP, pulledP>>
      /\ UNCHANGED <<dataQ, chanQ, vldQ, pulledQ>>
      /\ \/ UNCHANGED <<startedQ, rdyQ>>
         \/ phase = "idle" /\ ~startedQ /\ startedQ' = TRUE /\ rdyQ' = TRUE
    BY DEF RequestUp, managerVars, subordinateVars, responseVars, Request!Link, Request!Start,
           Request!pushVars, Request!pullVars, Request!wireVars
<1>3. Type'
    BY <1>1, <1>2 DEF Type
<1>4. /\ FollowsBus' /\ (AtRest' <=> AtRest) /\ (NoResponse' <=> NoResponse)
      /\ NoRequest => NoRequest'
    <2>1. FollowsBus'
        BY <1>1, <1>2 DEF FollowsBus, MState, State
    <2>2. AtRest' <=> AtRest
        BY <1>2 DEF AtRest, SState, State
    <2>3. (NoResponse' <=> NoResponse) /\ (NoRequest => NoRequest')
        BY <1>2 DEF NoResponse, NoRequest
    <2>4. QED BY <2>1, <2>2, <2>3
<1>5. CASE phase = "idle"
    <2>1. Idle
        BY <1>1, <1>5 DEF OnePlace, Setup, Requested, Performing, Answered
    <2>2. Idle'
        BY <1>2, <1>4, <2>1 DEF Idle, Up
    <2>3. QED BY <1>3, <1>4, <2>2 DEF IInv, OnePlace
<1>6. CASE phase # "idle"
    <2>1. UNCHANGED <<startedQ, rdyQ>>
        BY <1>2, <1>6
    <2>2. OnePlace'
        BY <1>1, <1>2, <1>4, <2>1 DEF OnePlace, Idle, Setup, Requested, Performing, Answered,
                                      Pending, HasRequest, HasResponse, Up
    <2>3. QED BY <1>3, <1>4, <2>2 DEF IInv
<1>7. QED BY <1>5, <1>6

LEMMA ResponseUpInv ==
    ASSUME IInv, ResponseUp
    PROVE  IInv'
<1>1. Type /\ FollowsBus /\ OnePlace
    BY DEF IInv
<1>2. /\ UNCHANGED <<phase, transfer, done, mPrev, mReadyD1, sPrev, sReadyD1, sReq, performed>>
      /\ UNCHANGED <<startedQ, rdyQ, dataQ, chanQ, vldQ, pulledQ>>
      /\ UNCHANGED <<dataP, chanP, vldP, pulledP>>
      /\ \/ UNCHANGED <<startedP, rdyP>>
         \/ ~startedP /\ startedP' = TRUE /\ rdyP' = TRUE
    BY DEF ResponseUp, managerVars, subordinateVars, requestVars, Response!Link, Response!Start,
           Response!pushVars, Response!pullVars, Response!wireVars
<1>3. Type'
    BY <1>1, <1>2 DEF Type
<1>4. /\ FollowsBus' /\ (AtRest' <=> AtRest) /\ (NoRequest' <=> NoRequest)
      /\ NoResponse => NoResponse'
    <2>1. FollowsBus'
        BY <1>1, <1>2 DEF FollowsBus, MState, State
    <2>2. AtRest' <=> AtRest
        BY <1>2 DEF AtRest, SState, State
    <2>3. (NoRequest' <=> NoRequest) /\ (NoResponse => NoResponse')
        BY <1>2 DEF NoResponse, NoRequest
    <2>4. QED BY <2>1, <2>2, <2>3
<1>5. CASE Idle \/ Setup \/ Requested
    <2>1. OnePlace'
        BY <1>2, <1>4, <1>5 DEF OnePlace, Idle, Setup, Requested, Pending, HasRequest, Up
    <2>2. QED BY <1>3, <1>4, <2>1 DEF IInv
<1>6. CASE Performing \/ Answered
    <2>1. UNCHANGED <<startedP, rdyP>>
        BY <1>2, <1>6 DEF Performing, Answered
    <2>2. OnePlace'
        BY <1>2, <1>4, <1>6, <2>1 DEF OnePlace, Performing, Answered, Pending, HasResponse, Up
    <2>3. QED BY <1>3, <1>4, <2>2 DEF IInv
<1>7. QED BY <1>1, <1>5, <1>6 DEF OnePlace

LEMMA InitInv == Init => IInv
<1> SUFFICES ASSUME Init PROVE IInv
    OBVIOUS
<1> USE DEF Init, Request!ChannelInit, Response!ChannelInit
<1>1. Type
    BY DEF Type, States
<1>2. FollowsBus
    BY DEF FollowsBus, MState, State
<1>3. Idle
    <2>1. Up(0) = <<>>
        <3>1. Up(0) \in Seq(Nat) /\ Len(Up(0)) = 0
            BY UpIs
        <3>2. QED BY <3>1, EmptySeq
    <2>2. AtRest
        BY DEF AtRest, SState, State
    <2>3. QED BY <2>1, <2>2 DEF Idle, NoRequest, NoResponse
<1>4. QED BY <1>1, <1>2, <1>3 DEF IInv, OnePlace

-----------------------------------------------------------------------------
(* The theorems *)

\* The invariant holds of every behaviour.
THEOREM Invariance == Spec => []IInv
<1>1. IInv /\ [Next]_vars => IInv'
    <2> SUFFICES ASSUME IInv, [Next]_vars PROVE IInv'
        OBVIOUS
    <2>1. CASE startedQ /\ ManagerPosedge
        BY <2>1, ManagerInv
    <2>2. CASE startedP /\ (\E pready \in BOOLEAN : SubordinatePosedge(pready))
        BY <2>2, SubordinateInv
    <2>3. CASE RequestUp
        BY <2>3, RequestUpInv
    <2>4. CASE ResponseUp
        BY <2>4, ResponseUpInv
    <2>5. CASE UNCHANGED vars
        BY <2>5 DEF vars, managerVars, subordinateVars, requestVars, responseVars, IInv, Type,
                    FollowsBus, MState, State, OnePlace, Idle, Setup, Requested, Performing,
                    Answered, Pending, AtRest, SState, NoRequest, NoResponse, HasRequest,
                    HasResponse, Up
    <2>6. QED BY <2>1, <2>2, <2>3, <2>4, <2>5 DEF Next
<1>2. QED BY <1>1, InitInv, PTL DEF Spec

\* The FSM of the manager's side follows the phases of the bus.
THEOREM FollowsBusHolds == Spec => []FollowsBus
<1>1. IInv => FollowsBus
    BY DEF IInv
<1>2. QED BY <1>1, Invariance, PTL

\* A request and a response find their channel ready at the one posedge at which
\* they are offered.
THEOREM ReadyIsNotNeededHolds == Spec => []ReadyIsNotNeeded
<1>1. IInv => ReadyIsNotNeeded
    <2> SUFFICES ASSUME IInv PROVE ReadyIsNotNeeded
        OBVIOUS
    <2>1. Type /\ FollowsBus /\ OnePlace
        BY DEF IInv
    <2>2. ASSUME MState = "SETUP" PROVE rdyQ
        <3>1. phase = "setup"
            BY <2>1, <2>2, MStateIs
        <3>2. Setup
            BY <2>1, <3>1 DEF OnePlace, Idle, Requested, Performing, Answered
        <3>3. QED BY <3>2 DEF Setup, Pending, NoRequest
    <2>3. ASSUME SState = "ACCESS" PROVE rdyP
        <3>1. Performing
            BY <2>1, <2>3 DEF OnePlace, Idle, Setup, Requested, Answered, AtRest
        <3>2. QED BY <3>1 DEF Performing, NoResponse
    <2>4. QED BY <2>2, <2>3 DEF ReadyIsNotNeeded
<1>2. QED BY <1>1, Invariance, PTL

\* The subordinate performs the transfers of the manager, once and in order, and
\* the manager gets their responses, for any number of transfers and any buffers.
THEOREM SameTransfersHolds == Spec => []SameTransfers
<1>1. IInv => SameTransfers
    <2> SUFFICES ASSUME IInv PROVE SameTransfers
        OBVIOUS
    <2>1. Type /\ OnePlace
        BY DEF IInv
    <2>2. CASE Idle
        <3>1. Len(done) = transfer
            BY <2>1, <2>2, UpIs DEF Idle, Type
        <3>2. QED BY <2>2, <3>1 DEF Idle, SameTransfers
    <2>3. CASE Setup \/ Requested \/ Performing \/ Answered
        <3>1. /\ Pending /\ phase # "idle"
              /\ performed \in {Up(transfer - 1), Up(transfer)}
            BY <2>3 DEF Setup, Requested, Performing, Answered
        <3>2. Len(done) = transfer - 1
            <4>1. transfer - 1 \in Nat
                BY <2>1, <3>1 DEF Pending, Type
            <4>2. QED BY <3>1, <4>1, UpIs DEF Pending
        <3>3. QED BY <3>1, <3>2 DEF SameTransfers, Pending
    <2>4. QED BY <2>1, <2>2, <2>3 DEF OnePlace
<1>2. QED BY <1>1, Invariance, PTL

\* A posedge of the manager is a call, a return, both, or nothing of either.
LEMMA ManagerCalls ==
    ASSUME IInv, ManagerPosedge
    PROVE  Bus!Next \/ UNCHANGED Bus!callVars
<1>1. Type /\ OnePlace
    BY DEF IInv
<1>2. performed' = performed /\ ManagerStep
    BY DEF ManagerPosedge, subordinateVars
<1>3. CASE phase = "idle"
    <2>1. done' = done /\ ((phase' = "idle" /\ transfer' = transfer) \/ phase' = "setup")
        BY <1>2, <1>3 DEF ManagerStep
    <2>2. CASE phase' = "idle" /\ transfer' = transfer
        BY <1>2, <1>3, <2>1, <2>2 DEF Bus!callVars
    <2>3. CASE phase' = "setup"
        BY <1>2, <1>3, <2>1, <2>3 DEF Bus!Next, Bus!Call
    <2>4. QED BY <2>1, <2>2, <2>3
<1>4. CASE phase = "setup" \/ (phase = "access" /\ ~MReady)
    <2>1. done' = done /\ phase' # "idle" /\ transfer' = transfer
        BY <1>2, <1>4 DEF ManagerStep
    <2>2. QED BY <1>2, <1>4, <2>1 DEF Bus!callVars
<1>5. CASE phase = "access" /\ MReady
    <2>1. Answered
        BY <1>1, <1>5 DEF OnePlace, Idle, Setup, Requested, Performing, NoResponse, MReady
    <2>2. pulledP = transfer /\ performed = Up(transfer) /\ done = Up(transfer - 1)
        BY <1>5, <2>1 DEF Answered, HasResponse, Pending, MReady
    <2>3. transfer - 1 \in Nat /\ (transfer - 1) + 1 = transfer
        BY <1>1, <2>1 DEF Answered, Pending, Type
    <2>4. Append(done, transfer) = performed /\ Len(performed) = Len(done) + 1
        <3>1. /\ Append(Up(transfer - 1), (transfer - 1) + 1) = Up((transfer - 1) + 1)
              /\ Len(Up(transfer - 1)) = transfer - 1
            BY <2>3, UpIs
        <3>2. Len(Up(transfer)) = transfer
            BY <1>1, UpIs DEF Type
        <3>3. QED BY <2>2, <2>3, <3>1, <3>2
    <2>5. done' = performed
        BY <1>2, <1>5, <2>2, <2>4 DEF ManagerStep
    <2>6. (phase' # "idle") \in BOOLEAN /\ phase # "idle"
        BY <1>5
    <2>7. Bus!Return
        BY <1>2, <2>4, <2>5, <2>6 DEF Bus!Return
    <2>8. QED BY <2>7 DEF Bus!Next
<1>6. QED BY <1>1, <1>3, <1>4, <1>5 DEF Type

\* A posedge of the subordinate executes the call of the manager, or nothing.
LEMMA SubordinateExecutes ==
    ASSUME IInv, NEW pready \in BOOLEAN, SubordinatePosedge(pready)
    PROVE  Bus!Next \/ UNCHANGED Bus!callVars
<1>1. Type /\ OnePlace
    BY DEF IInv
<1>2. UNCHANGED <<phase, transfer, done>>
    BY DEF SubordinatePosedge, managerVars
<1>3. CASE SState = "ACCESS" /\ pready
    <2>1. Performing
        BY <1>1, <1>3 DEF OnePlace, Idle, Setup, Requested, Answered, AtRest
    <2>2. SReq = transfer /\ performed = done /\ phase # "idle" /\ transfer \in Nat
        BY <1>1, <1>3, <2>1 DEF Performing, Pending, SReq, Type
    <2>3. performed' = Append(performed, transfer)
        BY <1>3, <2>2 DEF SubordinatePosedge
    <2>4. Bus!Execute
        BY <1>2, <2>2, <2>3 DEF Bus!Execute
    <2>5. QED BY <2>4 DEF Bus!Next
<1>4. CASE ~(SState = "ACCESS" /\ pready)
    BY <1>2, <1>4 DEF SubordinatePosedge, Bus!callVars
<1>5. QED BY <1>3, <1>4

\* A transfer is performed once while the manager holds it on the bus, and returns
\* its own response, whatever the channels do between the two halves.
THEOREM CallRefinement == Spec => ImplementsCalls
<1>1. Init => Bus!Init
    BY DEF Init, Bus!Init
<1>2. IInv /\ [Next]_vars => [Bus!Next]_(Bus!callVars)
    <2> SUFFICES ASSUME IInv, [Next]_vars PROVE Bus!Next \/ UNCHANGED Bus!callVars
        OBVIOUS
    <2>1. CASE startedQ /\ ManagerPosedge
        BY <2>1, ManagerCalls
    <2>2. CASE startedP /\ (\E pready \in BOOLEAN : SubordinatePosedge(pready))
        BY <2>2, SubordinateExecutes
    <2>3. CASE RequestUp \/ ResponseUp \/ UNCHANGED vars
        BY <2>3 DEF RequestUp, ResponseUp, vars, managerVars, subordinateVars, Bus!callVars
    <2>4. QED BY <2>1, <2>2, <2>3 DEF Next
<1>3. QED BY <1>1, <1>2, Invariance, PTL DEF Spec, ImplementsCalls, Bus!Spec
=============================================================================
