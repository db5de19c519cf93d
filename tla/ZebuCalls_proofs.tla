-------------------------- MODULE ZebuCalls_proofs --------------------------
(***************************************************************************)
(* Proofs about ZebuCalls for any modules and names, any width of the call *)
(* count and of the name port, any number of servers and calls.            *)
(***************************************************************************)
EXTENDS ZebuCalls, SequenceTheorems, TLAPS

-----------------------------------------------------------------------------
(* The inductive invariant: the host *)

\* A thread is in the code that zebu_mutex protects.
Inside(j) == job[j] \in {"find", "next", "cache", "core"}

\* One thread at a time is.
Serialized == \A j \in Jobs : Inside(j) => lock = j

\* A started name is no longer than the parameter, and its server has that name.
NamesOfServers ==
    \A n \in DOMAIN nameToIdx : Len(n) <= NameLen /\ server[nameToIdx[n]] = n

\* The next server gets an index no name has: the last one that was given is
\* counted before another thread starts one.
IndexIsNew ==
    /\ \A n \in DOMAIN nameToIdx :
          \/ nameToIdx[n] < serverIdx
          \/ nameToIdx[n] = serverIdx /\ \E j \in Jobs : job[j] = "next"
    /\ \A j \in Jobs : job[j] = "next" => serverIdx < ServerMax

\* The cache has the indices of the servers that were started.
CacheIsRight ==
    \A n \in DOMAIN zebuServers : Known(nameToIdx, n) /\ zebuServers[n] = nameToIdx[n]

\* What a thread uses next, it has put there.
NamesAreKnown ==
    \A j \in Jobs :
        /\ job[j] \in {"next", "cache"} => Known(nameToIdx, Packed(j[1]))
        /\ job[j] = "core" => Known(zebuServers, Packed(j[1]))

HostInv == Serialized /\ NamesOfServers /\ IndexIsNew /\ CacheIsRight /\ NamesAreKnown

-----------------------------------------------------------------------------
(* The inductive invariant: a module and its call *)

\* The host has the call of m, waiting for the mutex or inside.
InHost(m) == job[<<m, "call">>] # "none"

\* Between two calls the counts are equal: the next request makes them differ.
Idle(m) ==
    /\ ~waits[m] /\ ~call[m] /\ ~InHost(m) /\ ~done[m]
    /\ Returned(m) /\ results[m] = got[m]

Requested(m) ==
    /\ waits[m] /\ call[m] /\ ~InHost(m) /\ ~done[m]
    /\ ~Returned(m) /\ results[m] = got[m]

Running(m) ==
    /\ waits[m] /\ ~call[m] /\ InHost(m) /\ ~done[m]
    /\ ~Returned(m) /\ results[m] = got[m]

Ended(m) ==
    /\ waits[m] /\ ~call[m] /\ ~InHost(m) /\ done[m]
    /\ ~Returned(m) /\ results[m] = Append(got[m], out[m][2])

\* The status register has the answer, with the count of this call or not.
Delivered(m) ==
    /\ waits[m] /\ ~call[m] /\ ~InHost(m) /\ ~done[m]
    /\ results[m] = Append(got[m], status[m][2])

InAPhase(m) == Idle(m) \/ Requested(m) \/ Running(m) \/ Ended(m) \/ Delivered(m)

Phases == \A m \in Modules : InAPhase(m)

IInv == naming \in Namings /\ TypeOK /\ HostInv /\ Phases

-----------------------------------------------------------------------------
(* Operators *)

\* A count fits its bits, and the next one is another one.
LEMMA CountType == \A n \in Nat : Count(n) \in Counts
<1>1. \A k \in Nat \ {0}, n \in Nat : n % k \in 0..(k - 1)
    OBVIOUS
<1>2. QED BY <1>1, ZebuCallsAssumption DEF Count, Counts

LEMMA CountChanges == \A n \in Counts : Count(n + 1) # n /\ Count(n + 1) \in Counts
<1>1. \A k \in Nat \ {0, 1} : \A n \in 0..(k - 1) : (n + 1) % k # n
    OBVIOUS
<1>2. \A n \in Counts : n + 1 \in Nat
    BY ZebuCallsAssumption DEF Counts
<1>3. QED BY <1>1, <1>2, CountType, ZebuCallsAssumption DEF Count, Counts

\* A thread is a module with a kind of call.
LEMMA JobParts == \A j \in Jobs : j[1] \in Modules /\ j[2] \in Kinds /\ j = <<j[1], j[2]>>
BY DEF Jobs

\* The port keeps a name that fits: only then are its characters no more than the
\* parameter allows.
LEMMA PackedName ==
    ASSUME naming \in Namings, NEW m \in Modules
    PROVE  /\ Packed(m) \in Seq(STRING)
           /\ Len(Packed(m)) <= NameLen => Packed(m) = naming[m]
<1> DEFINE name == naming[m]
           first == IF Len(name) > NameLen + 1 THEN Len(name) - (NameLen + 1) + 1 ELSE 1
<1>1. name \in Seq(STRING) /\ Len(name) \in Nat /\ NameLen \in Nat \ {0}
    BY ZebuCallsAssumption, LenProperties
<1>2. Packed(m) = SubSeq(name, first, Len(name))
    BY DEF Packed, LastChars
<1>3. first \in 1..(Len(name) + 1) /\ Len(name) \in (first - 1)..Len(name)
    BY <1>1
<1> HIDE DEF name
<1>4. /\ SubSeq(name, first, Len(name)) \in Seq(STRING)
      /\ Len(SubSeq(name, first, Len(name))) = IF first <= Len(name) THEN Len(name) - first + 1 ELSE 0
    BY <1>1, <1>3, SubSeqProperties
<1>5. ASSUME Len(Packed(m)) <= NameLen PROVE Packed(m) = name
    <2>1. ~(Len(name) > NameLen + 1)
        BY <1>1, <1>2, <1>4, <1>5
    <2>2. SubSeq(name, 1, Len(name)) = name
        BY <1>1, SubSeqFull
    <2>3. QED BY <1>2, <2>1, <2>2
<1>6. QED BY <1>2, <1>4, <1>5 DEF name

\* What a sequence was is the start of what it becomes.
LEMMA AppendedTo ==
    ASSUME NEW S, NEW s \in Seq(S), NEW x \in S
    PROVE  IsPrefix(s, Append(s, x)) /\ Len(Append(s, x)) = Len(s) + 1
BY DEF IsPrefix

LEMMA OwnPrefix == ASSUME NEW S, NEW s \in Seq(S) PROVE IsPrefix(s, s) /\ Len(s) \in Nat
BY DEF IsPrefix

\* Nobody else is inside.
LEMMA AloneInside ==
    ASSUME Serialized, NEW j \in Jobs, Inside(j), NEW k \in Jobs, k # j
    PROVE  ~Inside(k)
BY DEF Serialized

-----------------------------------------------------------------------------
(* The module and the process that calls the DPI *)

\* A posedge of a module does not change what the host has.
LEMMA PosedgeInv ==
    ASSUME IInv, NEW m \in Modules, Posedge(m)
    PROVE  IInv'
<1>1. /\ UNCHANGED <<naming, out, lock, server, serverIdx, nameToIdx, zebuServers,
                     zebuCallCnt, results, exited, status>>
      /\ left' = [left EXCEPT ![m] = IF call[m] THEN Latency ELSE IF @ > 0 THEN @ - 1 ELSE 0]
      /\ \/ /\ call[m]
            /\ job' = [job EXCEPT ![<<m, "call">>] = "queued"]
            /\ done' = [done EXCEPT ![m] = FALSE]
         \/ ~call[m] /\ UNCHANGED <<job, done>>
      /\ Request(m) \/ Wait(m) \/ NoCall(m)
    BY DEF Posedge, Request, Wait, NoCall, macroVars
<1>2. TypeOK /\ Phases /\ HostInv /\ naming \in Namings /\ InAPhase(m)
    BY DEF IInv, Phases
<1>3. <<m, "call">> \in Jobs /\ \A d \in Modules : <<d, "call">> \in Jobs
    BY DEF Jobs, Kinds
<1>4. TypeOK'
    <2>1. left' \in [Modules -> 0..Latency]
        <3>1. left[m] \in 0..Latency /\ Latency \in Nat
            BY <1>2, ZebuCallsAssumption DEF TypeOK
        <3>2. QED BY <1>1, <1>2, <3>1 DEF TypeOK
    <2>2. job' \in [Jobs -> {"none", "queued", "find", "next", "cache", "core"}]
        BY <1>1, <1>2 DEF TypeOK
    <2>3. done' \in [Modules -> BOOLEAN]
        BY <1>1, <1>2 DEF TypeOK
    <2>4. /\ waits' \in [Modules -> BOOLEAN] /\ call' \in [Modules -> BOOLEAN]
        BY <1>1, <1>2 DEF TypeOK, Request, Wait, NoCall, macroVars
    <2>5. callCnt' \in [Modules -> Counts]
        <3>1. Count(callCnt[m] + 1) \in Counts
            BY <1>2, CountChanges DEF TypeOK
        <3>2. QED BY <1>1, <1>2, <3>1 DEF TypeOK, Request, Wait, NoCall, macroVars
    <2>6. got' \in [Modules -> Seq({0, 1})]
        <3>1. Append(got[m], status[m][2]) \in Seq({0, 1})
            <4>1. got[m] \in Seq({0, 1}) /\ status[m][2] \in {0, 1}
                BY <1>2 DEF TypeOK
            <4>2. QED BY <4>1, AppendProperties
        <3>2. QED BY <1>1, <1>2, <3>1 DEF TypeOK, Request, Wait, NoCall, macroVars
    <2>7. QED BY <1>1, <1>2, <2>1, <2>2, <2>3, <2>4, <2>5, <2>6 DEF TypeOK
<1>5. HostInv'
    <2>1. \A j \in Jobs : job'[j] = job[j] \/ (job'[j] = "queued" /\ job[j] = "none")
        <3>1. call[m] => job[<<m, "call">>] = "none"
            BY <1>2 DEF InAPhase, Idle, Requested, Running, Ended, Delivered, InHost
        <3>2. QED BY <1>1, <1>2, <3>1 DEF TypeOK
    <2>2. \A n : Packed(n)' = Packed(n)
        BY <1>1 DEF Packed
    <2>3. Serialized'
        BY <1>1, <1>2, <2>1 DEF HostInv, Serialized, Inside
    <2>4. NamesOfServers' /\ CacheIsRight'
        BY <1>1, <1>2 DEF HostInv, NamesOfServers, CacheIsRight, Known
    <2>5. IndexIsNew'
        BY <1>1, <1>2, <2>1 DEF HostInv, IndexIsNew
    <2>6. NamesAreKnown'
        BY <1>1, <1>2, <2>1, <2>2 DEF HostInv, NamesAreKnown, Known
    <2>7. QED BY <2>3, <2>4, <2>5, <2>6 DEF HostInv
<1>6. Phases'
    <2>1. ASSUME NEW d \in Modules, d # m PROVE InAPhase(d)'
        <3>1. /\ waits'[d] = waits[d] /\ call'[d] = call[d] /\ callCnt'[d] = callCnt[d]
              /\ got'[d] = got[d] /\ done'[d] = done[d]
            BY <1>1, <1>2, <2>1 DEF TypeOK, Request, Wait, NoCall, macroVars
        <3>2. job'[<<d, "call">>] = job[<<d, "call">>]
            BY <1>1, <1>2, <1>3, <2>1 DEF TypeOK
        <3>3. QED BY <1>1, <1>2, <3>1, <3>2 DEF Phases, InAPhase, Idle, Requested, Running, Ended,
                        Delivered, InHost, Returned
    <2>2. InAPhase(m)'
        <3>1. CASE Request(m)
            <4>1. Idle(m)
                BY <1>2, <3>1 DEF Request, InAPhase, Idle, Requested, Running, Ended, Delivered
            <4>2. Count(callCnt[m] + 1) # callCnt[m]
                BY <1>2, CountChanges DEF TypeOK
            <4>3. Requested(m)'
                BY <1>1, <1>2, <3>1, <4>1, <4>2 DEF TypeOK, Request, Idle, Requested, InHost, Returned
            <4>4. QED BY <4>3 DEF InAPhase
        <3>2. CASE Wait(m) /\ call[m]
            <4>1. Requested(m)
                BY <1>2, <3>2 DEF InAPhase, Idle, Requested, Running, Ended, Delivered
            <4>2. Running(m)'
                BY <1>1, <1>2, <1>3, <3>2, <4>1 DEF TypeOK, Wait, Requested, Running, InHost, Returned
            <4>3. QED BY <4>2 DEF InAPhase
        <3>3. CASE Wait(m) /\ ~call[m] /\ Returned(m)
            <4>1. Delivered(m)
                BY <1>2, <3>3 DEF Wait, InAPhase, Idle, Requested, Running, Ended, Delivered
            <4>2. Idle(m)'
                BY <1>1, <1>2, <3>3, <4>1 DEF TypeOK, Wait, Idle, Delivered, InHost, Returned
            <4>3. QED BY <4>2 DEF InAPhase
        <3>4. CASE Wait(m) /\ ~call[m] /\ ~Returned(m)
            <4>1. /\ waits'[m] = waits[m] /\ call'[m] = call[m] /\ callCnt'[m] = callCnt[m]
                  /\ got'[m] = got[m] /\ done'[m] = done[m]
                BY <1>1, <1>2, <3>4 DEF TypeOK, Wait
            <4>2. job' = job
                BY <1>1, <3>4
            <4>3. QED BY <1>1, <1>2, <4>1, <4>2 DEF InAPhase, Idle, Requested, Running, Ended,
                            Delivered, InHost, Returned
        <3>5. CASE NoCall(m)
            <4>1. Idle(m)
                BY <1>2, <3>5 DEF NoCall, InAPhase, Idle, Requested, Running, Ended, Delivered
            <4>2. Idle(m)'
                BY <1>1, <3>5, <4>1 DEF NoCall, macroVars, Idle, InHost, Returned
            <4>3. QED BY <4>2 DEF InAPhase
        <3>6. QED BY <1>1, <3>1, <3>2, <3>3, <3>4, <3>5
    <2>3. QED BY <2>1, <2>2 DEF Phases
<1>7. QED BY <1>1, <1>2, <1>4, <1>5, <1>6 DEF IInv

\* The status register takes the output of the call that has ended.
LEMMA DeliverInv ==
    ASSUME IInv, NEW m \in Modules, Deliver(m)
    PROVE  IInv'
<1>1. /\ done[m]
      /\ status' = [status EXCEPT ![m] = out[m]]
      /\ done' = [done EXCEPT ![m] = FALSE]
      /\ UNCHANGED <<naming, waits, callCnt, call, got, left, out, hostVars, exited>>
    BY DEF Deliver
<1>2. TypeOK /\ Phases /\ HostInv /\ naming \in Namings /\ InAPhase(m)
    BY DEF IInv, Phases
<1>3. TypeOK'
    BY <1>1, <1>2 DEF TypeOK, hostVars
<1>4. HostInv'
    <2>1. UNCHANGED <<naming, job, lock, server, serverIdx, nameToIdx, zebuServers>>
        BY <1>1 DEF hostVars
    <2>2. QED BY <1>2, <2>1 DEF HostInv, Serialized, Inside, NamesOfServers, IndexIsNew,
                    CacheIsRight, NamesAreKnown, Known, Packed
<1>5. Phases'
    <2>1. ASSUME NEW d \in Modules, d # m PROVE InAPhase(d)'
        <3>1. status'[d] = status[d] /\ done'[d] = done[d]
            BY <1>1, <1>2, <2>1 DEF TypeOK
        <3>2. QED BY <1>1, <1>2, <3>1 DEF hostVars, Phases, InAPhase, Idle, Requested, Running,
                        Ended, Delivered, InHost, Returned
    <2>2. Ended(m)
        BY <1>1, <1>2 DEF InAPhase, Idle, Requested, Running, Ended, Delivered
    <2>3. Delivered(m)'
        BY <1>1, <1>2, <2>2 DEF TypeOK, hostVars, Ended, Delivered, InHost
    <2>4. QED BY <2>1, <2>3 DEF Phases, InAPhase
<1>6. QED BY <1>1, <1>2, <1>3, <1>4, <1>5 DEF IInv

-----------------------------------------------------------------------------
(* The threads of the host *)

\* A step of a thread that does not end its call changes no module's phase.
LEMMA PhasesKept ==
    ASSUME Phases, UNCHANGED <<macroVars, dpiVars, results>>,
           \A m \in Modules : InHost(m)' <=> InHost(m)
    PROVE  Phases'
<1>1. ASSUME NEW m \in Modules PROVE InAPhase(m)'
    BY DEF macroVars, dpiVars, Phases, InAPhase, Idle, Requested, Running, Ended, Delivered, Returned
<1>2. QED BY <1>1 DEF Phases

\* The phase of a thread after its step.
LEMMA StepIs ==
    ASSUME TypeOK, NEW j \in Jobs, NEW from, NEW to \in {"none", "find", "next", "cache", "core"},
           Step(j, from, to)
    PROVE  /\ job[j] = from /\ job'[j] = to
           /\ \A k \in Jobs : k # j => job'[k] = job[k]
           /\ job' \in [Jobs -> {"none", "queued", "find", "next", "cache", "core"}]
BY DEF TypeOK, Step

\* Names do not change.
LEMMA PackedKept == ASSUME naming' = naming, NEW m PROVE Packed(m)' = Packed(m)
BY DEF Packed

\* A call that gets the mutex goes inside, alone.
LEMMA LockInv ==
    ASSUME IInv, NEW j \in Jobs, Lock(j)
    PROVE  IInv'
<1> DEFINE to == IF Known(zebuServers, Packed(j[1])) THEN "core" ELSE "find"
<1>1. /\ lock = Free /\ lock' = j /\ Step(j, "queued", to)
      /\ UNCHANGED <<naming, macroVars, dpiVars, server, serverIdx, nameToIdx, zebuServers,
                     zebuCallCnt, results, exited>>
    BY DEF Lock, Find
<1>2. TypeOK /\ Phases /\ HostInv /\ naming \in Namings
    BY DEF IInv
<1>3. /\ job[j] = "queued" /\ job'[j] = to
      /\ \A k \in Jobs : k # j => job'[k] = job[k]
      /\ job' \in [Jobs -> {"none", "queued", "find", "next", "cache", "core"}]
    BY <1>1, <1>2, StepIs
<1>4. TypeOK'
    BY <1>1, <1>2, <1>3 DEF TypeOK, macroVars, dpiVars
<1>5. \A k \in Jobs : ~Inside(k)
    <2>1. Free \notin Jobs
        BY DEF Free, Jobs
    <2>2. QED BY <1>1, <1>2, <2>1 DEF HostInv, Serialized
<1>6. HostInv'
    <2>1. Serialized'
        BY <1>1, <1>3, <1>5 DEF Serialized, Inside
    <2>2. NamesOfServers' /\ CacheIsRight'
        BY <1>1, <1>2 DEF HostInv, NamesOfServers, CacheIsRight, Known
    <2>3. IndexIsNew'
        BY <1>1, <1>2, <1>3, <1>5 DEF HostInv, IndexIsNew, Inside
    <2>4. NamesAreKnown'
        <3>1. \A k \in Jobs : k # j => job'[k] \notin {"next", "cache", "core"}
            BY <1>3, <1>5 DEF Inside
        <3>2. job'[j] = "core" => Known(zebuServers, Packed(j[1]))
            BY <1>3
        <3>3. \A m : Packed(m)' = Packed(m)
            BY <1>1, PackedKept
        <3>4. job'[j] \notin {"next", "cache"}
            BY <1>3
        <3>5. QED BY <1>1, <3>1, <3>2, <3>3, <3>4 DEF NamesAreKnown, Known
    <2>5. QED BY <2>1, <2>2, <2>3, <2>4 DEF HostInv
<1>7. Phases'
    <2>1. \A m \in Modules : InHost(m)' <=> InHost(m)
        BY <1>3 DEF InHost, Jobs, Kinds
    <2>2. QED BY <1>1, <1>2, <2>1, PhasesKept
<1>8. QED BY <1>1, <1>2, <1>4, <1>6, <1>7 DEF IInv

\* A process that exits leaves all as it is.
LEMMA ExitHostInv ==
    ASSUME IInv, NEW j \in Jobs, ExitHost(j)
    PROVE  IInv'
<1>1. UNCHANGED <<naming, macroVars, dpiVars, hostVars>>
    BY DEF ExitHost
<1>2. TypeOK' /\ (naming \in Namings)'
    BY <1>1 DEF IInv, TypeOK, macroVars, dpiVars, hostVars
<1>3. HostInv'
    BY <1>1 DEF IInv, HostInv, Serialized, Inside, NamesOfServers, IndexIsNew, CacheIsRight,
                NamesAreKnown, Known, Packed, hostVars
<1>4. Phases'
    BY <1>1, PhasesKept DEF IInv, InHost, hostVars
<1>5. QED BY <1>2, <1>3, <1>4 DEF IInv

\* multisim_server_start: a new name gets an index that no other name has.
LEMMA StartInv ==
    ASSUME IInv, NEW j \in Jobs, Start(j)
    PROVE  IInv'
<1> DEFINE name == Packed(j[1])
           to == IF ~Known(nameToIdx, name) THEN "next" ELSE "cache"
<1>1. /\ Startable(name) /\ Step(j, "find", to)
      /\ server' = IF ~Known(nameToIdx, name) THEN [server EXCEPT ![serverIdx] = name] ELSE server
      /\ nameToIdx' = IF ~Known(nameToIdx, name) THEN With(nameToIdx, name, serverIdx) ELSE nameToIdx
      /\ UNCHANGED <<naming, macroVars, dpiVars, lock, serverIdx, zebuServers,
                     zebuCallCnt, results, exited>>
    BY DEF Start
<1>2. TypeOK /\ Phases /\ HostInv /\ naming \in Namings
    BY DEF IInv
<1>3. /\ job[j] = "find" /\ job'[j] = to
      /\ \A k \in Jobs : k # j => job'[k] = job[k]
      /\ job' \in [Jobs -> {"none", "queued", "find", "next", "cache", "core"}]
    BY <1>1, <1>2, StepIs
<1>4. Inside(j) /\ \A k \in Jobs : k # j => ~Inside(k)
    <2>1. Inside(j)
        BY <1>3 DEF Inside
    <2>2. QED BY <1>2, <2>1, AloneInside DEF HostInv
<1>5. name \in Seq(STRING) /\ j[1] \in Modules
    BY <1>2, JobParts, PackedName
<1>6. \A m : Packed(m)' = Packed(m)
    BY <1>1, PackedKept
<1> HIDE DEF name
<1>7. ASSUME Known(nameToIdx, name) PROVE TypeOK' /\ HostInv'
    <2>1. server' = server /\ nameToIdx' = nameToIdx /\ job'[j] = "cache"
        BY <1>1, <1>3, <1>7
    <2>2. TypeOK'
        BY <1>1, <1>2, <1>3, <2>1 DEF TypeOK, macroVars, dpiVars
    <2>3. Serialized'
        BY <1>1, <1>2, <1>3, <1>4 DEF HostInv, Serialized, Inside
    <2>4. NamesOfServers' /\ CacheIsRight'
        BY <1>1, <1>2, <2>1 DEF HostInv, NamesOfServers, CacheIsRight, Known
    <2>5. IndexIsNew'
        BY <1>1, <1>2, <1>3, <2>1 DEF HostInv, IndexIsNew
    <2>6. NamesAreKnown'
        <3>1. \A k \in Jobs : k # j => job'[k] \notin {"next", "cache", "core"}
            BY <1>3, <1>4 DEF Inside
        <3>2. Known(nameToIdx, Packed(j[1]))'
            BY <1>6, <1>7, <2>1 DEF name, Known
        <3>3. job'[j] # "core"
            BY <2>1
        <3>4. \A k \in Jobs : job'[k] \in {"next", "cache"} => Known(nameToIdx, Packed(k[1]))'
            BY <3>1, <3>2
        <3>5. \A k \in Jobs : job'[k] # "core"
            BY <3>1, <3>3
        <3>6. QED BY <3>4, <3>5 DEF NamesAreKnown
    <2>7. QED BY <2>2, <2>3, <2>4, <2>5, <2>6 DEF HostInv
<1>8. ASSUME ~Known(nameToIdx, name) PROVE TypeOK' /\ HostInv'
    <2>1. /\ server' = [server EXCEPT ![serverIdx] = name]
          /\ nameToIdx' = With(nameToIdx, name, serverIdx) /\ job'[j] = "next"
          /\ Len(name) <= NameLen /\ serverIdx < ServerMax
        BY <1>1, <1>3, <1>8 DEF Startable
    <2>2. serverIdx \in DOMAIN server /\ DOMAIN server' = DOMAIN server
        BY <1>2, <2>1, ZebuCallsAssumption DEF TypeOK
    <2>3. /\ nameToIdx' \in [DOMAIN nameToIdx' -> DOMAIN server]
          /\ DOMAIN nameToIdx' = DOMAIN nameToIdx \cup {name}
          /\ nameToIdx'[name] = serverIdx
          /\ \A n \in DOMAIN nameToIdx : n # name /\ nameToIdx'[n] = nameToIdx[n]
        <3>1. nameToIdx \in [DOMAIN nameToIdx -> DOMAIN server]
            BY <1>2 DEF TypeOK
        <3>2. name \notin DOMAIN nameToIdx
            BY <1>8 DEF Known
        <3>3. QED BY <2>1, <2>2, <3>1, <3>2 DEF With
    <2>4. TypeOK'
        BY <1>1, <1>2, <1>3, <1>5, <2>1, <2>2, <2>3 DEF TypeOK, macroVars, dpiVars
    <2>5. Serialized'
        BY <1>1, <1>2, <1>3, <1>4 DEF HostInv, Serialized, Inside
    <2>6. \A n \in DOMAIN nameToIdx : nameToIdx[n] < serverIdx /\ nameToIdx[n] # serverIdx
        <3>1. \A k \in Jobs : job[k] # "next"
            BY <1>3, <1>4 DEF Inside
        <3>2. \A n \in DOMAIN nameToIdx : nameToIdx[n] < serverIdx /\ nameToIdx[n] \in Nat
            BY <1>2, <3>1 DEF HostInv, IndexIsNew, TypeOK
        <3>3. QED BY <1>2, <3>2 DEF TypeOK
    <2>7. NamesOfServers'
        <3>1. ASSUME NEW n \in DOMAIN nameToIdx PROVE server'[nameToIdx'[n]] = n /\ Len(n) <= NameLen
            <4>1. server[nameToIdx[n]] = n /\ Len(n) <= NameLen /\ nameToIdx[n] \in DOMAIN server
                BY <1>2 DEF HostInv, NamesOfServers, TypeOK
            <4>2. QED BY <1>2, <2>1, <2>3, <2>6, <4>1
        <3>2. server'[nameToIdx'[name]] = name
            BY <1>2, <2>1, <2>2, <2>3 DEF TypeOK
        <3>3. QED BY <2>1, <2>3, <3>1, <3>2 DEF NamesOfServers
    <2>8. CacheIsRight'
        BY <1>1, <1>2, <2>3 DEF HostInv, CacheIsRight, Known
    <2>9. IndexIsNew'
        BY <1>1, <1>3, <1>4, <2>1, <2>3, <2>6 DEF IndexIsNew, Inside
    <2>10. NamesAreKnown'
        <3>1. \A k \in Jobs : k # j => job'[k] \notin {"next", "cache", "core"}
            BY <1>3, <1>4 DEF Inside
        <3>2. Known(nameToIdx, Packed(j[1]))'
            BY <1>6, <2>3 DEF name, Known
        <3>3. job'[j] # "core"
            BY <2>1
        <3>4. \A k \in Jobs : job'[k] \in {"next", "cache"} => Known(nameToIdx, Packed(k[1]))'
            BY <3>1, <3>2
        <3>5. \A k \in Jobs : job'[k] # "core"
            BY <3>1, <3>3
        <3>6. QED BY <3>4, <3>5 DEF NamesAreKnown
    <2>11. QED BY <2>4, <2>5, <2>7, <2>8, <2>9, <2>10 DEF HostInv
<1>9. Phases'
    <2>1. \A m \in Modules : InHost(m)' <=> InHost(m)
        BY <1>3 DEF InHost, Jobs, Kinds
    <2>2. QED BY <1>1, <1>2, <2>1, PhasesKept
<1>10. QED BY <1>1, <1>2, <1>7, <1>8, <1>9 DEF IInv

\* The index that was given is counted.
LEMMA CountServerInv ==
    ASSUME IInv, NEW j \in Jobs, CountServer(j)
    PROVE  IInv'
<1>1. /\ Step(j, "next", "cache") /\ serverIdx' = serverIdx + 1
      /\ UNCHANGED <<naming, macroVars, dpiVars, lock, server, nameToIdx, zebuServers,
                     zebuCallCnt, results, exited>>
    BY DEF CountServer
<1>2. TypeOK /\ Phases /\ HostInv /\ naming \in Namings
    BY DEF IInv
<1>3. /\ job[j] = "next" /\ job'[j] = "cache"
      /\ \A k \in Jobs : k # j => job'[k] = job[k]
      /\ job' \in [Jobs -> {"none", "queued", "find", "next", "cache", "core"}]
    BY <1>1, <1>2, StepIs
<1>4. \A k \in Jobs : k # j => ~Inside(k)
    BY <1>2, <1>3, AloneInside DEF HostInv, Inside
<1>5. serverIdx < ServerMax /\ serverIdx \in Nat /\ ServerMax \in Nat
    BY <1>2, <1>3, ZebuCallsAssumption DEF HostInv, IndexIsNew, TypeOK
<1>6. TypeOK'
    <2>1. serverIdx' \in 0..ServerMax
        BY <1>1, <1>5
    <2>2. QED BY <1>1, <1>2, <1>3, <2>1 DEF TypeOK, macroVars, dpiVars
<1>7. HostInv'
    <2>1. Serialized'
        BY <1>1, <1>2, <1>3 DEF HostInv, Serialized, Inside
    <2>2. NamesOfServers' /\ CacheIsRight'
        BY <1>1, <1>2 DEF HostInv, NamesOfServers, CacheIsRight, Known
    <2>3. IndexIsNew'
        <3>1. \A n \in DOMAIN nameToIdx : nameToIdx[n] < serverIdx + 1
            <4>1. \A n \in DOMAIN nameToIdx : nameToIdx[n] < serverIdx \/ nameToIdx[n] = serverIdx
                BY <1>2 DEF HostInv, IndexIsNew
            <4>2. DOMAIN server = 0..(ServerMax - 1) /\ nameToIdx \in [DOMAIN nameToIdx -> DOMAIN server]
                BY <1>2 DEF TypeOK
            <4>3. \A n \in DOMAIN nameToIdx : nameToIdx[n] \in Nat
                BY <1>5, <4>2
            <4>4. QED BY <1>5, <4>1, <4>3
        <3>2. \A k \in Jobs : job'[k] # "next"
            BY <1>3, <1>4 DEF Inside
        <3>3. QED BY <1>1, <3>1, <3>2 DEF IndexIsNew
    <2>4. NamesAreKnown'
        <3>1. \A m : Packed(m)' = Packed(m)
            BY <1>1, PackedKept
        <3>2. QED BY <1>1, <1>2, <1>3, <3>1 DEF HostInv, NamesAreKnown, Known
    <2>5. QED BY <2>1, <2>2, <2>3, <2>4 DEF HostInv
<1>8. Phases'
    <2>1. \A m \in Modules : InHost(m)' <=> InHost(m)
        BY <1>3 DEF InHost, Jobs, Kinds
    <2>2. QED BY <1>1, <1>2, <2>1, PhasesKept
<1>9. QED BY <1>1, <1>2, <1>6, <1>7, <1>8 DEF IInv

\* The name and its index go into the cache.
LEMMA RememberInv ==
    ASSUME IInv, NEW j \in Jobs, Remember(j)
    PROVE  IInv'
<1> DEFINE name == Packed(j[1])
<1>1. /\ Step(j, "cache", "core")
      /\ zebuServers' = With(zebuServers, name, nameToIdx[name])
      /\ UNCHANGED <<naming, macroVars, dpiVars, lock, server, serverIdx, nameToIdx,
                     zebuCallCnt, results, exited>>
    BY DEF Remember
<1>2. TypeOK /\ Phases /\ HostInv /\ naming \in Namings
    BY DEF IInv
<1>3. /\ job[j] = "cache" /\ job'[j] = "core"
      /\ \A k \in Jobs : k # j => job'[k] = job[k]
      /\ job' \in [Jobs -> {"none", "queued", "find", "next", "cache", "core"}]
    BY <1>1, <1>2, StepIs
<1>4. Known(nameToIdx, name) /\ nameToIdx[name] \in DOMAIN server
    BY <1>2, <1>3 DEF HostInv, NamesAreKnown, Known, TypeOK
<1>5. \A m : Packed(m)' = Packed(m)
    BY <1>1, PackedKept
<1> HIDE DEF name
<1>6. /\ zebuServers' \in [DOMAIN zebuServers' -> DOMAIN server]
      /\ DOMAIN zebuServers' = DOMAIN zebuServers \cup {name}
      /\ zebuServers'[name] = nameToIdx[name]
      /\ \A n \in DOMAIN zebuServers : n # name => zebuServers'[n] = zebuServers[n]
    <2>1. zebuServers \in [DOMAIN zebuServers -> DOMAIN server]
        BY <1>2 DEF TypeOK
    <2>2. QED BY <1>1, <1>4, <2>1 DEF With
<1>7. TypeOK'
    BY <1>1, <1>2, <1>3, <1>6 DEF TypeOK, macroVars, dpiVars
<1>8. HostInv'
    <2>1. Serialized'
        BY <1>1, <1>2, <1>3 DEF HostInv, Serialized, Inside
    <2>2. NamesOfServers'
        BY <1>1, <1>2 DEF HostInv, NamesOfServers
    <2>3. CacheIsRight'
        BY <1>1, <1>2, <1>4, <1>6 DEF HostInv, CacheIsRight, Known
    <2>4. IndexIsNew'
        <3>1. \A k \in Jobs : job'[k] = "next" <=> job[k] = "next"
            BY <1>3
        <3>2. QED BY <1>1, <1>2, <3>1 DEF HostInv, IndexIsNew
    <2>5. NamesAreKnown'
        BY <1>1, <1>2, <1>3, <1>5, <1>6 DEF name, HostInv, NamesAreKnown, Known
    <2>6. QED BY <2>1, <2>2, <2>3, <2>4, <2>5 DEF HostInv
<1>9. Phases'
    <2>1. \A m \in Modules : InHost(m)' <=> InHost(m)
        BY <1>3 DEF InHost, Jobs, Kinds
    <2>2. QED BY <1>1, <1>2, <2>1, PhasesKept
<1>10. QED BY <1>1, <1>2, <1>7, <1>8, <1>9 DEF IInv

\* A thread that ends leaves the servers as they are.
LEMMA EndKeepsHost ==
    ASSUME TypeOK, HostInv, NEW j \in Jobs, Step(j, "core", "none"),
           UNCHANGED <<naming, server, serverIdx, nameToIdx, zebuServers>>
    PROVE  /\ job' \in [Jobs -> {"none", "queued", "find", "next", "cache", "core"}]
           /\ HostInv'
<1>1. /\ job[j] = "core" /\ job'[j] = "none"
      /\ \A k \in Jobs : k # j => job'[k] = job[k]
      /\ job' \in [Jobs -> {"none", "queued", "find", "next", "cache", "core"}]
    BY StepIs
<1>2. \A k \in Jobs : k # j => ~Inside(k)
    BY <1>1, AloneInside DEF HostInv, Inside
<1>3. Serialized'
    BY <1>1, <1>2 DEF Serialized, Inside
<1>4. NamesOfServers' /\ CacheIsRight'
    BY DEF HostInv, NamesOfServers, CacheIsRight, Known
<1>5. IndexIsNew'
    <2>1. \A k \in Jobs : job'[k] = "next" <=> job[k] = "next"
        BY <1>1
    <2>2. QED BY <2>1 DEF HostInv, IndexIsNew
<1>6. NamesAreKnown'
    <2>1. \A m : Packed(m)' = Packed(m)
        BY PackedKept
    <2>2. QED BY <1>1, <2>1 DEF HostInv, NamesAreKnown, Known
<1>7. QED BY <1>1, <1>3, <1>4, <1>5, <1>6 DEF HostInv

\* A start call that ends.
LEMMA EndStartInv ==
    ASSUME IInv, NEW m \in Modules, EndStart(m)
    PROVE  IInv'
<1>1. /\ Step(<<m, "start">>, "core", "none") /\ lock' = Free
      /\ UNCHANGED <<naming, macroVars, dpiVars, server, serverIdx, nameToIdx, zebuServers,
                     zebuCallCnt, results, exited>>
    BY DEF EndStart
<1>2. TypeOK /\ Phases /\ HostInv /\ naming \in Namings /\ <<m, "start">> \in Jobs
    BY DEF IInv, Jobs, Kinds
<1>3. job' \in [Jobs -> {"none", "queued", "find", "next", "cache", "core"}] /\ HostInv'
    BY <1>1, <1>2, EndKeepsHost
<1>4. TypeOK'
    BY <1>1, <1>2, <1>3 DEF TypeOK, macroVars, dpiVars
<1>5. Phases'
    <2>1. \A k \in Jobs : k # <<m, "start">> => job'[k] = job[k]
        BY <1>1, <1>2, StepIs
    <2>2. \A d \in Modules : InHost(d)' <=> InHost(d)
        BY <2>1 DEF InHost, Jobs, Kinds
    <2>3. QED BY <1>1, <1>2, <2>2, PhasesKept
<1>6. QED BY <1>1, <1>2, <1>3, <1>4, <1>5 DEF IInv

\* A call that ends: its result is in the output until the register takes it.
LEMMA EndCallInv ==
    ASSUME IInv, NEW m \in Modules, EndCall(m)
    PROVE  IInv'
<1>1. PICK r \in {0, 1} :
          /\ zebuCallCnt' = [zebuCallCnt EXCEPT ![zebuServers[Packed(m)]] = Counted(m, r)]
          /\ out' = [out EXCEPT ![m] = <<Count(Counted(m, r)), r>>]
          /\ results' = [results EXCEPT ![m] = Append(@, r)]
    BY DEF EndCall
<1>2. /\ Step(<<m, "call">>, "core", "none") /\ lock' = Free
      /\ done' = [done EXCEPT ![m] = TRUE]
      /\ UNCHANGED <<naming, macroVars, left, server, serverIdx, nameToIdx, zebuServers, exited>>
    BY DEF EndCall
<1>3. TypeOK /\ Phases /\ HostInv /\ naming \in Namings /\ <<m, "call">> \in Jobs /\ InAPhase(m)
    BY DEF IInv, Jobs, Kinds, Phases
<1>4. job' \in [Jobs -> {"none", "queued", "find", "next", "cache", "core"}] /\ HostInv'
    BY <1>2, <1>3, EndKeepsHost
<1>5. /\ job[<<m, "call">>] = "core" /\ job'[<<m, "call">>] = "none"
      /\ \A k \in Jobs : k # <<m, "call">> => job'[k] = job[k]
    BY <1>2, <1>3, StepIs
<1>6. Counted(m, r) \in Nat
    <2>1. Known(zebuServers, Packed(m))
        BY <1>3, <1>5 DEF HostInv, NamesAreKnown
    <2>2. zebuCallCnt[zebuServers[Packed(m)]] \in Nat
        BY <1>3, <2>1 DEF TypeOK, Known
    <2>3. QED BY <2>2 DEF Counted
<1>7. results[m] \in Seq({0, 1}) /\ Append(results[m], r) \in Seq({0, 1})
    <2>1. results[m] \in Seq({0, 1})
        BY <1>3 DEF TypeOK
    <2>2. QED BY <2>1, AppendProperties
<1>8. TypeOK'
    <2>1. zebuCallCnt' \in [DOMAIN server -> Nat]
        BY <1>1, <1>3, <1>6 DEF TypeOK
    <2>2. out' \in [Modules -> Counts \X {0, 1}]
        BY <1>1, <1>3, <1>6, CountType DEF TypeOK
    <2>3. results' \in [Modules -> Seq({0, 1})] /\ done' \in [Modules -> BOOLEAN]
        BY <1>1, <1>2, <1>3, <1>7 DEF TypeOK
    <2>4. QED BY <1>2, <1>3, <1>4, <2>1, <2>2, <2>3 DEF TypeOK, macroVars
<1>9. Phases'
    <2>1. ASSUME NEW d \in Modules, d # m PROVE InAPhase(d)'
        <3>1. out'[d] = out[d] /\ results'[d] = results[d] /\ done'[d] = done[d]
            BY <1>1, <1>2, <1>3, <2>1 DEF TypeOK
        <3>2. job'[<<d, "call">>] = job[<<d, "call">>]
            BY <1>5, <2>1 DEF Jobs, Kinds
        <3>3. QED BY <1>2, <1>3, <3>1, <3>2 DEF macroVars, Phases, InAPhase, Idle, Requested,
                        Running, Ended, Delivered, InHost, Returned
    <2>2. Running(m)
        BY <1>3, <1>5 DEF InAPhase, Idle, Requested, Running, Ended, Delivered, InHost
    <2>3. out'[m][2] = r /\ results'[m] = Append(results[m], r) /\ done'[m]
        BY <1>1, <1>2, <1>3 DEF TypeOK
    <2>4. Ended(m)'
        BY <1>2, <1>5, <2>2, <2>3 DEF macroVars, Running, Ended, InHost, Returned
    <2>5. QED BY <2>1, <2>4 DEF Phases, InAPhase
<1>10. QED BY <1>2, <1>3, <1>4, <1>8, <1>9 DEF IInv

-----------------------------------------------------------------------------
(* The theorems *)

\* No module has called and every start call waits for the mutex.
LEMMA InitInv == Init => IInv
<1> SUFFICES ASSUME Init PROVE IInv
    OBVIOUS
<1>1. 0 \in Counts /\ <<>> \in Seq({0, 1}) /\ Free \in Seq(STRING)
    BY ZebuCallsAssumption DEF Counts, Free
<1>2. TypeOK
    <2>1. /\ waits \in [Modules -> BOOLEAN] /\ call \in [Modules -> BOOLEAN]
          /\ callCnt \in [Modules -> Counts]
          /\ left \in [Modules -> 0..Latency] /\ done \in [Modules -> BOOLEAN]
          /\ out \in [Modules -> Counts \X {0, 1}] /\ status \in [Modules -> Counts \X {0, 1}]
          /\ results \in [Modules -> Seq({0, 1})] /\ got \in [Modules -> Seq({0, 1})]
        BY <1>1, ZebuCallsAssumption DEF Init
    <2>2. /\ job \in [Jobs -> {"none", "queued", "find", "next", "cache", "core"}]
          /\ lock \in Jobs \cup {Free}
        BY DEF Init
    <2>3. /\ server \in [0..(ServerMax - 1) -> Seq(STRING)] /\ serverIdx \in 0..ServerMax
          /\ zebuCallCnt \in [DOMAIN server -> Nat]
        BY <1>1, ZebuCallsAssumption DEF Init
    <2>4. /\ nameToIdx \in [DOMAIN nameToIdx -> DOMAIN server]
          /\ zebuServers \in [DOMAIN zebuServers -> DOMAIN server]
        BY DEF Init
    <2>5. QED BY <2>1, <2>2, <2>3, <2>4 DEF TypeOK
<1>3. HostInv
    <2>1. \A j \in Jobs : job[j] \in {"none", "queued"}
        BY DEF Init
    <2>2. DOMAIN nameToIdx = {} /\ DOMAIN zebuServers = {}
        BY DEF Init
    <2>3. QED BY <2>1, <2>2 DEF HostInv, Serialized, Inside, NamesOfServers, IndexIsNew,
                    CacheIsRight, NamesAreKnown
<1>4. Phases
    <2>1. ASSUME NEW m \in Modules PROVE Idle(m)
        <3>1. job[<<m, "call">>] = "none"
            BY DEF Init, Jobs, Kinds
        <3>2. QED BY <3>1 DEF Init, Idle, InHost, Returned
    <2>2. QED BY <2>1 DEF Phases, InAPhase
<1>5. QED BY <1>2, <1>3, <1>4 DEF IInv, Init

\* No step of a module or of a thread breaks it.
LEMMA NextInv == IInv /\ [Next]_vars => IInv'
<1> SUFFICES ASSUME IInv, [Next]_vars PROVE IInv'
    OBVIOUS
<1>1. ASSUME NEW m \in Modules, Posedge(m) \/ Deliver(m) PROVE IInv'
    BY <1>1, PosedgeInv, DeliverInv
<1>2. ASSUME NEW j \in Jobs, Thread(j) PROVE IInv'
    <2>1. j[1] \in Modules
        BY JobParts
    <2>2. QED BY <1>2, <2>1, LockInv, ExitHostInv, StartInv, CountServerInv, RememberInv,
                 EndStartInv, EndCallInv DEF Thread
<1>3. CASE UNCHANGED vars
    <2>1. UNCHANGED <<naming, macroVars, dpiVars, hostVars>>
        BY <1>3 DEF vars
    <2>2. TypeOK' /\ (naming \in Namings)'
        BY <2>1 DEF IInv, TypeOK, macroVars, dpiVars, hostVars
    <2>3. HostInv'
        BY <2>1 DEF IInv, HostInv, Serialized, Inside, NamesOfServers, IndexIsNew, CacheIsRight,
                    NamesAreKnown, Known, Packed, hostVars
    <2>4. Phases'
        BY <2>1, PhasesKept DEF IInv, InHost, hostVars
    <2>5. QED BY <2>2, <2>3, <2>4 DEF IInv
<1>4. QED BY <1>1, <1>2, <1>3 DEF Next

\* The inductive invariant holds in every state of every run.
THEOREM Invariance == Spec => []IInv
BY InitInv, NextInv, PTL DEF Spec

\* The counters fit their bits and the indices the array of servers.
THEOREM TypeCorrect == Spec => []TypeOK
<1>1. IInv => TypeOK
    BY DEF IInv
<1>2. QED BY <1>1, Invariance, PTL

\* zebu_mutex: two threads are never in the code of the servers at once.
THEOREM SerializedHolds == Spec => []Serialized
<1>1. IInv => Serialized
    BY DEF IInv, HostInv
<1>2. QED BY <1>1, Invariance, PTL

\* A macro returns the result of its own call, for every width of the count and
\* every order of the threads, also when modules have the same name.
THEOREM InStepHolds == Spec => []InStep
<1>1. IInv => InStep
    <2> SUFFICES ASSUME IInv, NEW m \in Modules
                 PROVE  IsPrefix(got[m], results[m]) /\ Len(results[m]) <= Len(got[m]) + 1
        BY DEF InStep
    <2>1. got[m] \in Seq({0, 1}) /\ out[m][2] \in {0, 1} /\ status[m][2] \in {0, 1}
        BY DEF IInv, TypeOK
    <2>2. \/ results[m] = got[m]
          \/ \E r \in {0, 1} : results[m] = Append(got[m], r)
        BY <2>1 DEF IInv, Phases, InAPhase, Idle, Requested, Running, Ended, Delivered
    <2>3. ASSUME NEW r \in {0, 1}
          PROVE  /\ IsPrefix(got[m], Append(got[m], r))
                 /\ Len(Append(got[m], r)) = Len(got[m]) + 1
        <3>1. got[m] \in Seq({0, 1})
            BY <2>1
        <3>2. QED BY <3>1, AppendedTo
    <2>4. IsPrefix(got[m], got[m]) /\ Len(got[m]) \in Nat
        <3>1. got[m] \in Seq({0, 1})
            BY <2>1
        <3>2. QED BY <3>1, OwnPrefix
    <2>5. CASE results[m] = got[m]
        BY <2>4, <2>5
    <2>6. CASE \E r \in {0, 1} : results[m] = Append(got[m], r)
        <3>1. PICK r \in {0, 1} : results[m] = Append(got[m], r)
            BY <2>6
        <3>2. QED BY <2>3, <2>4, <3>1
    <2>7. QED BY <2>2, <2>5, <2>6
<1>2. QED BY <1>1, Invariance, PTL

\* A module is served by the server of its own name, for every length of the port
\* and every order of the threads and of the start calls.
THEOREM OwnServerHolds == Spec => []OwnServer
<1>1. IInv => OwnServer
    <2> SUFFICES ASSUME IInv, NEW m \in Modules, NEW n \in Modules,
                        Known(zebuServers, Packed(m)), Known(zebuServers, Packed(n))
                 PROVE  /\ zebuServers[Packed(m)] = zebuServers[Packed(n)] => naming[m] = naming[n]
                        /\ server[zebuServers[Packed(m)]] = naming[m]
        BY DEF OwnServer
    <2>1. ASSUME NEW k \in Modules, Known(zebuServers, Packed(k))
          PROVE  server[zebuServers[Packed(k)]] = naming[k]
        <3>1. /\ Known(nameToIdx, Packed(k))
              /\ zebuServers[Packed(k)] = nameToIdx[Packed(k)]
            BY <2>1 DEF IInv, HostInv, CacheIsRight, Known
        <3>2. Len(Packed(k)) <= NameLen /\ server[nameToIdx[Packed(k)]] = Packed(k)
            BY <3>1 DEF IInv, HostInv, NamesOfServers, Known
        <3>3. Packed(k) = naming[k]
            BY <3>2, PackedName DEF IInv
        <3>4. QED BY <3>1, <3>2, <3>3
    <2>2. QED BY <2>1
<1>2. QED BY <1>1, Invariance, PTL

\* A posedge begins the call of its module, or returns from it.
LEMMA PosedgeCalls ==
    ASSUME IInv, NEW m \in Modules, NEW n \in Modules, Posedge(n)
    PROVE  CallStep(m)
<1>1. /\ waits \in [Modules -> BOOLEAN] /\ got \in [Modules -> Seq({0, 1})]
      /\ results \in [Modules -> Seq({0, 1})] /\ InAPhase(m)
      /\ status[m] \in Counts \X {0, 1}
    BY DEF IInv, TypeOK, Phases
<1>2. results' = results
    BY DEF Posedge
<1>3. CASE m # n \/ NoCall(n) \/ (Wait(n) /\ ~Returned(n))
    <2>1. waits'[m] = waits[m] /\ got'[m] = got[m]
        BY <1>1, <1>3 DEF Posedge, Request, Wait, NoCall, macroVars
    <2>2. UNCHANGED Calls(m)!callVars
        BY <1>2, <2>1 DEF Calls!callVars
    <2>3. QED BY <2>2 DEF CallStep
<1>4. CASE m = n /\ Request(n)
    <2>1. ~waits[m] /\ waits'[m] = TRUE /\ got' = got
        BY <1>1, <1>4 DEF Request
    <2>2. Calls(m)!Call
        BY <1>2, <2>1 DEF Calls!Call
    <2>3. QED BY <2>2 DEF CallStep, Calls!Next
<1>5. CASE m = n /\ Wait(n) /\ Returned(n)
    <2>1. waits[m] /\ waits'[m] = FALSE /\ got'[m] = Append(got[m], status[m][2])
        BY <1>1, <1>5 DEF Wait
    <2>2. Delivered(m)
        BY <1>1, <1>5, <2>1 DEF InAPhase, Idle, Requested, Running, Ended
    <2>3. results[m] = Append(got[m], status[m][2]) /\ Len(results[m]) = Len(got[m]) + 1
        <3>1. got[m] \in Seq({0, 1}) /\ status[m][2] \in {0, 1}
            BY <1>1
        <3>2. QED BY <2>2, <3>1, AppendProperties DEF Delivered
    <2>4. Calls(m)!Return
        BY <1>2, <2>1, <2>3 DEF Calls!Return
    <2>5. QED BY <2>4 DEF CallStep, Calls!Next
<1>6. QED BY <1>3, <1>4, <1>5 DEF Posedge

\* The host executes the call of a module only while it is waited for.
LEMMA EndCallExecutes ==
    ASSUME IInv, NEW m \in Modules, NEW n \in Modules, EndCall(n)
    PROVE  CallStep(m)
<1>1. results \in [Modules -> Seq({0, 1})] /\ InAPhase(n) /\ InHost(n)
    BY DEF IInv, TypeOK, Phases, EndCall, Step, InHost
<1>2. UNCHANGED <<waits, got>>
    BY DEF EndCall, macroVars
<1>3. PICK r \in {0, 1} : results' = [results EXCEPT ![n] = Append(@, r)]
    BY DEF EndCall
<1>4. CASE m # n
    <2>1. UNCHANGED Calls(m)!callVars
        BY <1>1, <1>2, <1>3, <1>4 DEF Calls!callVars
    <2>2. QED BY <2>1 DEF CallStep
<1>5. CASE m = n
    <2>1. waits[m] /\ results[m] = got[m]
        BY <1>1, <1>5 DEF InAPhase, Idle, Requested, Running, Ended, Delivered
    <2>2. results'[m] = Append(results[m], r)
        BY <1>1, <1>3, <1>5
    <2>3. Calls(m)!Execute
        BY <1>2, <2>1, <2>2 DEF Calls!Execute
    <2>4. QED BY <2>3 DEF CallStep, Calls!Next
<1>6. QED BY <1>4, <1>5

\* To every module the macro is the call of a function, over wrap-around, over
\* failed calls and in whatever order the host's threads come.
THEOREM CallRefinement == Spec => ImplementsCalls
<1>1. Init => \A m \in Modules : Calls(m)!Init
    BY DEF Init, Calls!Init
<1>2. IInv /\ [Next]_vars => [\A m \in Modules : CallStep(m)]_vars
    <2> SUFFICES ASSUME IInv, Next, NEW m \in Modules PROVE CallStep(m)
        OBVIOUS
    <2>1. ASSUME NEW n \in Modules, Posedge(n) PROVE CallStep(m)
        BY <2>1, PosedgeCalls
    <2>2. ASSUME NEW n \in Modules, EndCall(n) PROVE CallStep(m)
        BY <2>2, EndCallExecutes
    <2>3. CASE UNCHANGED <<waits, results, got>>
        BY <2>3 DEF CallStep, Calls!callVars
    <2>4. ASSUME NEW n \in Modules, Deliver(n) PROVE CallStep(m)
        BY <2>3, <2>4 DEF Deliver, hostVars
    <2>5. ASSUME NEW j \in Jobs, Thread(j) PROVE CallStep(m)
        <3>1. CASE Lock(j) \/ ExitHost(j) \/ Start(j) \/ CountServer(j) \/ Remember(j)
                   \/ EndStart(j[1])
            BY <2>3, <3>1 DEF Lock, Find, ExitHost, Start, CountServer, Remember, EndStart,
                              macroVars, hostVars
        <3>2. QED BY <2>2, <2>5, <3>1, JobParts DEF Thread
    <2>6. QED BY <2>1, <2>4, <2>5 DEF Next
<1>3. QED BY <1>1, <1>2, Invariance, PTL DEF Spec, ImplementsCalls
=============================================================================
