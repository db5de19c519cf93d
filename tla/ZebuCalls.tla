----------------------------- MODULE ZebuCalls ------------------------------
(***************************************************************************)
(* The ZeBu flavour of the server DPIs.  A push or pull module runs in the *)
(* emulator: it requests a call, goes on with its clock, and waits until   *)
(* the count in a status register is the count of its calls.  The host     *)
(* serves the calls of different modules from different threads, under one *)
(* mutex, starts a server at the first call that names it (the start call  *)
(* of the module may come later), counts the calls of the server, and      *)
(* gives back {count, result}.                                             *)
(*                                                                         *)
(* A name is a sequence of characters; the port of a module keeps the last *)
(* NameLen + 1 of them.  What a call does with the socket is in            *)
(* ClientToServer and ServerToClient: here it has a result.                *)
(***************************************************************************)
EXTENDS Naturals, Sequences, SequencesExt

CONSTANTS
    Modules,     \* the push and pull modules, one call each at a time
    Namings,     \* the server names of the modules, a set of functions
    NameLen,     \* MULTISIM_SERVER_NAME_LEN
    ServerMax,   \* MULTISIM_SERVER_MAX
    CountBits,   \* bits of the call count in the status word (31)
    Latency,     \* MULTISIM_ZEBU_DPI_LATENCY
    MaxCalls     \* bound: calls of a module

\* The last conjunct follows from CountBits > 0, for a reader; the provers do not
\* know powers.
ASSUME ZebuCallsAssumption ==
    /\ Namings \subseteq [Modules -> Seq(STRING)]
    /\ NameLen \in Nat \ {0}
    /\ ServerMax \in Nat \ {0}
    /\ CountBits \in Nat \ {0}
    /\ Latency \in Nat \ {0}
    /\ MaxCalls \in Nat
    /\ 2 ^ CountBits \in Nat \ {0, 1}

Kinds == {"start", "call"}
Jobs == Modules \X Kinds
Free == <<>>

VARIABLES
    naming,      \* the server_name of each module
    waits,       \* the module is in the macro, from its request to the result
    callCnt,     \* pull_call_cnt or push_call_cnt
    call,        \* pull_call or push_call
    left,        \* posedges left in the process that called the DPI
    done,        \* done of that process
    out,         \* its status_data: count and result
    status,      \* the status register
    job,         \* how far a call of the host is: "none", "queued", "find",
                 \* "next", "cache", "core"
    lock,        \* the job that holds zebu_mutex, or Free
    server,      \* the name of the server of each index, Free if none
    serverIdx,   \* server_idx
    nameToIdx,   \* server_name_to_idx, a function on the started names
    zebuServers, \* zebu_servers: the index of each packed name
    zebuCallCnt, \* zebu_call_cnt
    exited,      \* the host process has exited with an error
    results,     \* history: the results of the calls of each module
    got          \* history: what the macros of each module returned

macroVars == <<waits, callCnt, call, status, got>>
dpiVars == <<left, done, out>>
hostVars == <<job, lock, server, serverIdx, nameToIdx, zebuServers, zebuCallCnt, results>>
vars == <<naming, macroVars, dpiVars, hostVars, exited>>

Counts == 0..(2 ^ CountBits - 1)

Init ==
    /\ naming \in Namings
    /\ waits = [m \in Modules |-> FALSE]
    /\ callCnt = [m \in Modules |-> 0]
    /\ call = [m \in Modules |-> FALSE]
    /\ left = [m \in Modules |-> 0]
    /\ done = [m \in Modules |-> FALSE]
    /\ out = [m \in Modules |-> <<0, 0>>]
    /\ status = [m \in Modules |-> <<0, 0>>]
    /\ job = [j \in Jobs |-> IF j[2] = "start" THEN "queued" ELSE "none"]
    /\ lock = Free
    /\ server = [i \in 0..(ServerMax - 1) |-> Free]
    /\ serverIdx = 0
    /\ nameToIdx = [n \in {} |-> 0]
    /\ zebuServers = [n \in {} |-> 0]
    /\ zebuCallCnt = [i \in 0..(ServerMax - 1) |-> 0]
    /\ exited = FALSE
    /\ results = [m \in Modules |-> <<>>]
    /\ got = [m \in Modules |-> <<>>]

-----------------------------------------------------------------------------
(* The macros of a module and the process that calls the DPI *)

\* The count as a status word and a module have it.
Count(n) == n % (2 ^ CountBits)

\* Mutant: the result is taken when the request is down, whatever the count.
BugReturned(m) == ~call[m]

\* The status register has the count of this call.
Returned(m) == status[m][1] = callCnt[m]

\* The first posedge of the macro: it requests a call.
Request(m) ==
    /\ ~waits[m]
    /\ Len(got[m]) < MaxCalls
    /\ callCnt' = [callCnt EXCEPT ![m] = Count(@ + 1)]
    /\ call' = [call EXCEPT ![m] = TRUE]
    /\ waits' = [waits EXCEPT ![m] = TRUE]
    /\ UNCHANGED <<status, got>>

\* The ones after it, until the count is there.
Wait(m) ==
    /\ waits[m]
    /\ call' = [call EXCEPT ![m] = FALSE]
    /\ IF Returned(m)
       THEN /\ waits' = [waits EXCEPT ![m] = FALSE]
            /\ got' = [got EXCEPT ![m] = Append(@, status[m][2])]
       ELSE UNCHANGED <<waits, got>>
    /\ UNCHANGED <<callCnt, status>>

NoCall(m) == ~waits[m] /\ UNCHANGED macroVars

\* A posedge of the module's clock: with the request a process is forked, which
\* calls the DPI and lets Latency cycles pass.
Posedge(m) ==
    /\ ~exited
    /\ Request(m) \/ Wait(m) \/ NoCall(m)
    /\ left' = [left EXCEPT ![m] = IF call[m] THEN Latency ELSE IF @ > 0 THEN @ - 1 ELSE 0]
    /\ IF call[m]
       THEN /\ job' = [job EXCEPT ![<<m, "call">>] = "queued"]
            /\ done' = [done EXCEPT ![m] = FALSE]
       ELSE UNCHANGED <<job, done>>
    /\ UNCHANGED <<naming, out, lock, server, serverIdx, nameToIdx, zebuServers,
                   zebuCallCnt, results, exited>>

\* The cycles have passed and the DPI is done: the register takes its output.
Deliver(m) ==
    /\ ~exited
    /\ left[m] = 0 /\ done[m]
    /\ status' = [status EXCEPT ![m] = out[m]]
    /\ done' = [done EXCEPT ![m] = FALSE]
    /\ UNCHANGED <<naming, waits, callCnt, call, got, left, out, hostVars, exited>>

-----------------------------------------------------------------------------
(* The host *)

LastChars(name, n) == SubSeq(name, IF Len(name) > n THEN Len(name) - n + 1 ELSE 1, Len(name))

\* Mutant: the port has no room for one more character.
BugPacked(m) == LastChars(naming[m], NameLen)

\* The port of the module: MULTISIM_SERVER_NAME_T.
Packed(m) == LastChars(naming[m], NameLen + 1)

Known(f, name) == name \in DOMAIN f

With(f, name, i) == [n \in DOMAIN f \cup {name} |-> IF n = name THEN i ELSE f[n]]

Step(j, from, to) == ~exited /\ job[j] = from /\ job' = [job EXCEPT ![j] = to]

\* The packed name is looked for among the decoded ones.
Find(j) ==
    /\ Step(j, "queued", IF Known(zebuServers, Packed(j[1])) THEN "core" ELSE "find")
    /\ lock' = j
    /\ UNCHANGED <<naming, macroVars, dpiVars, server, serverIdx, nameToIdx, zebuServers,
                   zebuCallCnt, results, exited>>

\* Mutant: the calls are not serialized.
BugLock(j) == Find(j)

\* lock_guard
Lock(j) == lock = Free /\ Find(j)

\* The checks of zebu_server_name and multisim_server_start.
Startable(name) ==
    Len(name) <= NameLen /\ (Known(nameToIdx, name) \/ serverIdx < ServerMax)

\* A name that is too long, or a server too many, ends the process.
ExitHost(j) ==
    /\ ~exited
    /\ job[j] = "find"
    /\ ~Startable(Packed(j[1]))
    /\ exited' = TRUE
    /\ UNCHANGED <<naming, macroVars, dpiVars, hostVars>>

\* multisim_server_start, up to the increment of server_idx; a name that is started
\* already only gets into the cache.
Start(j) ==
    LET name == Packed(j[1])
        new == ~Known(nameToIdx, name)
    IN  /\ Startable(name)
        /\ Step(j, "find", IF new THEN "next" ELSE "cache")
        /\ server' = IF new THEN [server EXCEPT ![serverIdx] = name] ELSE server
        /\ nameToIdx' = IF new THEN With(nameToIdx, name, serverIdx) ELSE nameToIdx
        /\ UNCHANGED <<naming, macroVars, dpiVars, lock, serverIdx, zebuServers,
                       zebuCallCnt, results, exited>>

CountServer(j) ==
    /\ Step(j, "next", "cache")
    /\ serverIdx' = serverIdx + 1
    /\ UNCHANGED <<naming, macroVars, dpiVars, lock, server, nameToIdx, zebuServers,
                   zebuCallCnt, results, exited>>

\* zebu_servers.push_back
Remember(j) ==
    /\ Step(j, "cache", "core")
    /\ zebuServers' = With(zebuServers, Packed(j[1]), nameToIdx[Packed(j[1])])
    /\ UNCHANGED <<naming, macroVars, dpiVars, lock, server, serverIdx, nameToIdx,
                   zebuCallCnt, results, exited>>

\* multisim_server_start_zebu has nothing more to do.
EndStart(m) ==
    /\ Step(<<m, "start">>, "core", "none")
    /\ lock' = Free
    /\ UNCHANGED <<naming, macroVars, dpiVars, server, serverIdx, nameToIdx, zebuServers,
                   zebuCallCnt, results, exited>>

\* Mutant: a call that fails is not counted.
BugCounted(m, r) == zebuCallCnt[zebuServers[Packed(m)]] + r

\* zebu_status
Counted(m, r) == zebuCallCnt[zebuServers[Packed(m)]] + 1

\* The call gives its result, the count goes on, and the output is there.
EndCall(m) ==
    /\ Step(<<m, "call">>, "core", "none")
    /\ \E r \in {0, 1} :
          /\ zebuCallCnt' = [zebuCallCnt EXCEPT ![zebuServers[Packed(m)]] = Counted(m, r)]
          /\ out' = [out EXCEPT ![m] = <<Count(Counted(m, r)), r>>]
          /\ results' = [results EXCEPT ![m] = Append(@, r)]
    /\ done' = [done EXCEPT ![m] = TRUE]
    /\ lock' = Free
    /\ UNCHANGED <<naming, macroVars, left, server, serverIdx, nameToIdx, zebuServers, exited>>

Thread(j) ==
    \/ Lock(j) \/ ExitHost(j) \/ Start(j) \/ CountServer(j) \/ Remember(j)
    \/ j = <<j[1], "start">> /\ EndStart(j[1])
    \/ j = <<j[1], "call">> /\ EndCall(j[1])

Next ==
    \/ \E m \in Modules : Posedge(m) \/ Deliver(m)
    \/ \E j \in Jobs : Thread(j)

Spec == Init /\ [][Next]_vars

\* The clocks run and the host serves its threads.  A module need not call.
FairSpec ==
    /\ Spec
    /\ \A m \in Modules :
          /\ WF_vars((waits[m] \/ left[m] > 0) /\ Posedge(m))
          /\ WF_vars(Deliver(m))
    /\ \A j \in Jobs : WF_vars(Thread(j))

-----------------------------------------------------------------------------
(* Properties *)

\* The variables hold values of their types.
TypeOK ==
    /\ waits \in [Modules -> BOOLEAN] /\ call \in [Modules -> BOOLEAN]
    /\ callCnt \in [Modules -> Counts]
    /\ left \in [Modules -> 0..Latency] /\ done \in [Modules -> BOOLEAN]
    /\ out \in [Modules -> Counts \X {0, 1}] /\ status \in [Modules -> Counts \X {0, 1}]
    /\ job \in [Jobs -> {"none", "queued", "find", "next", "cache", "core"}]
    /\ lock \in Jobs \cup {Free}
    /\ server \in [0..(ServerMax - 1) -> Seq(STRING)]
    /\ serverIdx \in 0..ServerMax
    /\ nameToIdx \in [DOMAIN nameToIdx -> DOMAIN server]
    /\ zebuServers \in [DOMAIN zebuServers -> DOMAIN server]
    /\ zebuCallCnt \in [DOMAIN server -> Nat]
    /\ results \in [Modules -> Seq({0, 1})] /\ got \in [Modules -> Seq({0, 1})]

\* What the macro returns for its n-th call is the result of the n-th call the
\* host made for it, also when the count has wrapped and when the start call comes
\* last: never the one before, never the one of another module.
InStep ==
    \A m \in Modules : IsPrefix(got[m], results[m]) /\ Len(results[m]) <= Len(got[m]) + 1

\* For the module, the macro is a call of a function: the host executes it once,
\* between the request and the return, and what it returns is its result.
Calls(m) == INSTANCE RemoteCall WITH
    Answers <- [n \in Modules |-> {0, 1}],
    busy <- waits[m], arg <- m, executed <- results[m], returned <- got[m]

CallStep(m) == Calls(m)!Next \/ UNCHANGED Calls(m)!callVars

ImplementsCalls ==
    /\ \A m \in Modules : Calls(m)!Init
    /\ [][\A m \in Modules : CallStep(m)]_vars

\* Two modules are served by the same server only if they have the same name,
\* and the server of a name is the one that was started with it, in whatever
\* order the threads come.
OwnServer ==
    \A m, n \in Modules :
        Known(zebuServers, Packed(m)) /\ Known(zebuServers, Packed(n)) =>
            /\ zebuServers[Packed(m)] = zebuServers[Packed(n)] => naming[m] = naming[n]
            /\ server[zebuServers[Packed(m)]] = naming[m]

\* Every call returns to a module whose server name is its own: the two counts
\* stay equal over failed calls and over wrap-around.
EveryCallReturns == \A m \in Modules : waits[m] ~> ~waits[m] \/ exited
=============================================================================
