----------------------------- MODULE RemoteCall -----------------------------
(***************************************************************************)
(* What a call across two simulations promises, whatever carries it: the   *)
(* callee executes each call once, while its caller waits for it, and the  *)
(* caller goes on with the result of that very execution.  ApbBridge (a    *)
(* transfer on a bus that is cut in two) and ZebuCalls (the request of a   *)
(* module in the emulator, executed by the host) implement it.             *)
(***************************************************************************)
EXTENDS Naturals, Sequences

CONSTANT Answers   \* the results a call with an argument may have, a function

VARIABLES
    busy,      \* the caller waits for a call
    arg,       \* the argument of that call
    executed,  \* the results of the calls the callee has executed
    returned   \* what the calls of the caller have returned

callVars == <<busy, arg, executed, returned>>

Init ==
    /\ busy = FALSE
    /\ executed = <<>>
    /\ returned = <<>>

\* With any argument.
Call ==
    /\ ~busy
    /\ busy' = TRUE
    /\ UNCHANGED <<executed, returned>>

Execute ==
    /\ busy
    /\ executed = returned
    /\ \E r \in Answers[arg] : executed' = Append(executed, r)
    /\ UNCHANGED <<busy, arg, returned>>

\* The next call may follow at once.
Return ==
    /\ busy
    /\ Len(executed) = Len(returned) + 1
    /\ returned' = executed
    /\ busy' \in BOOLEAN
    /\ UNCHANGED executed

Next == Call \/ Execute \/ Return

Spec == Init /\ [][Next]_callVars
=============================================================================
