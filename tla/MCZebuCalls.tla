---------------------------- MODULE MCZebuCalls -----------------------------
(* Instances of ZebuCalls for TLC. *)
EXTENDS ZebuCalls, TLC

CONSTANTS pull, push

MCModules == {pull, push}

\* two names; a name of NameLen characters and one that has them at its end, with
\* one more and with two more characters (NameLen is 2)
MCNamings ==
    {pull :> <<"a", "b">> @@ push :> n : n \in {<<"b">>, <<"c", "a", "b">>, <<"d", "c", "a", "b">>}}
=============================================================================
