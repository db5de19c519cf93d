---------------------------- MODULE MCRendezvous ----------------------------
(* Instances of Rendezvous for TLC. *)
EXTENDS Rendezvous, TLC

CONSTANTS x, y, z, hashA, hashB, ca, cb

\* Two names that are too long for an info file and for a Unix socket and begin
\* alike, each with a client; the client of b is on the host of the servers.
a == <<x, x, y>>
b == <<x, x, z>>
MCChars == {x, y, z}
MCChannels == {a, b}
MCHashOf == a :> hashA @@ b :> hashB
MCClients == {ca, cb}
MCChannelOf == ca :> a @@ cb :> b
MCLocal == {cb}

\* one client, on another host than the servers
MCOneClient == {ca}
MCOneChannelOf == ca :> a
MCNoLocal == {}
=============================================================================
