-------------------------- MODULE MCClientToServer --------------------------
(* The instance of ClientToServer for TLC. *)
EXTENDS ClientToServer, TLC

CONSTANTS c1, c2, c3

\* two clients of the server's host and one of another host; the first one has
\* enough items to present one while the one before is retried
MCClients == {c1, c2, c3}
MCUnixClients == {c1, c2}
MCItems == c1 :> 3 @@ c2 :> 1 @@ c3 :> 1
=============================================================================
