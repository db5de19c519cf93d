-------------------------- MODULE MCServerToClient --------------------------
(* Instances of ServerToClient for TLC. *)
EXTENDS ServerToClient

CONSTANTS c1, c2

\* one client of each kind: the first one goes, the second one takes over
MCTwoClients == {c1, c2}
MCOneUnix == {c1}
=============================================================================
