----------------------------- MODULE Rendezvous -----------------------------
(***************************************************************************)
(* How a client finds the server of its channel: Server::start() takes the *)
(* first free port, listens, also on a Unix socket named after the         *)
(* channel, and publishes where in server_<name>.txt; Client::start()      *)
(* polls that file, then tries the Unix socket and the TCP port, and reads *)
(* the file again when both fail.  A name that is too long for the file,   *)
(* or for the socket, is cut there and followed by a hash of it.           *)
(*                                                                         *)
(* Every channel has one server name.  The servers run on one host; a      *)
(* server simulation may be killed and started again, in which case the    *)
(* file of its previous run is still there.                                *)
(***************************************************************************)
EXTENDS Naturals, FiniteSets, Sequences

CONSTANTS
    Chars,        \* characters
    Channels,     \* the server names, sequences of characters
    InfoMax,      \* longest name that fits the name of an info file (244)
    InfoKeep,     \* characters that are kept of a longer one (200)
    UnixMax,      \* the same for the Unix socket (64)
    UnixKeep,     \* (40)
    HashOf,       \* fnv1a_hash_str of the names
    Clients,      \* the client simulations, one channel each
    ChannelOf,    \* the server name each client was given
    Local,        \* the clients on the host of the servers
    None,         \* no channel
    MaxCrash      \* bound: number of times a server is killed

ASSUME RendezvousAssumption ==
    /\ ChannelOf \in [Clients -> Channels]
    /\ Local \subseteq Clients
    /\ None \notin Channels
    /\ InfoMax \in Nat /\ InfoKeep \in 0..InfoMax
    /\ UnixMax \in Nat /\ UnixKeep \in 0..UnixMax
    /\ IsFiniteSet(Channels)
    /\ Channels \subseteq Seq(Chars)
    /\ MaxCrash \in Nat

\* Different names have different hashes, and a name that is given does not look
\* like one that was shortened.
ASSUME HashAssumption ==
    /\ \A s, t \in Channels : HashOf[s] = HashOf[t] => s = t
    /\ \A s \in Channels : HashOf[s] \notin Chars

\* Ports are counted from BASE_PORT (port 1), 0 is no port.  There are as many
\* as the bind loop can ever need.
Ports == 1..(Cardinality(Channels) + MaxCrash)

-----------------------------------------------------------------------------
(* The names of the files *)

\* Mutant: a long name is cut, nothing tells it from others that begin alike.
BugShortened(name, max, keep) ==
    IF Len(name) <= max THEN name ELSE SubSeq(name, 1, keep)

Shortened(name, max, keep) ==
    IF Len(name) <= max THEN name ELSE Append(SubSeq(name, 1, keep), HashOf[name])

\* info_file_path(), unix_socket_file(), without what all names have in common
InfoFile(name) == Shortened(name, InfoMax, InfoKeep)
UnixFile(name) == Shortened(name, UnixMax, UnixKeep)

InfoFiles == {InfoFile(s) : s \in Channels}
UnixFiles == {UnixFile(s) : s \in Channels}
NoPath == <<>>

VARIABLES
    step,     \* how far Server::start() is: "bind", "listen", "unix", "open",
              \* "ip", "port", "unixLine", "done"; "down" is no process
    try,      \* serverPort: the port bind() is called with next
    bound,    \* the port the server's TCP socket is bound to, 0 if none
    unixUp,   \* the server listens on its Unix socket (unix_fd >= 0)
    unixAt,   \* the server a path leads to: the last one that was bound to it,
              \* None when that one has ended or the path is not there
    file,     \* the info files as a reader finds them
    linger,   \* ports bind() refuses after their server was killed
    crashes,  \* number of kills so far
    cstep,    \* how far Client::start() is: "wait", "unix", "tcp", "sleep", "done"
    info,     \* serverPort and serverUnixSocket of the client
    conn      \* the channel whose server the client is connected to

serverVars == <<step, try, bound, unixUp, unixAt>>
clientVars == <<cstep, info, conn>>
vars == <<serverVars, file, linger, crashes, clientVars>>

-----------------------------------------------------------------------------
\* The lines of an info file; port 0 and NoPath are a line that is missing.
NoLines == [ip |-> FALSE, port |-> 0, unix |-> NoPath]

Init ==
    /\ step = [s \in Channels |-> "down"]
    /\ try = [s \in Channels |-> 1]
    /\ bound = [s \in Channels |-> 0]
    /\ unixUp = [s \in Channels |-> FALSE]
    /\ unixAt = [p \in UnixFiles |-> None]
    /\ file = [f \in InfoFiles |-> NoLines]
    /\ linger = {}
    /\ crashes = 0
    /\ cstep = [c \in Clients |-> "wait"]
    /\ info = [c \in Clients |-> [port |-> 0, unix |-> NoPath]]
    /\ conn = [c \in Clients |-> None]

-----------------------------------------------------------------------------
(* Server::start() *)

Listening(s) == step[s] \notin {"down", "bind", "listen"}

\* The server with its TCP socket bound to p listens.
ListenerAt(p) == {s \in Channels : Listening(s) /\ bound[s] = p}

InUse(p) == p \in linger \/ \E s \in Channels : bound[s] = p

ServerBegin(s) ==
    /\ step[s] = "down"
    /\ step' = [step EXCEPT ![s] = "bind"]
    /\ try' = [try EXCEPT ![s] = 1]
    /\ UNCHANGED <<bound, unixUp, unixAt, file, linger, crashes, clientVars>>

\* One turn of the bind loop: the port is taken, or the next one is tried.
ServerBind(s) ==
    /\ step[s] = "bind"
    /\ IF InUse(try[s])
       THEN /\ try[s] + 1 \in Ports
            /\ try' = [try EXCEPT ![s] = @ + 1]
            /\ UNCHANGED <<step, bound>>
       ELSE /\ bound' = [bound EXCEPT ![s] = try[s]]
            /\ step' = [step EXCEPT ![s] = "listen"]
            /\ UNCHANGED try
    /\ UNCHANGED <<unixUp, unixAt, file, linger, crashes, clientVars>>

ServerListen(s) ==
    /\ step[s] = "listen"
    /\ step' = [step EXCEPT ![s] = "unix"]
    /\ UNCHANGED <<try, bound, unixUp, unixAt, file, linger, crashes, clientVars>>

\* startUnixSocket(): the path of a previous server is removed and taken.  It
\* may fail before or after that, the server then works with TCP only.
ServerUnix(s) ==
    /\ step[s] = "unix"
    /\ \/ /\ unixUp' = [unixUp EXCEPT ![s] = TRUE]
          /\ unixAt' = [unixAt EXCEPT ![UnixFile(s)] = s]
       \/ /\ unixAt' \in {unixAt, [unixAt EXCEPT ![UnixFile(s)] = None]}
          /\ UNCHANGED unixUp
    /\ step' = [step EXCEPT ![s] = "open"]
    /\ UNCHANGED <<try, bound, file, linger, crashes, clientVars>>

\* Mutant: the lines of a previous run are kept, the new ones come after them.
BugServerOpen(s) ==
    /\ step[s] = "open"
    /\ step' = [step EXCEPT ![s] = IF file[InfoFile(s)].port = 0 THEN "ip" ELSE "done"]
    /\ UNCHANGED <<try, bound, unixUp, unixAt, file, linger, crashes, clientVars>>

\* fopen(..., "w+"): the file of a previous run is emptied.
ServerOpen(s) ==
    /\ step[s] = "open"
    /\ file' = [file EXCEPT ![InfoFile(s)] = NoLines]
    /\ step' = [step EXCEPT ![s] = "ip"]
    /\ UNCHANGED <<try, bound, unixUp, unixAt, linger, crashes, clientVars>>

\* The lines, one by one: a reader may come between any two of them.
ServerWriteIp(s) ==
    /\ step[s] = "ip"
    /\ file' = [file EXCEPT ![InfoFile(s)].ip = TRUE]
    /\ step' = [step EXCEPT ![s] = "port"]
    /\ UNCHANGED <<try, bound, unixUp, unixAt, linger, crashes, clientVars>>

ServerWritePort(s) ==
    /\ step[s] = "port"
    /\ file' = [file EXCEPT ![InfoFile(s)].port = try[s]]
    /\ step' = [step EXCEPT ![s] = "unixLine"]
    /\ UNCHANGED <<try, bound, unixUp, unixAt, linger, crashes, clientVars>>

ServerWriteUnix(s) ==
    /\ step[s] = "unixLine"
    /\ file' = [file EXCEPT ![InfoFile(s)].unix = IF unixUp[s] THEN UnixFile(s) ELSE NoPath]
    /\ step' = [step EXCEPT ![s] = "done"]
    /\ UNCHANGED <<try, bound, unixUp, unixAt, linger, crashes, clientVars>>

\* The server simulation is killed, at any point of start() or later.  The
\* kernel closes its sockets, and may refuse its port for a while (TIME_WAIT,
\* the server does not set SO_REUSEADDR); the file stays.
ServerCrash(s) ==
    /\ step[s] # "down"
    /\ crashes < MaxCrash
    /\ crashes' = crashes + 1
    /\ step' = [step EXCEPT ![s] = "down"]
    /\ bound' = [bound EXCEPT ![s] = 0]
    /\ unixUp' = [unixUp EXCEPT ![s] = FALSE]
    /\ unixAt' = [p \in UnixFiles |-> IF unixAt[p] = s THEN None ELSE unixAt[p]]
    /\ \E waits \in BOOLEAN :
          linger' = IF waits /\ bound[s] # 0 THEN linger \cup {bound[s]} ELSE linger
    /\ UNCHANGED <<try, file, clientVars>>

\* The kernel lets the port go.
LingerEnds(p) ==
    /\ p \in linger
    /\ linger' = linger \ {p}
    /\ UNCHANGED <<serverVars, file, crashes, clientVars>>

-----------------------------------------------------------------------------
(* Client::start() *)

\* Mutant: a file without its port line is accepted.
BugComplete(f) == f.ip

\* getServerIpAndPort() needs the ip and the port; the Unix socket is optional.
Complete(f) == f.ip /\ f.port # 0

ReadInfo(c) ==
    LET f == file[InfoFile(ChannelOf[c])] IN
    IF Complete(f)
    THEN info' = [info EXCEPT ![c] = [port |-> f.port, unix |-> f.unix]]
    ELSE UNCHANGED info

\* The first loop, every 0.1 s: it ends when the file is complete.
ClientWait(c) ==
    /\ cstep[c] = "wait"
    /\ Complete(file[InfoFile(ChannelOf[c])])
    /\ ReadInfo(c)
    /\ cstep' = [cstep EXCEPT ![c] = "unix"]
    /\ UNCHANGED <<serverVars, file, linger, crashes, conn>>

Connected(c, s) ==
    /\ conn' = [conn EXCEPT ![c] = s]
    /\ cstep' = [cstep EXCEPT ![c] = "done"]

Goes(c, to) == cstep' = [cstep EXCEPT ![c] = to] /\ UNCHANGED conn

\* The server the client's path leads to, None if it has none or is on another
\* host, where the path does not exist.
UnixListener(c) ==
    IF info[c].unix # NoPath /\ c \in Local THEN unixAt[info[c].unix] ELSE None

\* Mutant: a client that is given a Unix socket does not try TCP.
BugClientTryUnix(c) ==
    /\ cstep[c] = "unix"
    /\ \/ UnixListener(c) # None /\ Connected(c, UnixListener(c))
       \/ Goes(c, IF info[c].unix = NoPath THEN "tcp" ELSE "sleep")
    /\ UNCHANGED <<serverVars, file, linger, crashes, info>>

\* startWithUnixSocket(): whoever listens on the path answers.  It may fail all
\* the same, when the path does not fit a sun_path, even through /proc.
ClientTryUnix(c) ==
    /\ cstep[c] = "unix"
    /\ \/ UnixListener(c) # None /\ Connected(c, UnixListener(c))
       \/ Goes(c, "tcp")
    /\ UNCHANGED <<serverVars, file, linger, crashes, info>>

\* startWithAddressAndPort(): whoever listens on the port answers.
ClientTryTcp(c) ==
    /\ cstep[c] = "tcp"
    /\ \/ \E s \in ListenerAt(info[c].port) : Connected(c, s)
       \/ ListenerAt(info[c].port) = {} /\ Goes(c, "sleep")
    /\ UNCHANGED <<serverVars, file, linger, crashes, info>>

\* "the info file can be a stale one: read it again"; what it returns is
\* ignored: from an incomplete file the client keeps what it had.
ClientReread(c) ==
    /\ cstep[c] = "sleep"
    /\ ReadInfo(c)
    /\ cstep' = [cstep EXCEPT ![c] = "unix"]
    /\ UNCHANGED <<serverVars, file, linger, crashes, conn>>

ServerStart(s) ==
    \/ ServerBegin(s)
    \/ ServerBind(s)
    \/ ServerListen(s)
    \/ ServerUnix(s)
    \/ ServerOpen(s)
    \/ ServerWriteIp(s)
    \/ ServerWritePort(s)
    \/ ServerWriteUnix(s)

ClientStart(c) ==
    \/ ClientWait(c)
    \/ ClientTryUnix(c)
    \/ ClientTryTcp(c)
    \/ ClientReread(c)

Next ==
    \/ \E s \in Channels : ServerStart(s) \/ ServerCrash(s)
    \/ \E p \in Ports : LingerEnds(p)
    \/ \E c \in Clients : ClientStart(c)

Spec == Init /\ [][Next]_vars

\* Every server is started (again, when it was killed) and gets through start();
\* the clients run.
FairSpec ==
    /\ Spec
    /\ \A s \in Channels : WF_vars(ServerStart(s))
    /\ \A c \in Clients : WF_vars(ClientStart(c))

-----------------------------------------------------------------------------
(* Properties *)

Steps == {"down", "bind", "listen", "unix", "open", "ip", "port", "unixLine", "done"}
ClientSteps == {"wait", "unix", "tcp", "sleep", "done"}
Lines == [ip : BOOLEAN, port : Ports \cup {0}, unix : UnixFiles \cup {NoPath}]
Infos == [port : Ports \cup {0}, unix : UnixFiles \cup {NoPath}]

\* The variables hold values of their types.
TypeOK ==
    /\ step \in [Channels -> Steps]
    /\ try \in [Channels -> Ports]
    /\ bound \in [Channels -> Ports \cup {0}]
    /\ unixUp \in [Channels -> BOOLEAN]
    /\ unixAt \in [UnixFiles -> Channels \cup {None}]
    /\ file \in [InfoFiles -> Lines]
    /\ linger \subseteq Ports
    /\ crashes \in 0..MaxCrash
    /\ cstep \in [Clients -> ClientSteps]
    /\ info \in [Clients -> Infos]
    /\ conn \in [Clients -> Channels \cup {None}]

\* A client is never connected to the server of another channel: the name alone
\* links the two ends ("`multisim` modules need a unique `server_name` to link a
\* client/server channel together").
RightServer == \A c \in Clients : conn[c] \in {None, ChannelOf[c]}

\* As long as no server was killed every client is connected to the server of
\* its name, in whatever order the servers start and bind, by whichever socket,
\* and however alike the names are: their files and sockets are told apart.
RightServerUntilCrash == crashes = 0 => RightServer

\* As long as no server was killed, a client that finds a complete file gets its
\* connection at the first try: whatever is published is listening already, and
\* an incomplete file is not acted upon.
FirstTrySucceeds == crashes = 0 => \A c \in Clients : cstep[c] # "sleep"

\* When start() has returned the file is the one of this run, not of a run that
\* was killed or of another channel, and the server listens where it says, on
\* the port and on the path.
FreshWhenStarted ==
    \A s \in Channels :
        step[s] = "done" =>
            LET f == file[InfoFile(s)] IN
            /\ f.ip /\ ListenerAt(f.port) = {s}
            /\ f.unix # NoPath => unixAt[f.unix] = s

\* Every client gets a connection, also when it began with a file of a run that
\* was killed, or with a Unix socket that does not answer.
EveryClientConnects == \A c \in Clients : <>(conn[c] # None)
=============================================================================
