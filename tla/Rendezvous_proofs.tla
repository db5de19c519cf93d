------------------------- MODULE Rendezvous_proofs --------------------------
(***************************************************************************)
(* Proofs about Rendezvous for every set of server names, however alike    *)
(* and however long, every set of clients and every number of kills.       *)
(***************************************************************************)
EXTENDS Rendezvous, FiniteSetTheorems, SequenceTheorems, TLAPS

-----------------------------------------------------------------------------
(* The inductive invariant *)

\* A server is bound to the port its loop ended with, and no two to the same.
Bound ==
    \A s \in Channels :
        /\ step[s] \in {"down", "bind"} => bound[s] = 0
        /\ step[s] \notin {"down", "bind"} => bound[s] = try[s]

OnePort == \A s, t \in Channels : bound[s] # 0 /\ bound[s] = bound[t] => s = t

\* What is in the file of a server, as far as this run has written it.
Written ==
    \A s \in Channels :
        LET f == file[InfoFile(s)] IN
        /\ step[s] \in {"port", "unixLine", "done"} => f.ip
        /\ step[s] \in {"unixLine", "done"} => f.port = bound[s]
        /\ step[s] \in {"ip", "port", "unixLine"} => f.unix = NoPath
        /\ step[s] = "done" /\ f.unix # NoPath => unixUp[s]
        /\ f.unix \in {NoPath, UnixFile(s)}

\* A path leads to the server it is named after.
Paths ==
    \A s \in Channels :
        /\ unixUp[s] => /\ step[s] \in {"open", "ip", "port", "unixLine", "done"}
                        /\ unixAt[UnixFile(s)] = s
        /\ unixAt[UnixFile(s)] \in {None, s}

\* What a client has read was in the file of its server.
Known ==
    \A c \in Clients :
        /\ info[c].unix \in {NoPath, UnixFile(ChannelOf[c])}
        /\ cstep[c] # "wait" => info[c].port # 0

\* Without a kill, a port that is published or was read is the server's.
Fresh ==
    crashes = 0 =>
        /\ \A s \in Channels :
              file[InfoFile(s)].port # 0 => Listening(s) /\ bound[s] = file[InfoFile(s)].port
        /\ \A c \in Clients :
              info[c].port # 0 =>
                  Listening(ChannelOf[c]) /\ bound[ChannelOf[c]] = info[c].port
        /\ \A c \in Clients : cstep[c] # "sleep"
        /\ RightServer

IInv == TypeOK /\ Bound /\ OnePort /\ Written /\ Paths /\ Known /\ Fresh

-----------------------------------------------------------------------------
(* The names of the files *)

\* A name that is shortened ends with its hash, another one with a character.
LEMMA ShortenedLast ==
    ASSUME NEW s \in Channels, NEW max \in Nat, NEW keep \in 0..max
    PROVE  LET f == Shortened(s, max, keep) IN
           /\ Len(s) <= max => f = s
           /\ Len(s) > max => f[Len(f)] = HashOf[s] /\ Len(f) = keep + 1
<1>1. s \in Seq(Chars) /\ Len(s) \in Nat
    BY RendezvousAssumption
<1>2. CASE Len(s) <= max
    BY <1>1, <1>2 DEF Shortened
<1>3. CASE Len(s) > max
    <2>1. keep \in Nat /\ keep <= Len(s)
        BY <1>1, <1>3
    <2>2. SubSeq(s, 1, keep) \in Seq(Chars) /\ Len(SubSeq(s, 1, keep)) = keep
        BY <1>1, <2>1
    <2> DEFINE u == SubSeq(s, 1, keep)
    <2>3. Append(u, HashOf[s])[Len(u) + 1] = HashOf[s] /\ Len(Append(u, HashOf[s])) = Len(u) + 1
        <3> HIDE DEF u
        <3>1. u \in Seq(Chars \cup {HashOf[s]})
            BY <2>2 DEF u
        <3>2. QED BY <3>1, AppendProperties
    <2>4. Shortened(s, max, keep) = Append(u, HashOf[s])
        BY <1>1, <1>3 DEF Shortened
    <2>5. QED BY <1>1, <1>3, <2>2, <2>3, <2>4
<1>4. QED BY <1>1, <1>2, <1>3

\* Different names give different files: what info_file_path() and
\* unix_socket_file() keep of a long name need not tell it from another one.
LEMMA ShortenedInjective ==
    ASSUME NEW s \in Channels, NEW t \in Channels, NEW max \in Nat, NEW keep \in 0..max,
           Shortened(s, max, keep) = Shortened(t, max, keep)
    PROVE  s = t
<1>1. /\ s \in Seq(Chars) /\ Len(s) \in Nat
      /\ t \in Seq(Chars) /\ Len(t) \in Nat
    BY RendezvousAssumption
<1>2. \A n \in Channels : Len(n) > 0 => n[Len(n)] \in Chars
    BY RendezvousAssumption
<1>3. CASE Len(s) <= max /\ Len(t) <= max
    BY <1>3, ShortenedLast
<1>4. CASE Len(s) > max /\ Len(t) > max
    <2>1. HashOf[s] = HashOf[t]
        BY <1>4, ShortenedLast
    <2>2. QED BY <2>1, HashAssumption
<1>5. CASE Len(s) <= max /\ Len(t) > max
    <2>1. s[Len(s)] = HashOf[t] /\ Len(s) > 0
        BY <1>5, ShortenedLast
    <2>2. QED BY <2>1, <1>2, HashAssumption
<1>6. CASE Len(s) > max /\ Len(t) <= max
    <2>1. t[Len(t)] = HashOf[s] /\ Len(t) > 0
        BY <1>6, ShortenedLast
    <2>2. QED BY <2>1, <1>2, HashAssumption
<1>7. QED BY <1>1, <1>3, <1>4, <1>5, <1>6

\* The facts about names that the steps below use.
LEMMA Names ==
    /\ \A s, t \in Channels : InfoFile(s) = InfoFile(t) => s = t
    /\ \A s, t \in Channels : UnixFile(s) = UnixFile(t) => s = t
    /\ \A s \in Channels : InfoFile(s) \in InfoFiles /\ UnixFile(s) \in UnixFiles
<1>1. \A s, t \in Channels : InfoFile(s) = InfoFile(t) => s = t
    BY RendezvousAssumption, ShortenedInjective DEF InfoFile
<1>2. \A s, t \in Channels : UnixFile(s) = UnixFile(t) => s = t
    BY RendezvousAssumption, ShortenedInjective DEF UnixFile
<1>3. QED BY <1>1, <1>2 DEF InfoFiles, UnixFiles

\* BASE_PORT is one of the ports, and 0 is none.
LEMMA PortsType == Ports \subseteq Nat \ {0} /\ (Channels # {} => 1 \in Ports)
<1>1. Cardinality(Channels) \in Nat
    BY RendezvousAssumption, FS_CardinalityType
<1>2. Channels # {} => Cardinality(Channels) # 0
    BY RendezvousAssumption, FS_EmptySet
<1>3. QED BY <1>1, <1>2, RendezvousAssumption DEF Ports

-----------------------------------------------------------------------------
(* The steps of a server *)

\* The loop starts again at BASE_PORT.
LEMMA ServerBeginInv == ASSUME IInv, NEW s \in Channels, ServerBegin(s) PROVE IInv'
<1>1. TypeOK'
    BY Names, PortsType, RendezvousAssumption
    DEF IInv, TypeOK, Steps, ClientSteps, Lines, Infos, ServerBegin, serverVars, clientVars
<1>2. Bound'
    BY PortsType
    DEF IInv, TypeOK, Bound, ServerBegin, serverVars, clientVars
<1>3. OnePort'
    BY PortsType
    DEF IInv, TypeOK, OnePort, Bound, ServerBegin, serverVars, clientVars
<1>4. Written'
    BY Names
    DEF IInv, TypeOK, Written, Bound, ServerBegin, serverVars, clientVars
<1>5. Paths'
    BY Names, RendezvousAssumption
    DEF IInv, TypeOK, Paths, ServerBegin, serverVars, clientVars
<1>6. Known'
    BY Names, RendezvousAssumption
    DEF IInv, TypeOK, Known, Written, ServerBegin, serverVars, clientVars
<1>7. Fresh'
    BY Names, PortsType, RendezvousAssumption
    DEF IInv, TypeOK, Fresh, RightServer, Listening, Known, Written, Bound, Paths, OnePort, ServerBegin, serverVars, clientVars
<1>8. QED BY <1>1, <1>2, <1>3, <1>4, <1>5, <1>6, <1>7 DEF IInv

\* A port that bind() takes is bound by no other server.
LEMMA ServerBindInv == ASSUME IInv, NEW s \in Channels, ServerBind(s) PROVE IInv'
<1>1. TypeOK'
    <2>1. step' \in [Channels -> Steps]
        BY DEF IInv, TypeOK, Steps, ServerBind, InUse
    <2>2. try' \in [Channels -> Ports]
        BY PortsType DEF IInv, TypeOK, ServerBind, InUse
    <2>3. bound' \in [Channels -> Ports \cup {0}]
        BY DEF IInv, TypeOK, ServerBind, InUse
    <2>4. QED
        BY <2>1, <2>2, <2>3 DEF IInv, TypeOK, ServerBind, InUse, serverVars, clientVars
<1>2. Bound'
    BY PortsType
    DEF IInv, TypeOK, Bound, ServerBind, InUse, serverVars, clientVars
<1>3. OnePort'
    BY PortsType
    DEF IInv, TypeOK, OnePort, Bound, ServerBind, InUse, serverVars, clientVars
<1>4. Written'
    BY Names
    DEF IInv, TypeOK, Written, Bound, ServerBind, InUse, serverVars, clientVars
<1>5. Paths'
    BY Names, RendezvousAssumption
    DEF IInv, TypeOK, Paths, ServerBind, InUse, serverVars, clientVars
<1>6. Known'
    BY Names, RendezvousAssumption
    DEF IInv, TypeOK, Known, Written, ServerBind, InUse, serverVars, clientVars
<1>7. Fresh'
    BY Names, PortsType, RendezvousAssumption
    DEF IInv, TypeOK, Fresh, RightServer, Listening, Known, Written, Bound, Paths, OnePort, ServerBind, InUse, serverVars, clientVars
<1>8. QED BY <1>1, <1>2, <1>3, <1>4, <1>5, <1>6, <1>7 DEF IInv

\* From here on the server's port may be known to clients.
LEMMA ServerListenInv == ASSUME IInv, NEW s \in Channels, ServerListen(s) PROVE IInv'
<1>1. TypeOK'
    BY Names, PortsType, RendezvousAssumption
    DEF IInv, TypeOK, Steps, ClientSteps, Lines, Infos, ServerListen, serverVars, clientVars
<1>2. Bound'
    BY PortsType
    DEF IInv, TypeOK, Bound, ServerListen, serverVars, clientVars
<1>3. OnePort'
    BY PortsType
    DEF IInv, TypeOK, OnePort, Bound, ServerListen, serverVars, clientVars
<1>4. Written'
    BY Names
    DEF IInv, TypeOK, Written, Bound, ServerListen, serverVars, clientVars
<1>5. Paths'
    BY Names, RendezvousAssumption
    DEF IInv, TypeOK, Paths, ServerListen, serverVars, clientVars
<1>6. Known'
    BY Names, RendezvousAssumption
    DEF IInv, TypeOK, Known, Written, ServerListen, serverVars, clientVars
<1>7. Fresh'
    BY Names, PortsType, RendezvousAssumption
    DEF IInv, TypeOK, Fresh, RightServer, Listening, Known, Written, Bound, Paths, OnePort, ServerListen, serverVars, clientVars
<1>8. QED BY <1>1, <1>2, <1>3, <1>4, <1>5, <1>6, <1>7 DEF IInv

\* Only the server itself takes, or removes, the path of its name.
LEMMA ServerUnixInv == ASSUME IInv, NEW s \in Channels, ServerUnix(s) PROVE IInv'
<1>1. TypeOK'
    <2>1. step' \in [Channels -> Steps]
        BY DEF IInv, TypeOK, Steps, ServerUnix
    <2>2. unixUp' \in [Channels -> BOOLEAN]
        BY DEF IInv, TypeOK, ServerUnix
    <2>3. unixAt' \in [UnixFiles -> Channels \cup {None}]
        BY Names, RendezvousAssumption DEF IInv, TypeOK, ServerUnix
    <2>4. QED
        BY <2>1, <2>2, <2>3 DEF IInv, TypeOK, ServerUnix, serverVars, clientVars
<1>2. Bound'
    BY PortsType
    DEF IInv, TypeOK, Bound, ServerUnix, serverVars, clientVars
<1>3. OnePort'
    BY PortsType
    DEF IInv, TypeOK, OnePort, Bound, ServerUnix, serverVars, clientVars
<1>4. Written'
    BY Names
    DEF IInv, TypeOK, Written, Bound, ServerUnix, serverVars, clientVars
<1>5. Paths'
    BY Names, RendezvousAssumption
    DEF IInv, TypeOK, Paths, ServerUnix, serverVars, clientVars
<1>6. Known'
    BY Names, RendezvousAssumption
    DEF IInv, TypeOK, Known, Written, ServerUnix, serverVars, clientVars
<1>7. Fresh'
    BY Names, PortsType, RendezvousAssumption
    DEF IInv, TypeOK, Fresh, RightServer, Listening, Known, Written, Bound, Paths, OnePort, ServerUnix, serverVars, clientVars
<1>8. QED BY <1>1, <1>2, <1>3, <1>4, <1>5, <1>6, <1>7 DEF IInv

\* What a previous run has written is gone before a line of this run is there.
LEMMA ServerOpenInv == ASSUME IInv, NEW s \in Channels, ServerOpen(s) PROVE IInv'
<1>1. TypeOK'
    BY Names, PortsType, RendezvousAssumption
    DEF IInv, TypeOK, Steps, ClientSteps, Lines, Infos, ServerOpen, NoLines, serverVars, clientVars
<1>2. Bound'
    BY PortsType
    DEF IInv, TypeOK, Bound, ServerOpen, NoLines, serverVars, clientVars
<1>3. OnePort'
    BY PortsType
    DEF IInv, TypeOK, OnePort, Bound, ServerOpen, NoLines, serverVars, clientVars
<1>4. Written'
    BY Names
    DEF IInv, TypeOK, Written, Bound, ServerOpen, NoLines, serverVars, clientVars
<1>5. Paths'
    BY Names, RendezvousAssumption
    DEF IInv, TypeOK, Paths, ServerOpen, NoLines, serverVars, clientVars
<1>6. Known'
    BY Names, RendezvousAssumption
    DEF IInv, TypeOK, Known, Written, ServerOpen, NoLines, serverVars, clientVars
<1>7. Fresh'
    BY Names, PortsType, RendezvousAssumption
    DEF IInv, TypeOK, Fresh, RightServer, Listening, Known, Written, Bound, Paths, OnePort, ServerOpen, NoLines, serverVars, clientVars
<1>8. QED BY <1>1, <1>2, <1>3, <1>4, <1>5, <1>6, <1>7 DEF IInv

\* The address alone makes no complete file.
LEMMA ServerWriteIpInv == ASSUME IInv, NEW s \in Channels, ServerWriteIp(s) PROVE IInv'
<1>1. TypeOK'
    <2>1. step' \in [Channels -> Steps]
        BY DEF IInv, TypeOK, Steps, ServerWriteIp
    <2>2. file' \in [InfoFiles -> Lines]
        BY Names, RendezvousAssumption DEF IInv, TypeOK, Lines, ServerWriteIp
    <2>3. QED
        BY <2>1, <2>2 DEF IInv, TypeOK, ServerWriteIp, serverVars, clientVars
<1>2. Bound'
    BY PortsType
    DEF IInv, TypeOK, Bound, ServerWriteIp, serverVars, clientVars
<1>3. OnePort'
    BY PortsType
    DEF IInv, TypeOK, OnePort, Bound, ServerWriteIp, serverVars, clientVars
<1>4. Written'
    BY Names
    DEF IInv, TypeOK, Written, Bound, ServerWriteIp, serverVars, clientVars
<1>5. Paths'
    BY Names, RendezvousAssumption
    DEF IInv, TypeOK, Paths, ServerWriteIp, serverVars, clientVars
<1>6. Known'
    BY Names, RendezvousAssumption
    DEF IInv, TypeOK, Known, Written, ServerWriteIp, serverVars, clientVars
<1>7. Fresh'
    BY Names, PortsType, RendezvousAssumption
    DEF IInv, TypeOK, Fresh, RightServer, Listening, Known, Written, Bound, Paths, OnePort, ServerWriteIp, serverVars, clientVars
<1>8. QED BY <1>1, <1>2, <1>3, <1>4, <1>5, <1>6, <1>7 DEF IInv

\* The port that is published is the one that is bound, and listens.
LEMMA ServerWritePortInv == ASSUME IInv, NEW s \in Channels, ServerWritePort(s) PROVE IInv'
<1>1. TypeOK'
    <2>1. step' \in [Channels -> Steps]
        BY DEF IInv, TypeOK, Steps, ServerWritePort
    <2>2. file' \in [InfoFiles -> Lines]
        BY Names, RendezvousAssumption DEF IInv, TypeOK, Lines, ServerWritePort
    <2>3. QED
        BY <2>1, <2>2 DEF IInv, TypeOK, ServerWritePort, serverVars, clientVars
<1>2. Bound'
    BY PortsType
    DEF IInv, TypeOK, Bound, ServerWritePort, serverVars, clientVars
<1>3. OnePort'
    BY PortsType
    DEF IInv, TypeOK, OnePort, Bound, ServerWritePort, serverVars, clientVars
<1>4. Written'
    BY Names
    DEF IInv, TypeOK, Written, Bound, ServerWritePort, serverVars, clientVars
<1>5. Paths'
    BY Names, RendezvousAssumption
    DEF IInv, TypeOK, Paths, ServerWritePort, serverVars, clientVars
<1>6. Known'
    BY Names, RendezvousAssumption
    DEF IInv, TypeOK, Known, Written, ServerWritePort, serverVars, clientVars
<1>7. Fresh'
    BY Names, PortsType, RendezvousAssumption
    DEF IInv, TypeOK, Fresh, RightServer, Listening, Known, Written, Bound, Paths, OnePort, ServerWritePort, serverVars, clientVars
<1>8. QED BY <1>1, <1>2, <1>3, <1>4, <1>5, <1>6, <1>7 DEF IInv

\* The path that is published is the server's own, and bound.
LEMMA ServerWriteUnixInv == ASSUME IInv, NEW s \in Channels, ServerWriteUnix(s) PROVE IInv'
<1>1. TypeOK'
    <2>1. step' \in [Channels -> Steps]
        BY DEF IInv, TypeOK, Steps, ServerWriteUnix
    <2>2. file' \in [InfoFiles -> Lines]
        <3> DEFINE line == IF unixUp[s] THEN UnixFile(s) ELSE NoPath
        <3>1. line \in UnixFiles \cup {NoPath}
            BY Names
        <3>2. file' = [file EXCEPT ![InfoFile(s)].unix = line]
            BY DEF ServerWriteUnix
        <3>3. file \in [InfoFiles -> Lines]
            BY DEF IInv, TypeOK
        <3> HIDE DEF line
        <3>4. QED BY <3>1, <3>2, <3>3 DEF Lines
    <2>3. QED
        BY <2>1, <2>2 DEF IInv, TypeOK, ServerWriteUnix, serverVars, clientVars
<1>2. Bound'
    BY PortsType
    DEF IInv, TypeOK, Bound, ServerWriteUnix, serverVars, clientVars
<1>3. OnePort'
    BY PortsType
    DEF IInv, TypeOK, OnePort, Bound, ServerWriteUnix, serverVars, clientVars
<1>4. Written'
    BY Names
    DEF IInv, TypeOK, Written, Bound, ServerWriteUnix, serverVars, clientVars
<1>5. Paths'
    BY Names, RendezvousAssumption
    DEF IInv, TypeOK, Paths, ServerWriteUnix, serverVars, clientVars
<1>6. Known'
    BY Names, RendezvousAssumption
    DEF IInv, TypeOK, Known, Written, ServerWriteUnix, serverVars, clientVars
<1>7. Fresh'
    BY Names, PortsType, RendezvousAssumption
    DEF IInv, TypeOK, Fresh, RightServer, Listening, Known, Written, Bound, Paths, OnePort, ServerWriteUnix, serverVars, clientVars
<1>8. QED BY <1>1, <1>2, <1>3, <1>4, <1>5, <1>6, <1>7 DEF IInv

\* A kill: from here on the parts that hold without one say nothing.
LEMMA ServerCrashInv == ASSUME IInv, NEW s \in Channels, ServerCrash(s) PROVE IInv'
<1>1. TypeOK'
    <2>1. step' \in [Channels -> Steps]
        BY DEF IInv, TypeOK, Steps, ServerCrash
    <2>2. bound' \in [Channels -> Ports \cup {0}]
        BY DEF IInv, TypeOK, ServerCrash
    <2>3. unixUp' \in [Channels -> BOOLEAN]
        BY DEF IInv, TypeOK, ServerCrash
    <2>4. unixAt' \in [UnixFiles -> Channels \cup {None}]
        BY Names, RendezvousAssumption DEF IInv, TypeOK, ServerCrash
    <2>5. linger' \subseteq Ports
        <3>1. bound[s] \in Ports \cup {0} /\ linger \subseteq Ports
            BY DEF IInv, TypeOK
        <3>2. linger' = linger \/ (bound[s] # 0 /\ linger' = linger \cup {bound[s]})
            BY DEF ServerCrash
        <3>3. QED BY <3>1, <3>2
    <2>6. crashes' \in 0..MaxCrash
        BY RendezvousAssumption DEF IInv, TypeOK, ServerCrash
    <2>7. QED
        BY <2>1, <2>2, <2>3, <2>4, <2>5, <2>6 DEF IInv, TypeOK, ServerCrash, clientVars
<1>2. Bound'
    BY PortsType
    DEF IInv, TypeOK, Bound, ServerCrash, serverVars, clientVars
<1>3. OnePort'
    BY PortsType
    DEF IInv, TypeOK, OnePort, Bound, ServerCrash, serverVars, clientVars
<1>4. Written'
    BY Names
    DEF IInv, TypeOK, Written, Bound, ServerCrash, serverVars, clientVars
<1>5. Paths'
    BY Names, RendezvousAssumption
    DEF IInv, TypeOK, Paths, ServerCrash, serverVars, clientVars
<1>6. Known'
    BY Names, RendezvousAssumption
    DEF IInv, TypeOK, Known, Written, ServerCrash, serverVars, clientVars
<1>7. Fresh'
    BY Names, PortsType, RendezvousAssumption
    DEF IInv, TypeOK, Fresh, RightServer, Listening, Known, Written, Bound, Paths, OnePort, ServerCrash, serverVars, clientVars
<1>8. QED BY <1>1, <1>2, <1>3, <1>4, <1>5, <1>6, <1>7 DEF IInv

\* A port that is let go is bound by nobody.
LEMMA LingerEndsInv == ASSUME IInv, NEW p \in Ports, LingerEnds(p) PROVE IInv'
<1>1. TypeOK'
    BY Names, PortsType, RendezvousAssumption
    DEF IInv, TypeOK, Steps, ClientSteps, Lines, Infos, LingerEnds, serverVars, clientVars
<1>2. Bound'
    BY PortsType
    DEF IInv, TypeOK, Bound, LingerEnds, serverVars, clientVars
<1>3. OnePort'
    BY PortsType
    DEF IInv, TypeOK, OnePort, Bound, LingerEnds, serverVars, clientVars
<1>4. Written'
    BY Names
    DEF IInv, TypeOK, Written, Bound, LingerEnds, serverVars, clientVars
<1>5. Paths'
    BY Names, RendezvousAssumption
    DEF IInv, TypeOK, Paths, LingerEnds, serverVars, clientVars
<1>6. Known'
    BY Names, RendezvousAssumption
    DEF IInv, TypeOK, Known, Written, LingerEnds, serverVars, clientVars
<1>7. Fresh'
    BY Names, PortsType, RendezvousAssumption
    DEF IInv, TypeOK, Fresh, RightServer, Listening, Known, Written, Bound, Paths, OnePort, LingerEnds, serverVars, clientVars
<1>8. QED BY <1>1, <1>2, <1>3, <1>4, <1>5, <1>6, <1>7 DEF IInv

-----------------------------------------------------------------------------
(* The steps of a client *)

\* A client leaves the servers and their files alone.
LEMMA ServersKept ==
    ASSUME IInv, UNCHANGED <<serverVars, file>>
    PROVE  Bound' /\ OnePort' /\ Written' /\ Paths'
BY DEF IInv, Bound, OnePort, Written, Paths, serverVars

\* The client reads its file, or keeps what it has when the file is incomplete.
LEMMA ReadInfoFacts ==
    ASSUME IInv, NEW c \in Clients, ReadInfo(c)
    PROVE  LET f == file[InfoFile(ChannelOf[c])] IN
           /\ info' \in [Clients -> Infos]
           /\ \A d \in Clients : d # c => info'[d] = info[d]
           /\ Complete(f) => info'[c].port = f.port /\ info'[c].port # 0
                             /\ info'[c].unix = f.unix
           /\ ~Complete(f) => info'[c] = info[c]
<1> DEFINE f == file[InfoFile(ChannelOf[c])]
<1>1. f \in Lines /\ info \in [Clients -> Infos]
    BY Names, RendezvousAssumption DEF IInv, TypeOK
<1>2. CASE Complete(f)
    <2>1. info' = [info EXCEPT ![c] = [port |-> f.port, unix |-> f.unix]]
        BY <1>2 DEF ReadInfo
    <2>2. [port |-> f.port, unix |-> f.unix] \in Infos
        BY <1>1 DEF Lines, Infos
    <2>3. f.port # 0
        BY <1>2 DEF Complete
    <2> HIDE DEF f
    <2>4. /\ info' \in [Clients -> Infos]
          /\ \A d \in Clients : d # c => info'[d] = info[d]
          /\ info'[c] = [port |-> f.port, unix |-> f.unix]
        BY <1>1, <2>1, <2>2
    <2>5. QED BY <1>2, <2>3, <2>4 DEF f
<1>3. CASE ~Complete(f)
    BY <1>1, <1>3 DEF ReadInfo
<1>4. QED BY <1>2, <1>3

\* What the file gives is the path of the server, and its port while nobody is
\* killed.
LEMMA ReadInfoKnown ==
    ASSUME IInv, NEW c \in Clients, ReadInfo(c), UNCHANGED <<serverVars, file, crashes>>
    PROVE  /\ \A d \in Clients : info'[d].unix \in {NoPath, UnixFile(ChannelOf[d])}
           /\ \A d \in Clients : info[d].port # 0 => info'[d].port # 0
           /\ crashes = 0 =>
                \A d \in Clients :
                    info'[d].port # 0 =>
                        Listening(ChannelOf[d]) /\ bound[ChannelOf[d]] = info'[d].port
<1> DEFINE f == file[InfoFile(ChannelOf[c])]
<1>1. ChannelOf[c] \in Channels
    BY RendezvousAssumption
<1>2. f.unix \in {NoPath, UnixFile(ChannelOf[c])}
    BY <1>1 DEF IInv, Written
<1>3. crashes = 0 /\ f.port # 0 => Listening(ChannelOf[c]) /\ bound[ChannelOf[c]] = f.port
    BY <1>1 DEF IInv, Fresh
<1>4. /\ \A d \in Clients : info[d].unix \in {NoPath, UnixFile(ChannelOf[d])}
      /\ crashes = 0 =>
            \A d \in Clients :
                info[d].port # 0 =>
                    Listening(ChannelOf[d]) /\ bound[ChannelOf[d]] = info[d].port
    BY DEF IInv, Known, Fresh
<1>5. /\ \A d \in Clients : d # c => info'[d] = info[d]
      /\ Complete(f) => info'[c].port = f.port /\ info'[c].port # 0 /\ info'[c].unix = f.unix
      /\ ~Complete(f) => info'[c] = info[c]
    BY ReadInfoFacts
<1> HIDE DEF f
<1>6. QED BY <1>2, <1>3, <1>4, <1>5

\* While nobody is killed only the client's own server listens on the port it read.
LEMMA OwnPort ==
    ASSUME IInv, crashes = 0, NEW c \in Clients
    PROVE  /\ ListenerAt(info[c].port) \subseteq {ChannelOf[c]}
           /\ info[c].port # 0 => ChannelOf[c] \in ListenerAt(info[c].port)
<1>1. ChannelOf[c] \in Channels
    BY RendezvousAssumption
<1>2. info[c].port # 0 => Listening(ChannelOf[c]) /\ bound[ChannelOf[c]] = info[c].port
    BY DEF IInv, Fresh
<1>3. ASSUME NEW s \in Channels, Listening(s), bound[s] = info[c].port
      PROVE  s = ChannelOf[c]
    <2>1. bound[s] = try[s] /\ try[s] \in Ports
        BY <1>3 DEF IInv, TypeOK, Bound, Listening
    <2>2. bound[s] # 0
        BY <2>1, PortsType
    <2>3. QED BY <1>1, <1>2, <1>3, <2>2 DEF IInv, OnePort
<1>4. QED BY <1>1, <1>2, <1>3 DEF ListenerAt

\* A complete file: the client has what it says.
LEMMA ClientWaitInv == ASSUME IInv, NEW c \in Clients, ClientWait(c) PROVE IInv'
<1>1. TypeOK'
    <2>1. cstep' \in [Clients -> ClientSteps]
        BY DEF IInv, TypeOK, ClientSteps, ClientWait
    <2>2. info' \in [Clients -> Infos]
        BY ReadInfoFacts DEF ClientWait
    <2>3. QED BY <2>1, <2>2 DEF IInv, TypeOK, ClientWait, serverVars
<1>2. Bound' /\ OnePort' /\ Written' /\ Paths'
    BY ServersKept DEF ClientWait
<1>3. Known'
    <2>1. \A d \in Clients : info'[d].unix \in {NoPath, UnixFile(ChannelOf[d])}
        BY ReadInfoKnown DEF ClientWait
    <2>2. info'[c].port # 0
        BY ReadInfoFacts DEF ClientWait
    <2>3. \A d \in Clients : d # c => info'[d] = info[d] /\ cstep'[d] = cstep[d]
        BY ReadInfoFacts DEF ClientWait, IInv, TypeOK
    <2>4. QED BY <2>1, <2>2, <2>3 DEF IInv, Known
<1>4. Fresh'
    <2>1. \A d \in Clients : cstep'[d] \in {cstep[d], "unix"}
        BY DEF IInv, TypeOK, ClientWait
    <2>2. QED BY <2>1, ReadInfoKnown DEF IInv, Fresh, RightServer, Listening, ClientWait, serverVars
<1>5. QED BY <1>1, <1>2, <1>3, <1>4 DEF IInv

\* Without a kill no client comes here.
LEMMA ClientRereadInv == ASSUME IInv, NEW c \in Clients, ClientReread(c) PROVE IInv'
<1>1. TypeOK'
    <2>1. cstep' \in [Clients -> ClientSteps]
        BY DEF IInv, TypeOK, ClientSteps, ClientReread
    <2>2. info' \in [Clients -> Infos]
        BY ReadInfoFacts DEF ClientReread
    <2>3. QED BY <2>1, <2>2 DEF IInv, TypeOK, ClientReread, serverVars
<1>2. Bound' /\ OnePort' /\ Written' /\ Paths'
    BY ServersKept DEF ClientReread
<1>3. Known'
    <2>1. /\ \A d \in Clients : info'[d].unix \in {NoPath, UnixFile(ChannelOf[d])}
          /\ \A d \in Clients : info[d].port # 0 => info'[d].port # 0
        BY ReadInfoKnown DEF ClientReread
    <2>2. \A d \in Clients : cstep'[d] # "wait" => cstep[d] # "wait"
        BY DEF ClientReread, IInv, TypeOK
    <2>3. QED BY <2>1, <2>2 DEF IInv, Known
<1>4. Fresh'
    BY DEF IInv, Fresh, ClientReread
<1>5. QED BY <1>1, <1>2, <1>3, <1>4 DEF IInv

\* A client that connects, or goes on to another step of Client::start().
LEMMA ClientMoves ==
    ASSUME IInv, NEW c \in Clients, cstep[c] # "wait",
           UNCHANGED <<serverVars, file, linger, crashes, info>>,
           \/ \E s \in Channels : Connected(c, s) /\ (crashes = 0 => s = ChannelOf[c])
           \/ Goes(c, "tcp")
           \/ Goes(c, "sleep") /\ crashes # 0
    PROVE  IInv'
<1>1. /\ cstep \in [Clients -> ClientSteps]
      /\ conn \in [Clients -> Channels \cup {None}]
    BY DEF IInv, TypeOK
<1>2. /\ cstep' \in [Clients -> ClientSteps]
      /\ conn' \in [Clients -> Channels \cup {None}]
    BY <1>1 DEF ClientSteps, Connected, Goes
<1>3. /\ \A d \in Clients : cstep'[d] # "wait" => cstep[d] # "wait"
      /\ crashes = 0 => \A d \in Clients : /\ cstep'[d] = "sleep" => cstep[d] = "sleep"
                                           /\ conn'[d] \in {conn[d], ChannelOf[d]}
    BY <1>1 DEF Connected, Goes
<1>4. TypeOK'
    BY <1>2 DEF IInv, TypeOK, serverVars
<1>5. Bound' /\ OnePort' /\ Written' /\ Paths'
    BY ServersKept
<1>6. Known'
    BY <1>3 DEF IInv, Known
<1>7. Fresh'
    BY <1>3 DEF IInv, Fresh, RightServer, Listening, serverVars
<1>8. QED BY <1>4, <1>5, <1>6, <1>7 DEF IInv

\* The path leads to the server of the client's name.
LEMMA ClientTryUnixInv == ASSUME IInv, NEW c \in Clients, ClientTryUnix(c) PROVE IInv'
<1> DEFINE s == UnixListener(c)
<1>1. s # None => s = ChannelOf[c]
    <2>1. ChannelOf[c] \in Channels
        BY RendezvousAssumption
    <2>2. s # None => info[c].unix = UnixFile(ChannelOf[c]) /\ s = unixAt[UnixFile(ChannelOf[c])]
        BY DEF IInv, Known, UnixListener
    <2>3. QED BY <2>1, <2>2 DEF IInv, Paths
<1>2. ChannelOf[c] \in Channels
    BY RendezvousAssumption
<1>3. \/ Connected(c, ChannelOf[c])
      \/ Goes(c, "tcp")
    BY <1>1 DEF ClientTryUnix
<1>4. cstep[c] # "wait" /\ UNCHANGED <<serverVars, file, linger, crashes, info>>
    BY DEF ClientTryUnix
<1>5. QED BY <1>2, <1>3, <1>4, ClientMoves

\* Without a kill, so does the port.
LEMMA ClientTryTcpInv == ASSUME IInv, NEW c \in Clients, ClientTryTcp(c) PROVE IInv'
<1>1. cstep[c] = "tcp" /\ UNCHANGED <<serverVars, file, linger, crashes, info>>
    BY DEF ClientTryTcp
<1>2. CASE \E s \in ListenerAt(info[c].port) : Connected(c, s)
    <2>1. PICK s \in ListenerAt(info[c].port) : Connected(c, s)
        BY <1>2
    <2>2. s \in Channels
        BY DEF ListenerAt
    <2>3. crashes = 0 => s = ChannelOf[c]
        BY OwnPort
    <2>4. QED BY <1>1, <2>1, <2>2, <2>3, ClientMoves
<1>3. CASE ListenerAt(info[c].port) = {} /\ Goes(c, "sleep")
    <2>1. info[c].port # 0
        BY <1>1 DEF IInv, Known
    <2>2. crashes # 0
        BY <1>3, <2>1, OwnPort
    <2>3. QED BY <1>1, <1>3, <2>2, ClientMoves
<1>4. QED BY <1>2, <1>3 DEF ClientTryTcp

-----------------------------------------------------------------------------
(* The theorems *)

\* The inductive invariant holds at the beginning.
LEMMA InitInv == Init => IInv
<1> SUFFICES ASSUME Init PROVE IInv
    OBVIOUS
<1>1. TypeOK
    <2>1. try \in [Channels -> Ports]
        BY PortsType DEF Init
    <2>2. QED
        BY <2>1, RendezvousAssumption
        DEF Init, TypeOK, Steps, ClientSteps, Lines, Infos, NoLines
<1>2. Bound /\ OnePort
    BY DEF Init, Bound, OnePort
<1>3. Written /\ Paths
    BY Names DEF Init, Written, Paths, NoLines
<1>4. Known /\ Fresh
    BY Names DEF Init, Known, Fresh, RightServer, NoLines
<1>5. QED BY <1>1, <1>2, <1>3, <1>4 DEF IInv

\* Every action, and a stutter, preserves it.
LEMMA NextInv == IInv /\ [Next]_vars => IInv'
<1> SUFFICES ASSUME IInv, [Next]_vars PROVE IInv'
    OBVIOUS
<1>1. ASSUME NEW s \in Channels, ServerStart(s) PROVE IInv'
    BY <1>1, ServerBeginInv, ServerBindInv, ServerListenInv, ServerUnixInv, ServerOpenInv,
       ServerWriteIpInv, ServerWritePortInv, ServerWriteUnixInv DEF ServerStart
<1>2. ASSUME NEW s \in Channels, ServerCrash(s) PROVE IInv'
    BY <1>2, ServerCrashInv
<1>3. ASSUME NEW p \in Ports, LingerEnds(p) PROVE IInv'
    BY <1>3, LingerEndsInv
<1>4. ASSUME NEW c \in Clients, ClientStart(c) PROVE IInv'
    BY <1>4, ClientWaitInv, ClientTryUnixInv, ClientTryTcpInv, ClientRereadInv DEF ClientStart
<1>5. CASE UNCHANGED vars
    <2>1. TypeOK' /\ Known'
        BY <1>5 DEF IInv, TypeOK, Known, vars, serverVars, clientVars
    <2>2. Bound' /\ OnePort' /\ Written' /\ Paths'
        BY <1>5, ServersKept DEF vars
    <2>3. Fresh'
        BY <1>5 DEF IInv, Fresh, RightServer, Listening, vars, serverVars, clientVars
    <2>4. QED BY <2>1, <2>2, <2>3 DEF IInv
<1>6. QED BY <1>1, <1>2, <1>3, <1>4, <1>5 DEF Next

\* The inductive invariant holds in every state of every run.
THEOREM Invariance == Spec => []IInv
<1>1. Init => IInv
    BY InitInv
<1>2. IInv /\ [Next]_vars => IInv'
    BY NextInv
<1>3. QED BY <1>1, <1>2, PTL DEF Spec

\* The variables of Server::start() and Client::start() keep their types.
THEOREM TypeCorrect == Spec => []TypeOK
<1>1. IInv => TypeOK
    BY DEF IInv
<1>2. QED BY <1>1, Invariance, PTL

\* While no server was killed a client is connected to the server of its name,
\* whatever names there are: the files and paths of different names are told apart,
\* and a port that was published is taken by nobody else.
THEOREM RightServerHolds == Spec => []RightServerUntilCrash
<1>1. IInv => RightServerUntilCrash
    BY DEF IInv, Fresh, RightServerUntilCrash
<1>2. QED BY <1>1, Invariance, PTL

\* While no server was killed no client has to try twice.
THEOREM FirstTryHolds == Spec => []FirstTrySucceeds
<1>1. IInv => FirstTrySucceeds
    BY DEF IInv, Fresh, FirstTrySucceeds
<1>2. QED BY <1>1, Invariance, PTL

\* A server that has started has published itself, after any number of kills.
THEOREM FreshHolds == Spec => []FreshWhenStarted
<1>1. ASSUME IInv, NEW s \in Channels, step[s] = "done"
      PROVE  LET f == file[InfoFile(s)] IN
             /\ f.ip /\ ListenerAt(f.port) = {s}
             /\ f.unix # NoPath => unixAt[f.unix] = s
    <2> DEFINE f == file[InfoFile(s)]
    <2>1. f.ip /\ f.port = bound[s] /\ (f.unix # NoPath => f.unix = UnixFile(s) /\ unixUp[s])
        BY <1>1 DEF IInv, Written
    <2>2. bound[s] = try[s] /\ try[s] \in Ports
        BY <1>1 DEF IInv, TypeOK, Bound
    <2>3. bound[s] # 0 /\ Listening(s)
        BY <1>1, <2>2, PortsType DEF Listening
    <2>4. ListenerAt(bound[s]) = {s}
        BY <1>1, <2>3 DEF ListenerAt, IInv, OnePort
    <2>5. f.unix # NoPath => unixAt[f.unix] = s
        BY <1>1, <2>1 DEF IInv, Paths
    <2>6. QED BY <2>1, <2>4, <2>5
<1>2. IInv => FreshWhenStarted
    BY <1>1 DEF FreshWhenStarted
<1>3. QED BY <1>2, Invariance, PTL
=============================================================================
