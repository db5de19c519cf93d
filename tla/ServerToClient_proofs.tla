----------------------- MODULE ServerToClient_proofs -----------------------
(***************************************************************************)
(* Proofs about ServerToClient for any clients, on either kind of socket,  *)
(* with any number of items, and for all buffer sizes and delays.          *)
(***************************************************************************)
EXTENDS ServerToClient, SequenceTheorems, TLAPS

-----------------------------------------------------------------------------
(* The inductive invariant *)

\* A client that waits has an empty register.
WaitIsEmpty == \A c \in Clients : left[c] # 0 => ~outVld[c]

\* The item that is retried is the last one that was taken.
Kept == ~rdy => item > 1 /\ dataQ = item - 1

\* Number of items sent: all that were taken but the one kept for its retry.
Sent == IF rdy THEN item - 1 ELSE item - 2

Once(q) == \A i, j \in 1..Len(q) : q[i] = q[j] => i = j

\* No push has found the connection of c yet.
Fresh(c) == state[c] = "down" \/ Pending(c)

\* A client connects once: it is in a backlog once, and the accepted one in none.
ConnectsOnce ==
    /\ Once(unixQ) /\ Once(tcpQ)
    /\ \A c \in Clients : Pending(c) => state[c] # "down"
    /\ \A c \in Clients : Fresh(c) => sock # c

\* Nothing was sent to a client before a push accepted it.
FreshIsEmpty == \A c \in Clients : Fresh(c) => Stream(c) = <<>>

\* Only items were sent, each to one client.
EachToOne ==
    /\ \A c \in Clients : \A i \in 1..Len(Stream(c)) : Stream(c)[i] \in 1..Sent
    /\ \A n \in 1..Sent :
          /\ \E c \in Clients : SentTo(c, n)
          /\ \A c, d \in Clients : SentTo(c, n) /\ SentTo(d, n) => c = d

\* The accepted client was sent the last item, or nothing yet: what is sent to it
\* next continues its stream.
LastToAccepted ==
    \A c \in Clients : sock = c /\ Stream(c) # <<>> => Stream(c)[Len(Stream(c))] = Sent

Streams == FreshIsEmpty /\ EachToOne /\ LastToAccepted /\ Consecutive

IInv == TypeOK /\ WaitIsEmpty /\ Kept /\ ConnectsOnce /\ Streams

\* A stream is a sequence of items.
LEMMA StreamType ==
    ASSUME TypeOK, NEW c \in Clients
    PROVE  Stream(c) \in Seq(Nat)
BY DEF TypeOK, Stream, InRegister

\* Where a stream is split does not matter.
LEMMA StreamParts ==
    ASSUME NEW s \in Seq(Nat), NEW t \in Seq(Nat), NEW u \in Seq(Nat)
    PROVE  (s \o t) \o u = s \o (t \o u)
BY ConcatAssociative

\* The number of items sent is a number.
LEMMA SentType == ASSUME TypeOK, Kept PROVE Sent \in Nat
BY DEF TypeOK, Kept, Sent

-----------------------------------------------------------------------------
(* The clients' end: no posedge of a client changes what it was sent *)

\* The register goes into its user's hands, or is empty already.
LEMMA ConsumeKeeps ==
    ASSUME TypeOK, NEW c \in Clients, NEW ready \in BOOLEAN, Consume(c, ready),
           ~outVld[c] \/ ready
    PROVE  /\ got' \in [Clients -> Seq(Nat)]
           /\ got'[c] = got[c] \o InRegister(c)
           /\ \A d \in Clients : d # c => got'[d] = got[d]
<1>1. /\ got \in [Clients -> Seq(Nat)] /\ out[c] \in Nat /\ got[c] \in Seq(Nat)
      /\ outVld \in [Clients -> BOOLEAN]
    BY DEF TypeOK
<1>2. CASE outVld[c]
    <2>1. got' = [got EXCEPT ![c] = Append(got[c], out[c])] /\ InRegister(c) = <<out[c]>>
        BY <1>2 DEF Consume, InRegister
    <2>2. Append(got[c], out[c]) = got[c] \o <<out[c]>> /\ Append(got[c], out[c]) \in Seq(Nat)
        BY <1>1, AppendIsConcat, AppendProperties
    <2>3. QED BY <1>1, <2>1, <2>2
<1>3. CASE ~outVld[c]
    BY <1>1, <1>3 DEF Consume, InRegister
<1>4. QED BY <1>1, <1>2, <1>3

\* The user of a client has a free register whenever the module calls or begins to wait.
LEMMA RegisterIsFree ==
    ASSUME TypeOK, WaitIsEmpty, NEW c \in Clients, NEW ready \in BOOLEAN,
           AtTop(c, ready) \/ left[c] # 0
    PROVE  ~outVld[c] \/ ready
BY DEF TypeOK, WaitIsEmpty, AtTop

\* A client changes only its own wires, registers and connection.
LEMMA OthersKept ==
    ASSUME TypeOK, NEW c \in Clients, NEW ready \in BOOLEAN, ClientPosedge(c, ready),
           NEW d \in Clients, d # c, got'[d] = got[d]
    PROVE  Stream(d)' = Stream(d) /\ left'[d] = left[d] /\ outVld'[d] = outVld[d]
<1>1. wire'[d] = wire[d] /\ out'[d] = out[d] /\ left'[d] = left[d] /\ outVld'[d] = outVld[d]
    BY DEF TypeOK, ClientPosedge, WaitBegin, BeginWait, WaitStep, PullOk, PullMessage, PullFail
<1>2. QED BY <1>1 DEF Stream, InRegister

\* The wait between two calls.
LEMMA WaitKeeps ==
    ASSUME TypeOK, WaitIsEmpty, NEW c \in Clients, NEW ready \in BOOLEAN,
           WaitBegin(c, ready) \/ WaitStep(c, ready)
    PROVE  TypeOK' /\ WaitIsEmpty' /\ \A d \in Clients : Stream(d)' = Stream(d)
<1>1. /\ outVld' = [outVld EXCEPT ![c] = FALSE] /\ Consume(c, ready)
      /\ UNCHANGED <<pushVars, connVars, state, wire, delay, out>>
      /\ left' \in [Clients -> Nat]
    <2>1. CASE WaitBegin(c, ready)
        BY <2>1 DEF TypeOK, WaitBegin, BeginWait
    <2>2. CASE WaitStep(c, ready)
        <3>1. left[c] - 1 \in Nat
            BY <2>2 DEF TypeOK, WaitStep
        <3>2. QED BY <2>2, <3>1 DEF TypeOK, WaitStep
    <2>3. QED BY <2>1, <2>2
<1>2. ~outVld[c] \/ ready
    BY RegisterIsFree DEF TypeOK, WaitBegin, BeginWait, WaitStep
<1>3. /\ got' \in [Clients -> Seq(Nat)]
      /\ got'[c] = got[c] \o InRegister(c)
      /\ \A d \in Clients : d # c => got'[d] = got[d]
    BY <1>1, <1>2, ConsumeKeeps
<1>4. TypeOK'
    BY <1>1, <1>3 DEF TypeOK, pushVars, connVars
<1>5. Stream(c)' = Stream(c)
    <2>1. InRegister(c)' = <<>> /\ wire'[c] = wire[c]
        BY <1>1 DEF TypeOK, InRegister
    <2>2. got'[c] \in Seq(Nat) /\ wire[c] \in Seq(Nat)
        BY <1>3 DEF TypeOK
    <2>3. QED BY <1>3, <2>1, <2>2 DEF Stream
<1>6. \A d \in Clients : d # c => Stream(d)' = Stream(d) /\ left'[d] = left[d] /\ outVld'[d] = outVld[d]
    BY <1>3, OthersKept DEF ClientPosedge
<1>7. ~outVld'[c]
    BY <1>1 DEF TypeOK
<1>8. QED BY <1>4, <1>5, <1>6, <1>7 DEF WaitIsEmpty

\* A message goes from the connection to the register.
LEMMA PullOkKeeps ==
    ASSUME TypeOK, WaitIsEmpty, NEW c \in Clients, NEW ready \in BOOLEAN, PullOk(c, ready)
    PROVE  TypeOK' /\ WaitIsEmpty' /\ \A d \in Clients : Stream(d)' = Stream(d)
<1>1. /\ wire[c] # <<>> /\ Consume(c, ready)
      /\ wire' = [wire EXCEPT ![c] = Tail(wire[c])]
      /\ out' = [out EXCEPT ![c] = Head(wire[c])]
      /\ outVld' = [outVld EXCEPT ![c] = TRUE]
      /\ delay' = [delay EXCEPT ![c] = Active] /\ left' = [left EXCEPT ![c] = 0]
      /\ UNCHANGED <<pushVars, connVars, state>>
    BY DEF PullOk, PullMessage
<1>2. ~outVld[c] \/ ready
    BY RegisterIsFree DEF PullOk, PullMessage, CallNow
<1>3. /\ got' \in [Clients -> Seq(Nat)]
      /\ got'[c] = got[c] \o InRegister(c)
      /\ \A d \in Clients : d # c => got'[d] = got[d]
    BY <1>1, <1>2, ConsumeKeeps
<1>4. /\ wire[c] \in Seq(Nat) /\ Head(wire[c]) \in Nat /\ Tail(wire[c]) \in Seq(Nat)
      /\ Len(Tail(wire[c])) = Len(wire[c]) - 1
    BY <1>1, HeadTailProperties DEF TypeOK
<1>5. TypeOK'
    <2>1. wire' \in [Clients -> Seq(Nat)]
        BY <1>1, <1>4 DEF TypeOK
    <2>2. ASSUME NEW d \in Clients PROVE Len(wire'[d]) <= Cap
        <3>1. Len(wire[c]) \in Nat /\ Len(wire[c]) <= Cap /\ Len(wire[d]) <= Cap /\ Cap \in Nat
            BY <1>4, LenProperties, ServerToClientAssumption DEF TypeOK
        <3>2. QED BY <1>1, <1>4, <3>1 DEF TypeOK
    <2>3. /\ out' \in [Clients -> Nat] /\ outVld' \in [Clients -> BOOLEAN]
          /\ delay' \in [Clients -> Nat] /\ left' \in [Clients -> Nat]
        BY <1>1, <1>4, ServerToClientAssumption DEF TypeOK
    <2>4. QED BY <1>1, <1>3, <2>1, <2>2, <2>3 DEF TypeOK, pushVars, connVars
<1>6. Stream(c)' = Stream(c)
    <2> DEFINE old == got[c] \o InRegister(c)
               new == <<Head(wire[c])>>
    <2>1. old \in Seq(Nat) /\ new \in Seq(Nat) /\ Tail(wire[c]) \in Seq(Nat)
        BY <1>4 DEF TypeOK, InRegister
    <2>2. Stream(c)' = (old \o new) \o Tail(wire[c])
        BY <1>1, <1>3 DEF TypeOK, Stream, InRegister
    <2>3. new \o Tail(wire[c]) = wire[c]
        BY <1>1, <1>4
    <2>4. Stream(c) = old \o wire[c]
        BY DEF Stream
    <2> HIDE DEF old, new
    <2>5. (old \o new) \o Tail(wire[c]) = old \o (new \o Tail(wire[c]))
        BY <2>1, StreamParts, Zenon
    <2>6. QED BY <2>2, <2>3, <2>4, <2>5
<1>7. \A d \in Clients : d # c => Stream(d)' = Stream(d) /\ left'[d] = left[d] /\ outVld'[d] = outVld[d]
    BY <1>3, OthersKept DEF ClientPosedge
<1>8. left'[c] = 0
    BY <1>1 DEF TypeOK
<1>9. QED BY <1>5, <1>6, <1>7, <1>8 DEF WaitIsEmpty

\* A call that finds no message.
LEMMA PullFailKeeps ==
    ASSUME TypeOK, WaitIsEmpty, NEW c \in Clients, NEW ready \in BOOLEAN, PullFail(c, ready)
    PROVE  TypeOK' /\ WaitIsEmpty' /\ \A d \in Clients : Stream(d)' = Stream(d)
<1>1. /\ Consume(c, ready) /\ outVld' = [outVld EXCEPT ![c] = FALSE]
      /\ delay' = [delay EXCEPT ![c] = Inactive] /\ left' = [left EXCEPT ![c] = 0]
      /\ UNCHANGED <<pushVars, connVars, state, wire, out>>
    BY DEF PullFail
<1>2. ~outVld[c] \/ ready
    BY RegisterIsFree DEF PullFail, CallNow
<1>3. /\ got' \in [Clients -> Seq(Nat)]
      /\ got'[c] = got[c] \o InRegister(c)
      /\ \A d \in Clients : d # c => got'[d] = got[d]
    BY <1>1, <1>2, ConsumeKeeps
<1>4. TypeOK'
    BY <1>1, <1>3, ServerToClientAssumption DEF TypeOK, pushVars, connVars
<1>5. Stream(c)' = Stream(c)
    <2>1. InRegister(c)' = <<>> /\ wire'[c] = wire[c]
        BY <1>1 DEF TypeOK, InRegister
    <2>2. got'[c] \in Seq(Nat) /\ wire[c] \in Seq(Nat)
        BY <1>3 DEF TypeOK
    <2>3. QED BY <1>3, <2>1, <2>2 DEF Stream
<1>6. \A d \in Clients : d # c => Stream(d)' = Stream(d) /\ left'[d] = left[d] /\ outVld'[d] = outVld[d]
    BY <1>3, OthersKept DEF ClientPosedge
<1>7. ~outVld'[c]
    BY <1>1 DEF TypeOK
<1>8. QED BY <1>4, <1>5, <1>6, <1>7 DEF WaitIsEmpty

-----------------------------------------------------------------------------
(* What a step may do to the streams *)

\* Nothing is sent, and a client the server accepts meanwhile was fresh.
LEMMA SameStreams ==
    ASSUME EachToOne, LastToAccepted, Consecutive, Sent' = Sent,
           \A c \in Clients : Stream(c)' = Stream(c),
           \A c \in Clients : sock' = c => sock = c \/ Stream(c) = <<>>
    PROVE  EachToOne' /\ LastToAccepted' /\ Consecutive'
<1>1. \A c \in Clients : \A n : SentTo(c, n)' <=> SentTo(c, n)
    BY DEF SentTo
<1>2. EachToOne'
    BY <1>1 DEF EachToOne
<1>3. LastToAccepted'
    BY DEF LastToAccepted
<1>4. Consecutive'
    BY DEF Consecutive
<1>5. QED BY <1>2, <1>3, <1>4

\* The next item is sent to the accepted client, or to a fresh one.
LEMMA GrownStream ==
    ASSUME EachToOne, LastToAccepted, Consecutive, Sent \in Nat, Sent' = Sent + 1,
           NEW k \in Clients, sock' = k,
           \A c \in Clients : Stream(c) \in Seq(Nat),
           sock = k \/ Stream(k) = <<>>,
           Stream(k)' = Append(Stream(k), Sent + 1),
           \A c \in Clients : c # k => Stream(c)' = Stream(c)
    PROVE  EachToOne' /\ LastToAccepted' /\ Consecutive'
<1>1. /\ Stream(k) \in Seq(Nat) /\ Len(Stream(k)) \in Nat /\ Len(Stream(k)') = Len(Stream(k)) + 1
      /\ \A i \in 1..Len(Stream(k)) : Stream(k)'[i] = Stream(k)[i]
      /\ Stream(k)'[Len(Stream(k)) + 1] = Sent + 1
    BY AppendProperties, LenProperties
<1>2. \A c \in Clients : \A n : SentTo(c, n)' <=> SentTo(c, n) \/ (c = k /\ n = Sent + 1)
    <2>1. \A n : SentTo(k, n)' <=> SentTo(k, n) \/ n = Sent + 1
        BY <1>1 DEF SentTo
    <2>2. \A c \in Clients : c # k => \A n : SentTo(c, n)' <=> SentTo(c, n)
        BY DEF SentTo
    <2>3. QED BY <2>1, <2>2
<1>3. EachToOne'
    <2>1. ASSUME NEW c \in Clients, NEW i \in 1..Len(Stream(c)')
          PROVE  Stream(c)'[i] \in 1..Sent'
        <3>1. CASE c = k /\ i = Len(Stream(k)) + 1
            BY <1>1, <3>1
        <3>2. CASE c = k /\ i # Len(Stream(k)) + 1
            <4>1. i \in 1..Len(Stream(k))
                BY <1>1, <2>1, <3>2
            <4>2. Stream(k)[i] \in 1..Sent
                BY <4>1 DEF EachToOne
            <4>3. QED BY <1>1, <3>2, <4>1, <4>2
        <3>3. CASE c # k
            BY <2>1, <3>3 DEF EachToOne
        <3>4. QED BY <3>1, <3>2, <3>3
    <2>2. ASSUME NEW n \in 1..Sent' PROVE \E c \in Clients : SentTo(c, n)'
        <3>1. CASE n = Sent + 1
            BY <1>2, <3>1
        <3>2. CASE n # Sent + 1
            <4>1. PICK c \in Clients : SentTo(c, n)
                BY <3>2 DEF EachToOne
            <4>2. QED BY <1>2, <4>1
        <3>3. QED BY <3>1, <3>2
    <2>3. ASSUME NEW n \in 1..Sent', NEW c \in Clients, NEW d \in Clients,
                 SentTo(c, n)', SentTo(d, n)'
          PROVE  c = d
        <3>1. ~SentTo(c, Sent + 1) /\ ~SentTo(d, Sent + 1)
            BY DEF EachToOne, SentTo
        <3>2. CASE n = Sent + 1
            BY <1>2, <2>3, <3>1, <3>2
        <3>3. CASE n # Sent + 1
            <4>1. n \in 1..Sent /\ SentTo(c, n) /\ SentTo(d, n)
                BY <1>2, <2>3, <3>3
            <4>2. QED BY <4>1 DEF EachToOne
        <3>4. QED BY <3>2, <3>3
    <2>4. QED BY <2>1, <2>2, <2>3 DEF EachToOne
<1>4. LastToAccepted'
    BY <1>1 DEF LastToAccepted
<1>5. Consecutive'
    <2>1. ASSUME NEW c \in Clients, NEW i \in 1..Len(Stream(c)')
          PROVE  Stream(c)'[i] = Stream(c)'[1] + i - 1
        <3>1. CASE c # k
            BY <2>1, <3>1 DEF Consecutive
        <3>2. CASE c = k /\ i # Len(Stream(k)) + 1
            <4>1. i \in 1..Len(Stream(k)) /\ 1 \in 1..Len(Stream(k))
                BY <1>1, <2>1, <3>2
            <4>2. QED BY <1>1, <3>2, <4>1 DEF Consecutive
        <3>3. CASE c = k /\ i = Len(Stream(k)) + 1 /\ Stream(k) = <<>>
            BY <1>1, <3>3
        <3>4. CASE c = k /\ i = Len(Stream(k)) + 1 /\ Stream(k) # <<>>
            <4>1. Len(Stream(k)) \in 1..Len(Stream(k)) /\ 1 \in 1..Len(Stream(k))
                BY <1>1, <3>4, EmptySeq
            <4>2. Stream(k)[Len(Stream(k))] = Sent
                BY <3>4 DEF LastToAccepted
            <4>3. Sent = Stream(k)[1] + Len(Stream(k)) - 1
                BY <4>1, <4>2 DEF Consecutive
            <4>4. Stream(k)[1] \in Nat /\ Stream(k)'[1] = Stream(k)[1]
                BY <1>1, <4>1
            <4>5. Stream(c)'[i] = Sent + 1 /\ Stream(c)'[1] = Stream(k)[1]
                BY <1>1, <3>4, <4>4
            <4>6. QED BY <1>1, <3>4, <4>3, <4>4, <4>5
        <3>5. QED BY <3>1, <3>2, <3>3, <3>4
    <2>2. QED BY <2>1 DEF Consecutive
<1>6. QED BY <1>3, <1>4, <1>5

-----------------------------------------------------------------------------
(* The connections *)

\* The client a push is for, and what is left of the backlogs, have their types.
LEMMA AcceptedType ==
    ASSUME TypeOK
    PROVE  /\ Current \in Clients \cup {None}
           /\ AcceptIfNone => unixQ' \in Seq(UnixClients) /\ tcpQ' \in Seq(Clients \ UnixClients)
<1>1. unixQ \in Seq(UnixClients) /\ tcpQ \in Seq(Clients \ UnixClients) /\ sock \in Clients \cup {None}
    BY DEF TypeOK
<1>2. unixQ # <<>> => Head(unixQ) \in UnixClients /\ Tail(unixQ) \in Seq(UnixClients)
    BY <1>1, HeadTailProperties
<1>3. tcpQ # <<>> => Head(tcpQ) \in Clients /\ Tail(tcpQ) \in Seq(Clients \ UnixClients)
    BY <1>1, HeadTailProperties
<1>4. QED
    BY <1>1, <1>2, <1>3, ServerToClientAssumption DEF Current, Accepted, AcceptIfNone, AcceptNewSocket

\* The head of a backlog leaves it, and is not in it a second time.
LEMMA TailOnce ==
    ASSUME NEW S, NEW q \in Seq(S), q # <<>>, Once(q)
    PROVE  /\ Once(Tail(q))
           /\ InBacklog(q, Head(q))
           /\ \A c : InBacklog(Tail(q), c) => InBacklog(q, c) /\ c # Head(q)
<1>1. /\ Len(q) \in Nat \ {0} /\ Len(Tail(q)) = Len(q) - 1 /\ Head(q) = q[1]
      /\ \A i \in 1..Len(Tail(q)) : Tail(q)[i] = q[i + 1]
    BY HeadTailProperties, EmptySeq, LenProperties
<1>2. \A i \in 1..Len(Tail(q)) : i + 1 \in 1..Len(q) /\ i + 1 # 1 /\ i \in Nat
    BY <1>1
<1>3. Once(Tail(q))
    BY <1>1, <1>2 DEF Once
<1>4. 1 \in 1..Len(q)
    BY <1>1
<1>5. QED BY <1>1, <1>2, <1>3, <1>4 DEF Once, InBacklog

\* A client is behind the others when it connects.
LEMMA AppendOnce ==
    ASSUME NEW S, NEW q \in Seq(S), NEW c \in S, Once(q), ~InBacklog(q, c)
    PROVE  /\ Once(Append(q, c))
           /\ \A d : InBacklog(Append(q, c), d) <=> InBacklog(q, d) \/ d = c
<1>1. /\ Len(q) \in Nat /\ Len(Append(q, c)) = Len(q) + 1
      /\ \A i \in 1..Len(q) : Append(q, c)[i] = q[i]
      /\ Append(q, c)[Len(q) + 1] = c
    BY AppendProperties, LenProperties
<1>2. QED BY <1>1 DEF Once, InBacklog

\* An accepted client, now or earlier, is in no backlog.
LEMMA AcceptOnce ==
    ASSUME TypeOK, ConnectsOnce, AcceptIfNone
    PROVE  /\ Once(unixQ)' /\ Once(tcpQ)'
           /\ \A c \in Clients : Pending(c)' => Pending(c) /\ c # Current
           /\ sock = None /\ Current # None => Pending(Current)
<1>1. unixQ \in Seq(UnixClients) /\ tcpQ \in Seq(Clients \ UnixClients)
    BY DEF TypeOK
<1>2. CASE sock # None
    BY <1>2 DEF AcceptIfNone, ConnectsOnce, Fresh, Pending, Once, InBacklog, Current
<1>3. CASE sock = None /\ unixQ # <<>>
    <2>1. Current = Head(unixQ) /\ unixQ' = Tail(unixQ) /\ tcpQ' = tcpQ
        BY <1>3 DEF AcceptIfNone, AcceptNewSocket, Current, Accepted
    <2>2. /\ Once(Tail(unixQ)) /\ InBacklog(unixQ, Head(unixQ))
          /\ \A c : InBacklog(Tail(unixQ), c) => InBacklog(unixQ, c) /\ c # Head(unixQ)
        BY <1>1, <1>3, TailOnce DEF ConnectsOnce
    <2>3. Head(unixQ) \in UnixClients /\ \A c : InBacklog(tcpQ, c) => c \notin UnixClients
        BY <1>1, <1>3, HeadTailProperties DEF InBacklog
    <2>4. Once(tcpQ)
        BY DEF ConnectsOnce
    <2>5. Once(unixQ)' /\ Once(tcpQ)'
        BY <2>1, <2>2, <2>4 DEF Once
    <2>6. \A c : Pending(c)' <=> InBacklog(Tail(unixQ), c) \/ InBacklog(tcpQ, c)
        BY <2>1 DEF Pending, InBacklog
    <2>7. QED BY <2>1, <2>2, <2>3, <2>5, <2>6 DEF Pending
<1>4. CASE sock = None /\ unixQ = <<>> /\ tcpQ # <<>>
    <2>1. Current = Head(tcpQ) /\ tcpQ' = Tail(tcpQ) /\ unixQ' = unixQ
        BY <1>4 DEF AcceptIfNone, AcceptNewSocket, Current, Accepted
    <2>2. /\ Once(Tail(tcpQ)) /\ InBacklog(tcpQ, Head(tcpQ))
          /\ \A c : InBacklog(Tail(tcpQ), c) => InBacklog(tcpQ, c) /\ c # Head(tcpQ)
        BY <1>1, <1>4, TailOnce DEF ConnectsOnce
    <2>3. \A c : ~InBacklog(unixQ, c)
        BY <1>4 DEF InBacklog
    <2>4. Once(unixQ)
        BY DEF ConnectsOnce
    <2>5. Once(unixQ)' /\ Once(tcpQ)'
        BY <2>1, <2>2, <2>4 DEF Once
    <2>6. \A c : Pending(c)' <=> InBacklog(unixQ, c) \/ InBacklog(Tail(tcpQ), c)
        BY <2>1 DEF Pending, InBacklog
    <2>7. QED BY <2>1, <2>2, <2>3, <2>5, <2>6 DEF Pending
<1>5. CASE sock = None /\ unixQ = <<>> /\ tcpQ = <<>>
    <2>1. unixQ' = unixQ /\ tcpQ' = tcpQ /\ Current = None
        BY <1>5 DEF AcceptIfNone, AcceptNewSocket, Current, Accepted
    <2>2. \A c : ~Pending(c)'
        BY <1>5, <2>1 DEF Pending, InBacklog
    <2>3. QED BY <2>1, <2>2 DEF ConnectsOnce, Once
<1>6. QED BY <1>2, <1>3, <1>4, <1>5

\* The backlogs and the accepted client after a push, whatever it returns.
LEMMA PushConnects ==
    ASSUME TypeOK, ConnectsOnce, NEW client, NEW ok \in BOOLEAN, PushReturns(client, ok),
           client \in {Current, None}, state' = state
    PROVE  /\ unixQ' \in Seq(UnixClients) /\ tcpQ' \in Seq(Clients \ UnixClients)
           /\ sock' \in Clients \cup {None} /\ rdy' \in BOOLEAN
           /\ ConnectsOnce'
           /\ \A c \in Clients : Fresh(c)' => Fresh(c) /\ c # Current
           /\ \A c \in Clients : sock' = c => sock = c \/ Fresh(c)
<1>1. sock' = client /\ rdy' = ok /\ AcceptIfNone
    BY DEF PushReturns
<1>2. /\ Current \in Clients \cup {None}
      /\ unixQ' \in Seq(UnixClients) /\ tcpQ' \in Seq(Clients \ UnixClients)
    BY <1>1, AcceptedType
<1>3. /\ Once(unixQ)' /\ Once(tcpQ)'
      /\ \A c \in Clients : Pending(c)' => Pending(c) /\ c # Current
      /\ sock = None /\ Current # None => Pending(Current)
    BY <1>1, AcceptOnce
<1>4. sock # None => Current = sock
    BY DEF Current
<1>5. \A c \in Clients : Fresh(c)' => Fresh(c) /\ c # Current
    BY <1>3, <1>4, ServerToClientAssumption DEF Fresh, ConnectsOnce
<1>6. ConnectsOnce'
    BY <1>1, <1>2, <1>3, <1>5, ServerToClientAssumption DEF ConnectsOnce, Fresh
<1>7. \A c \in Clients : sock' = c => sock = c \/ Fresh(c)
    BY <1>1, <1>3, <1>4, ServerToClientAssumption DEF Fresh
<1>8. QED BY <1>1, <1>2, <1>5, <1>6, <1>7

-----------------------------------------------------------------------------
(* The server's end *)

\* A push of the next item, the first time or again: it goes to the accepted
\* client, or it is kept.
LEMMA PushInv ==
    ASSUME IInv, Push(Sent + 1), UNCHANGED <<state, pullVars>>,
           vld' \in BOOLEAN, item' \in Nat \ {0}, dataQ' \in Nat, Kept',
           rdy' => Sent' = Sent + 1, ~rdy' => Sent' = Sent
    PROVE  IInv'
<1>1. Sent \in Nat /\ \A c \in Clients : Stream(c) \in Seq(Nat)
    BY SentType, StreamType DEF IInv
<1>2. PICK client \in {Current, None}, ok \in BOOLEAN : PushReturns(client, ok)
    BY DEF Push, PushAgain, PushWaits, PushOk, SendTo, PushGone
<1>3. /\ unixQ' \in Seq(UnixClients) /\ tcpQ' \in Seq(Clients \ UnixClients)
      /\ sock' \in Clients \cup {None} /\ rdy' \in BOOLEAN
      /\ ConnectsOnce'
      /\ \A c \in Clients : Fresh(c)' => Fresh(c) /\ c # Current
      /\ \A c \in Clients : sock' = c => sock = c \/ Fresh(c)
    BY <1>2, PushConnects DEF IInv
<1>4. WaitIsEmpty'
    BY DEF IInv, WaitIsEmpty, pullVars
<1>5. CASE ~rdy' /\ wire' = wire
    <2>1. TypeOK'
        BY <1>3, <1>5 DEF IInv, TypeOK, pullVars
    <2>2. \A c \in Clients : Stream(c)' = Stream(c)
        BY <1>5 DEF Stream, InRegister, pullVars
    <2>3. FreshIsEmpty'
        BY <1>3, <2>2 DEF IInv, Streams, FreshIsEmpty
    <2>4. EachToOne' /\ LastToAccepted' /\ Consecutive'
        BY <1>3, <1>5, <2>2, SameStreams DEF IInv, Streams, FreshIsEmpty
    <2>5. QED BY <1>3, <1>4, <2>1, <2>3, <2>4 DEF IInv, Streams
<1>6. CASE PushOk(Sent + 1)
    <2>0. PICK k \in Clients : k = Current
        BY <1>6, AcceptedType DEF IInv, PushOk
    <2>1. /\ Len(wire[k]) < Cap /\ sock' = k /\ rdy'
          /\ wire' = [wire EXCEPT ![k] = Append(wire[k], Sent + 1)]
        BY <1>6, <2>0 DEF PushOk, SendTo, PushReturns
    <2>2. \A c \in Clients : Fresh(c)' => Fresh(c) /\ c # k
        BY <1>3, <2>0
    <2>3. /\ wire[k] \in Seq(Nat) /\ Append(wire[k], Sent + 1) \in Seq(Nat)
          /\ Len(Append(wire[k], Sent + 1)) = Len(wire[k]) + 1 /\ Len(wire[k]) \in Nat
        BY <1>1, <2>1, AppendProperties, LenProperties DEF IInv, TypeOK
    <2>4. wire' \in [Clients -> Seq(Nat)] /\ \A c \in Clients : Len(wire'[c]) <= Cap
        <3>1. ASSUME NEW c \in Clients PROVE Len(wire'[c]) <= Cap
            <4>1. Cap \in Nat /\ Len(wire[c]) <= Cap
                BY ServerToClientAssumption DEF IInv, TypeOK
            <4>2. QED BY <2>1, <2>3, <4>1 DEF IInv, TypeOK
        <3>2. QED BY <2>1, <2>3, <3>1 DEF IInv, TypeOK
    <2>5. TypeOK'
        BY <1>3, <2>4 DEF IInv, TypeOK, pullVars
    <2>6. \A c \in Clients : c # k => Stream(c)' = Stream(c)
        BY <2>1 DEF IInv, TypeOK, Stream, InRegister, pullVars
    <2>7. Stream(k)' = Append(Stream(k), Sent + 1)
        <3> DEFINE front == got[k] \o InRegister(k)
        <3>1. /\ front \in Seq(Nat) /\ <<Sent + 1>> \in Seq(Nat)
              /\ Append(wire[k], Sent + 1) = wire[k] \o <<Sent + 1>>
            BY <1>1, <2>1, <2>3, AppendIsConcat DEF IInv, TypeOK, InRegister
        <3>2. Stream(k)' = front \o (wire[k] \o <<Sent + 1>>) /\ Stream(k) = front \o wire[k]
            <4>1. wire'[k] = wire[k] \o <<Sent + 1>>
                BY <2>1, <3>1 DEF IInv, TypeOK
            <4>2. got'[k] = got[k] /\ InRegister(k)' = InRegister(k)
                BY DEF InRegister, pullVars
            <4>3. Stream(k)' = (got'[k] \o InRegister(k)') \o wire'[k] /\ Stream(k) = front \o wire[k]
                BY DEF Stream
            <4>4. QED BY <4>1, <4>2, <4>3
        <3> HIDE DEF front
        <3>3. (front \o wire[k]) \o <<Sent + 1>> = front \o (wire[k] \o <<Sent + 1>>)
            BY <2>3, <3>1, StreamParts, Zenon
        <3>4. Append(Stream(k), Sent + 1) = Stream(k) \o <<Sent + 1>>
            BY <1>1, <2>1, AppendIsConcat
        <3>5. QED BY <3>2, <3>3, <3>4
    <2>8. sock = k \/ Stream(k) = <<>>
        BY <1>3, <2>1 DEF IInv, Streams, FreshIsEmpty
    <2>9. FreshIsEmpty'
        BY <2>2, <2>6 DEF IInv, Streams, FreshIsEmpty
    <2>10. Sent' = Sent + 1 /\ sock' = k
        BY <2>1
    <2>11. EachToOne' /\ LastToAccepted' /\ Consecutive'
        <3>1. EachToOne /\ LastToAccepted /\ Consecutive
            BY DEF IInv, Streams
        <3>2. QED BY <1>1, <2>1, <2>6, <2>7, <2>8, <2>10, <3>1, GrownStream
    <2>12. QED BY <1>3, <1>4, <2>5, <2>9, <2>11 DEF IInv, Streams
<1>7. QED BY <1>5, <1>6 DEF Push, PushAgain, PushWaits, PushGone, SendFails, PushReturns

\* The posedges of multisim_server_push.
LEMMA ServerPosedgeInv ==
    ASSUME IInv, ServerPosedge
    PROVE  IInv'
<1>1. item \in Nat \ {0} /\ dataQ \in Nat /\ vld \in BOOLEAN /\ rdy \in BOOLEAN
    BY DEF IInv, TypeOK
<1>2. CASE ServerTake
    <2>1. /\ Push(item) /\ item' = item + 1 /\ dataQ' = item /\ vld' \in BOOLEAN /\ rdy
          /\ UNCHANGED <<state, pullVars>>
        BY <1>2 DEF ServerTake
    <2>2. Sent + 1 = item /\ Kept' /\ (rdy' => Sent' = Sent + 1) /\ (~rdy' => Sent' = Sent)
        BY <1>1, <2>1 DEF Sent, Kept
    <2>3. item' \in Nat \ {0} /\ dataQ' \in Nat /\ Push(Sent + 1)
        BY <1>1, <2>1, <2>2
    <2>4. QED BY <2>1, <2>2, <2>3, PushInv
<1>3. CASE ServerRetry
    <2>1. Push(dataQ) /\ ~rdy /\ UNCHANGED <<vld, item, dataQ, state, pullVars>>
        BY <1>3 DEF ServerRetry
    <2>2. Sent + 1 = dataQ /\ Kept' /\ (rdy' => Sent' = Sent + 1) /\ (~rdy' => Sent' = Sent)
        BY <1>1, <2>1 DEF IInv, Sent, Kept
    <2>3. vld' \in BOOLEAN /\ item' \in Nat \ {0} /\ dataQ' \in Nat /\ Push(Sent + 1)
        BY <1>1, <2>1, <2>2
    <2>4. QED BY <2>1, <2>2, <2>3, PushInv
<1>4. QED BY <1>2, <1>3 DEF ServerPosedge

-----------------------------------------------------------------------------
(* The remaining actions *)

\* A client that connects stays fresh: it goes from down to a backlog.
LEMMA ClientStartInv ==
    ASSUME IInv, NEW c \in Clients, ClientStart(c)
    PROVE  IInv'
<1>1. unixQ \in Seq(UnixClients) /\ tcpQ \in Seq(Clients \ UnixClients) /\ ~Pending(c)
    BY DEF IInv, TypeOK, ConnectsOnce, ClientStart
<1>2. /\ UNCHANGED <<pushVars, sock, wire, pullVars>>
      /\ state[c] = "down" /\ state' = [state EXCEPT ![c] = "up"]
    BY DEF ClientStart
<1>3. /\ unixQ' \in Seq(UnixClients) /\ tcpQ' \in Seq(Clients \ UnixClients)
      /\ Once(unixQ)' /\ Once(tcpQ)'
      /\ \A d : Pending(d)' <=> Pending(d) \/ d = c
    <2>1. CASE c \in UnixClients
        <3>1. unixQ' = Append(unixQ, c) /\ tcpQ' = tcpQ
            BY <2>1 DEF ClientStart
        <3>2. /\ Once(Append(unixQ, c))
              /\ \A d : InBacklog(Append(unixQ, c), d) <=> InBacklog(unixQ, d) \/ d = c
            BY <1>1, <2>1, AppendOnce DEF IInv, ConnectsOnce, Pending
        <3>3. \A d : Pending(d)' <=> InBacklog(Append(unixQ, c), d) \/ InBacklog(tcpQ, d)
            BY <3>1 DEF Pending, InBacklog
        <3>4. Once(unixQ)' /\ Once(tcpQ)'
            BY <3>1, <3>2 DEF IInv, ConnectsOnce, Once
        <3>5. unixQ' \in Seq(UnixClients)
            BY <1>1, <2>1, <3>1, AppendProperties
        <3>6. QED BY <1>1, <3>1, <3>2, <3>3, <3>4, <3>5 DEF Pending
    <2>2. CASE c \notin UnixClients
        <3>1. tcpQ' = Append(tcpQ, c) /\ unixQ' = unixQ
            BY <2>2 DEF ClientStart
        <3>2. /\ Once(Append(tcpQ, c))
              /\ \A d : InBacklog(Append(tcpQ, c), d) <=> InBacklog(tcpQ, d) \/ d = c
            BY <1>1, <2>2, AppendOnce DEF IInv, ConnectsOnce, Pending
        <3>3. \A d : Pending(d)' <=> InBacklog(unixQ, d) \/ InBacklog(Append(tcpQ, c), d)
            BY <3>1 DEF Pending, InBacklog
        <3>4. Once(unixQ)' /\ Once(tcpQ)'
            BY <3>1, <3>2 DEF IInv, ConnectsOnce, Once
        <3>5. tcpQ' \in Seq(Clients \ UnixClients)
            BY <1>1, <2>2, <3>1, AppendProperties
        <3>6. QED BY <1>1, <3>1, <3>2, <3>3, <3>4, <3>5 DEF Pending
    <2>3. QED BY <2>1, <2>2
<1>4. TypeOK'
    BY <1>2, <1>3 DEF IInv, TypeOK, pushVars, pullVars
<1>5. WaitIsEmpty' /\ Kept' /\ Sent' = Sent
    BY <1>2 DEF IInv, WaitIsEmpty, Kept, Sent, pushVars, pullVars
<1>6. \A d \in Clients : Fresh(d)' <=> Fresh(d)
    BY <1>2, <1>3 DEF IInv, TypeOK, Fresh
<1>7. ConnectsOnce'
    <2>1. \A d \in Clients : Pending(d)' => state'[d] # "down"
        BY <1>2, <1>3 DEF IInv, TypeOK, ConnectsOnce
    <2>2. QED BY <1>2, <1>3, <1>6, <2>1 DEF IInv, ConnectsOnce
<1>8. \A d \in Clients : Stream(d)' = Stream(d)
    BY <1>2 DEF Stream, InRegister, pullVars
<1>9. EachToOne' /\ LastToAccepted' /\ Consecutive'
    BY <1>2, <1>5, <1>8, SameStreams DEF IInv, Streams
<1>10. QED BY <1>4, <1>5, <1>6, <1>7, <1>8, <1>9 DEF IInv, Streams, FreshIsEmpty

\* A client that ends keeps the stream it was sent.
LEMMA ClientExitInv ==
    ASSUME IInv, NEW c \in Clients, ClientExit(c)
    PROVE  IInv'
<1>1. /\ UNCHANGED <<pushVars, connVars, wire, pullVars>>
      /\ state[c] = "up" /\ state' = [state EXCEPT ![c] = "gone"]
    BY DEF ClientExit
<1>2. TypeOK'
    BY <1>1 DEF IInv, TypeOK, pushVars, connVars, pullVars
<1>3. WaitIsEmpty' /\ Kept' /\ Sent' = Sent
    BY <1>1 DEF IInv, WaitIsEmpty, Kept, Sent, pushVars, pullVars
<1>4. \A d \in Clients : (Pending(d)' <=> Pending(d)) /\ (state'[d] = "down" <=> state[d] = "down")
    BY <1>1 DEF IInv, TypeOK, Pending, InBacklog, connVars
<1>5. ConnectsOnce' /\ \A d \in Clients : Fresh(d)' <=> Fresh(d)
    BY <1>1, <1>4 DEF IInv, ConnectsOnce, Fresh, Once, connVars
<1>6. \A d \in Clients : Stream(d)' = Stream(d)
    BY <1>1 DEF Stream, InRegister, pullVars
<1>7. EachToOne' /\ LastToAccepted' /\ Consecutive'
    BY <1>1, <1>3, <1>6, SameStreams DEF IInv, Streams, connVars
<1>8. QED BY <1>2, <1>3, <1>5, <1>6, <1>7 DEF IInv, Streams, FreshIsEmpty

\* A posedge of a client, or any step of the server's or nobody's that leaves the
\* connections and the streams as they are.
LEMMA StillInv ==
    ASSUME IInv, TypeOK', WaitIsEmpty', UNCHANGED <<rdy, item, dataQ, connVars, state>>,
           \A c \in Clients : Stream(c)' = Stream(c)
    PROVE  IInv'
<1>1. Kept' /\ Sent' = Sent
    BY DEF IInv, Kept, Sent
<1>2. ConnectsOnce' /\ \A c \in Clients : Fresh(c)' <=> Fresh(c)
    BY DEF IInv, ConnectsOnce, Fresh, Pending, InBacklog, Once, connVars
<1>3. EachToOne' /\ LastToAccepted' /\ Consecutive'
    BY <1>1, SameStreams DEF IInv, Streams, connVars
<1>4. QED BY <1>1, <1>2, <1>3 DEF IInv, Streams, FreshIsEmpty

\* Nobody is connected and nothing was taken.
LEMMA InitInv == Init => IInv
<1> SUFFICES ASSUME Init PROVE IInv
    OBVIOUS
<1>1. TypeOK
    <2>1. /\ <<>> \in Seq(Nat) /\ <<>> \in Seq(UnixClients) /\ <<>> \in Seq(Clients \ UnixClients)
          /\ Len(<<>>) = 0
        BY EmptySeq
    <2>2. /\ wire \in [Clients -> Seq(Nat)] /\ got \in [Clients -> Seq(Nat)]
          /\ \A c \in Clients : Len(wire[c]) <= Cap
        BY <2>1, ServerToClientAssumption DEF Init
    <2>3. /\ state \in [Clients -> {"down", "up", "gone"}]
          /\ left \in [Clients -> Nat] /\ delay \in [Clients -> Nat]
          /\ out \in [Clients -> Nat] /\ outVld \in [Clients -> BOOLEAN]
        BY DEF Init
    <2>4. /\ unixQ \in Seq(UnixClients) /\ tcpQ \in Seq(Clients \ UnixClients)
          /\ sock \in Clients \cup {None}
        BY <2>1 DEF Init
    <2>5. vld \in BOOLEAN /\ rdy \in BOOLEAN
        BY Zenon DEF Init
    <2>6. item \in Nat \ {0} /\ dataQ \in Nat
        BY DEF Init
    <2>7. QED BY <2>2, <2>3, <2>4, <2>5, <2>6 DEF TypeOK
<1>2. WaitIsEmpty /\ Kept /\ Sent = 0
    BY DEF Init, WaitIsEmpty, Kept, Sent
<1>3. ConnectsOnce
    <2>1. Once(unixQ) /\ Once(tcpQ) /\ \A c \in Clients : ~Pending(c)
        BY DEF Init, Once, Pending, InBacklog
    <2>2. sock = None
        BY DEF Init
    <2>3. QED BY <2>1, <2>2, ServerToClientAssumption DEF ConnectsOnce
<1>4. Streams
    <2>1. ASSUME NEW c \in Clients PROVE Stream(c) = <<>>
        <3>1. got[c] = <<>> /\ InRegister(c) = <<>> /\ wire[c] = <<>>
            BY DEF Init, InRegister
        <3>2. <<>> \in Seq(Nat) /\ <<>> \o <<>> = <<>>
            OBVIOUS
        <3>3. QED BY <3>1, <3>2 DEF Stream
    <2>2. \A c \in Clients : \A n : ~SentTo(c, n)
        BY <2>1 DEF SentTo
    <2>3. \A n \in 1..Sent : FALSE
        BY <1>2
    <2>4. EachToOne
        BY <2>1, <2>3 DEF EachToOne
    <2>5. FreshIsEmpty /\ LastToAccepted /\ Consecutive
        BY <2>1 DEF FreshIsEmpty, LastToAccepted, Consecutive
    <2>6. QED BY <2>4, <2>5 DEF Streams
<1>5. QED BY <1>1, <1>2, <1>3, <1>4 DEF IInv

\* No action of either side breaks it.
LEMMA NextInv == IInv /\ [Next]_vars => IInv'
<1> SUFFICES ASSUME IInv, [Next]_vars PROVE IInv'
    OBVIOUS
<1>1. CASE ServerPresent
    <2>1. vld' \in BOOLEAN /\ UNCHANGED <<rdy, item, dataQ, connVars, state, wire, pullVars>>
        BY <1>1 DEF ServerPresent
    <2>2. TypeOK' /\ WaitIsEmpty' /\ \A c \in Clients : Stream(c)' = Stream(c)
        BY <2>1 DEF IInv, TypeOK, WaitIsEmpty, Stream, InRegister, connVars, pullVars
    <2>3. QED BY <2>1, <2>2, StillInv
<1>2. CASE ServerPosedge
    BY <1>2, ServerPosedgeInv
<1>3. ASSUME NEW c \in Clients, ClientStart(c) PROVE IInv'
    BY <1>3, ClientStartInv
<1>4. ASSUME NEW c \in Clients, ClientExit(c) PROVE IInv'
    BY <1>4, ClientExitInv
<1>5. ASSUME NEW c \in Clients, NEW ready \in BOOLEAN, ClientPosedge(c, ready) PROVE IInv'
    <2>1. UNCHANGED <<rdy, item, dataQ, connVars, state>>
        BY <1>5 DEF ClientPosedge, WaitBegin, BeginWait, WaitStep, PullOk, PullMessage, PullFail,
                    pushVars
    <2>2. TypeOK' /\ WaitIsEmpty' /\ \A d \in Clients : Stream(d)' = Stream(d)
        BY <1>5, WaitKeeps, PullOkKeeps, PullFailKeeps DEF IInv, ClientPosedge
    <2>3. QED BY <2>1, <2>2, StillInv
<1>6. CASE UNCHANGED vars
    <2>1. TypeOK' /\ WaitIsEmpty' /\ \A c \in Clients : Stream(c)' = Stream(c)
        BY <1>6 DEF IInv, TypeOK, WaitIsEmpty, Stream, InRegister, vars, pushVars, connVars, pullVars
    <2>2. UNCHANGED <<rdy, item, dataQ, connVars, state>>
        BY <1>6 DEF vars, pushVars
    <2>3. QED BY <2>1, <2>2, StillInv
<1>7. QED BY <1>1, <1>2, <1>3, <1>4, <1>5, <1>6 DEF Next

-----------------------------------------------------------------------------
(* Clients that are there *)

\* What leaves a backlog is the client that is accepted.
LEMMA TailKeeps ==
    ASSUME NEW S, NEW q \in Seq(S), q # <<>>, NEW c, InBacklog(q, c), c # Head(q)
    PROVE  InBacklog(Tail(q), c)
<1>1. PICK i \in 1..Len(q) : q[i] = c
    BY DEF InBacklog
<1>2. i # 1
    BY <1>1
<1>3. i - 1 \in 1..Len(Tail(q)) /\ Len(Tail(q)) = Len(q) - 1
    BY <1>1, <1>2, HeadTailProperties
<1>4. Tail(q)[i - 1] = c
    BY <1>1, <1>3, HeadTailProperties
<1>5. QED BY <1>3, <1>4 DEF InBacklog

LEMMA AcceptKeepsPending ==
    ASSUME TypeOK, AcceptIfNone, NEW c \in Clients, Pending(c), c # Current
    PROVE  Pending(c)'
<1>1. unixQ \in Seq(UnixClients) /\ tcpQ \in Seq(Clients \ UnixClients)
    BY DEF TypeOK
<1>2. CASE sock # None
    BY <1>2 DEF AcceptIfNone, Pending, InBacklog
<1>3. CASE sock = None /\ unixQ # <<>>
    <2>1. c # Head(unixQ) /\ unixQ' = Tail(unixQ) /\ tcpQ' = tcpQ
        BY <1>3 DEF AcceptIfNone, AcceptNewSocket, Current, Accepted
    <2>2. InBacklog(unixQ, c) => InBacklog(Tail(unixQ), c)
        BY <1>1, <1>3, <2>1, TailKeeps
    <2>3. QED BY <2>1, <2>2 DEF Pending, InBacklog
<1>4. CASE sock = None /\ unixQ = <<>> /\ tcpQ # <<>>
    <2>1. c # Head(tcpQ) /\ tcpQ' = Tail(tcpQ) /\ unixQ' = unixQ
        BY <1>4 DEF AcceptIfNone, AcceptNewSocket, Current, Accepted
    <2>2. InBacklog(tcpQ, c) => InBacklog(Tail(tcpQ), c)
        BY <1>1, <1>4, <2>1, TailKeeps
    <2>3. QED BY <2>1, <2>2 DEF Pending, InBacklog
<1>5. CASE sock = None /\ unixQ = <<>> /\ tcpQ = <<>>
    BY <1>5 DEF AcceptIfNone, AcceptNewSocket, Pending, InBacklog
<1>6. QED BY <1>2, <1>3, <1>4, <1>5

\* A push gives up only the connection of a client that is gone.
LEMMA PushDropsNobody ==
    ASSUME IInv, NoClientDropped, NEW d, Push(d), state' = state
    PROVE  NoClientDropped'
<1>1. TypeOK
    BY DEF IInv
<1>2. PICK client : /\ AcceptIfNone /\ sock' = client
                    /\ \/ client = Current
                       \/ client = None /\ Current # None /\ state[Current] = "gone"
    BY DEF Push, PushAgain, PushWaits, PushOk, SendTo, PushGone, SendFails, PushReturns
<1>3. SUFFICES ASSUME NEW c \in Clients, state[c] = "up" PROVE Pending(c)' \/ sock' = c
    BY DEF NoClientDropped
<1>4. CASE c = Current
    BY <1>2, <1>3, <1>4
<1>5. CASE c # Current
    <2>1. Pending(c)
        BY <1>3, <1>5, ServerToClientAssumption DEF NoClientDropped, Current
    <2>2. QED BY <1>1, <1>2, <1>5, <2>1, AcceptKeepsPending
<1>6. QED BY <1>4, <1>5

LEMMA DropsNobody == IInv /\ NoClientDropped /\ [Next]_vars => NoClientDropped'
<1> SUFFICES ASSUME IInv, NoClientDropped, [Next]_vars PROVE NoClientDropped'
    OBVIOUS
<1>1. CASE ServerPosedge
    BY <1>1, PushDropsNobody DEF ServerPosedge, ServerTake, ServerRetry
<1>2. ASSUME NEW c \in Clients, ClientStart(c) PROVE NoClientDropped'
    <2>1. unixQ \in Seq(UnixClients) /\ tcpQ \in Seq(Clients \ UnixClients)
        BY DEF IInv, TypeOK
    <2>2. /\ state' = [state EXCEPT ![c] = "up"] /\ sock' = sock
          /\ \/ unixQ' = Append(unixQ, c) /\ tcpQ' = tcpQ
             \/ tcpQ' = Append(tcpQ, c) /\ unixQ' = unixQ
        BY <1>2 DEF ClientStart
    <2>3. ASSUME NEW S, NEW q \in Seq(S), NEW d
          PROVE  InBacklog(Append(q, c), d) <=> InBacklog(q, d) \/ d = c
        <3>1. Len(Append(q, c)) = Len(q) + 1 /\ Len(q) \in Nat
            OBVIOUS
        <3>2. Append(q, c)[Len(q) + 1] = c /\ \A i \in 1..Len(q) : Append(q, c)[i] = q[i]
            OBVIOUS
        <3>3. QED BY <3>1, <3>2 DEF InBacklog
    <2>4. \A d : Pending(d)' <=> Pending(d) \/ d = c
        <3>1. CASE unixQ' = Append(unixQ, c) /\ tcpQ' = tcpQ
            <4>1. \A d : InBacklog(Append(unixQ, c), d) <=> InBacklog(unixQ, d) \/ d = c
                BY <2>1, <2>3
            <4>2. \A d : Pending(d)' <=> InBacklog(Append(unixQ, c), d) \/ InBacklog(tcpQ, d)
                BY <3>1 DEF Pending, InBacklog
            <4>3. QED BY <4>1, <4>2 DEF Pending
        <3>2. CASE tcpQ' = Append(tcpQ, c) /\ unixQ' = unixQ
            <4>1. \A d : InBacklog(Append(tcpQ, c), d) <=> InBacklog(tcpQ, d) \/ d = c
                BY <2>1, <2>3
            <4>2. \A d : Pending(d)' <=> InBacklog(unixQ, d) \/ InBacklog(Append(tcpQ, c), d)
                BY <3>2 DEF Pending, InBacklog
            <4>3. QED BY <4>1, <4>2 DEF Pending
        <3>3. QED BY <2>2, <3>1, <3>2
    <2>5. QED BY <2>2, <2>4 DEF IInv, TypeOK, NoClientDropped
<1>3. CASE UNCHANGED connVars /\ \A c \in Clients : state'[c] = "up" => state[c] = "up"
    BY <1>3 DEF NoClientDropped, Pending, InBacklog, connVars
<1>4. ASSUME NEW c \in Clients, ClientExit(c) PROVE NoClientDropped'
    <2>1. UNCHANGED connVars /\ state' = [state EXCEPT ![c] = "gone"]
        BY <1>4 DEF ClientExit
    <2>2. QED BY <1>3, <2>1 DEF IInv, TypeOK
<1>5. ASSUME NEW c \in Clients, NEW ready \in BOOLEAN, ClientPosedge(c, ready) PROVE NoClientDropped'
    BY <1>3, <1>5 DEF ClientPosedge, WaitBegin, BeginWait, WaitStep, PullOk, PullMessage, PullFail
<1>6. CASE ServerPresent \/ UNCHANGED vars
    BY <1>3, <1>6 DEF ServerPresent, vars
<1>7. QED BY <1>1, <1>2, <1>4, <1>5, <1>6 DEF Next

-----------------------------------------------------------------------------
(* The channel of the only client *)

\* Nobody else is in a backlog, accepted or served.
LEMMA CurrentIsOnly ==
    ASSUME IInv, NoClientDropped, NEW c \in Clients, OnlyClient(c)
    PROVE  Current = IF state[c] = "up" THEN c ELSE None
<1>1. TypeOK /\ ConnectsOnce
    BY DEF IInv
<1>2. \A d \in Clients : d # c \/ state[c] # "up" => Fresh(d) /\ ~Pending(d) /\ sock # d
    BY <1>1 DEF OnlyClient, TypeOK, ConnectsOnce, Fresh
<1>3. Current \in Clients \cup {None}
    BY <1>1, AcceptedType
<1>4. Current # None => sock = Current \/ Pending(Current)
    <2>1. unixQ \in Seq(UnixClients) /\ tcpQ \in Seq(Clients \ UnixClients)
        BY <1>1 DEF TypeOK
    <2>2. (unixQ # <<>> => InBacklog(unixQ, Head(unixQ))) /\ (tcpQ # <<>> => InBacklog(tcpQ, Head(tcpQ)))
        BY <2>1 DEF InBacklog
    <2>3. QED BY <2>2 DEF Current, Accepted, Pending
<1>5. ASSUME Current = None PROVE sock = None /\ \A d : ~Pending(d)
    <2>1. /\ unixQ \in Seq(UnixClients) /\ tcpQ \in Seq(Clients \ UnixClients)
          /\ UnixClients \subseteq Clients /\ None \notin Clients
        BY <1>1, ServerToClientAssumption DEF TypeOK
    <2>2. (unixQ # <<>> => Head(unixQ) # None) /\ (tcpQ # <<>> => Head(tcpQ) # None)
        BY <2>1, HeadTailProperties
    <2>3. sock = None /\ unixQ = <<>> /\ tcpQ = <<>>
        BY <1>5, <2>2 DEF Current, Accepted
    <2>4. QED BY <2>3 DEF Pending, InBacklog
<1>6. CASE state[c] = "up"
    <2>1. Current # None
        BY <1>5, <1>6, ServerToClientAssumption DEF NoClientDropped
    <2>2. QED BY <1>2, <1>3, <1>4, <1>6, <2>1
<1>7. CASE state[c] # "up"
    BY <1>2, <1>3, <1>4, <1>7
<1>8. QED BY <1>6, <1>7

\* The DPI call of the push module.
LEMMA PushStep ==
    ASSUME IInv, NoClientDropped, NEW c \in Clients, OnlyClient(c), NEW d, Push(d)
    PROVE  Channel(c)!Push(d)
<1>1. TypeOK
    BY DEF IInv
<1>2. Current = IF state[c] = "up" THEN c ELSE None
    BY CurrentIsOnly
<1>3. state[c] \in {"down", "up"} /\ c # None
    BY <1>1, ServerToClientAssumption DEF TypeOK, OnlyClient
<1>4. wire \in [Clients -> Seq(Nat)] /\ Len(wire[c]) \in Nat /\ Cap \in Nat
    BY <1>1, ServerToClientAssumption DEF TypeOK
<1>5. CASE PushAgain
    <2>1. rdy' = FALSE /\ wire' = wire /\ (Current # None => Len(wire[Current]) = Cap)
        BY <1>5 DEF PushAgain, PushWaits, PushReturns
    <2>2. ~(state[c] # "down" /\ Len(wire[c]) < Cap)
        BY <1>2, <1>3, <1>4, <2>1
    <2>3. QED BY <2>1, <2>2 DEF Channel!Push
<1>6. CASE PushOk(d)
    <2>1. rdy' = TRUE /\ Current # None /\ Len(wire[Current]) < Cap
          /\ wire' = [wire EXCEPT ![Current] = Append(@, d)]
        BY <1>6 DEF PushOk, SendTo, PushReturns
    <2>2. Current = c /\ state[c] # "down"
        BY <1>2, <1>3, <2>1
    <2>3. QED BY <1>4, <2>1, <2>2 DEF Channel!Push
<1>7. CASE PushGone
    BY <1>2, <1>7 DEF PushGone, SendFails
<1>8. QED BY <1>5, <1>6, <1>7 DEF Push

\* A posedge of multisim_server_push.
LEMMA ServerStep ==
    ASSUME IInv, NoClientDropped, NEW c \in Clients, OnlyClient(c), ServerPosedge
    PROVE  ChannelStep(c)
<1>1. UNCHANGED <<state, pullVars>>
    BY DEF ServerPosedge, ServerTake, ServerRetry
<1>2. UNCHANGED Channel(c)!pullVars
    BY <1>1 DEF Channel!pullVars, pullVars
<1>3. CASE ServerTake
    <2>1. Channel(c)!PushTake(TRUE, item)
        BY <1>3, PushStep DEF ServerTake, Channel!PushTake
    <2>2. Channel(c)!PushPosedge(TRUE, item)
        BY <1>1, <1>2, <2>1 DEF Channel!PushPosedge
    <2>3. QED BY <2>2 DEF ChannelStep, Channel!ChannelNext
<1>4. CASE ServerRetry
    <2>1. Channel(c)!PushRetry
        BY <1>4, PushStep DEF ServerRetry, Channel!PushRetry
    <2>2. Channel(c)!PushPosedge(FALSE, item)
        BY <1>1, <1>2, <2>1 DEF Channel!PushPosedge
    <2>3. QED BY <2>2 DEF ChannelStep, Channel!ChannelNext
<1>5. QED BY <1>3, <1>4 DEF ServerPosedge

\* A posedge of the client.
LEMMA ClientStep ==
    ASSUME IInv, NEW c \in Clients, NEW ready \in BOOLEAN, ClientPosedge(c, ready)
    PROVE  ChannelStep(c)
<1>1. /\ wire \in [Clients -> Seq(Nat)] /\ out \in [Clients -> Nat]
      /\ outVld \in [Clients -> BOOLEAN]
      /\ UNCHANGED <<rdy, dataQ, state>>
    BY DEF IInv, TypeOK, ClientPosedge, WaitBegin, BeginWait, WaitStep, PullOk, PullMessage,
           PullFail, pushVars
<1>2. ~outVld[c] \/ ready
    <2>1. AtTop(c, ready) \/ left[c] = 1 \/ left[c] > 1
        BY DEF ClientPosedge, WaitBegin, BeginWait, WaitStep, PullOk, PullMessage, PullFail, CallNow
    <2>2. TypeOK /\ WaitIsEmpty /\ left[c] \in Nat
        BY DEF IInv, TypeOK
    <2>3. QED BY <2>1, <2>2, RegisterIsFree
<1>3. CASE PullOk(c, ready)
    <2>1. Channel(c)!PullOk(ready)
        BY <1>1, <1>2, <1>3 DEF PullOk, PullMessage, Channel!PullOk
    <2>2. Channel(c)!PullPosedge(ready)
        BY <1>1, <2>1 DEF Channel!PullPosedge, Channel!pushVars
    <2>3. QED BY <2>2 DEF ChannelStep, Channel!ChannelNext
<1>4. CASE WaitBegin(c, ready) \/ WaitStep(c, ready) \/ PullFail(c, ready)
    <2>1. outVld'[c] = FALSE /\ UNCHANGED <<wire, out>>
        BY <1>1, <1>4 DEF WaitBegin, BeginWait, WaitStep, PullFail
    <2>2. Channel(c)!PullNothing(ready)
        BY <1>2, <2>1 DEF Channel!PullNothing
    <2>3. Channel(c)!PullPosedge(ready)
        BY <1>1, <2>2 DEF Channel!PullPosedge, Channel!pushVars
    <2>4. QED BY <2>3 DEF ChannelStep, Channel!ChannelNext
<1>5. QED BY <1>3, <1>4 DEF ClientPosedge

\* Every step that leaves c the only client.
LEMMA OnlyClientStep ==
    ASSUME IInv, NoClientDropped, Next, NEW c \in Clients, OnlyClient(c)'
    PROVE  ChannelStep(c)
<1>1. state \in [Clients -> {"down", "up", "gone"}]
    BY DEF IInv, TypeOK
<1>2. CASE ServerPresent
    <2>1. UNCHANGED Channel(c)!channelVars
        BY <1>2 DEF ServerPresent, Channel!channelVars, Channel!pushVars, Channel!wireVars,
                    Channel!pullVars, pullVars
    <2>2. QED BY <2>1 DEF ChannelStep
<1>3. CASE ServerPosedge
    <2>1. OnlyClient(c)
        BY <1>3 DEF OnlyClient, ServerPosedge, ServerTake, ServerRetry
    <2>2. QED BY <1>3, <2>1, ServerStep
<1>4. ASSUME NEW d \in Clients, ClientStart(d) PROVE ChannelStep(c)
    <2>1. /\ state[d] = "down" /\ state' = [state EXCEPT ![d] = "up"]
          /\ UNCHANGED <<rdy, dataQ, wire, outVld, out>>
        BY <1>4 DEF ClientStart, pushVars, pullVars
    <2>2. d = c
        BY <1>1, <2>1 DEF OnlyClient
    <2>3. Channel(c)!Link
        BY <1>1, <2>1, <2>2 DEF Channel!Link, Channel!pushVars, Channel!pullVars
    <2>4. QED BY <2>3 DEF ChannelStep, Channel!ChannelNext
<1>5. ASSUME NEW d \in Clients, ClientExit(d) PROVE ChannelStep(c)
    BY <1>1, <1>5 DEF ClientExit, OnlyClient
<1>6. ASSUME NEW d \in Clients, NEW ready \in BOOLEAN, ClientPosedge(d, ready)
      PROVE  ChannelStep(c)
    <2>1. state[d] = "up" /\ state' = state
        BY <1>6 DEF ClientPosedge, WaitBegin, BeginWait, WaitStep, PullOk, PullMessage, PullFail
    <2>2. d = c
        BY <2>1 DEF OnlyClient
    <2>3. QED BY <1>6, <2>2, ClientStep
<1>7. QED BY <1>2, <1>3, <1>4, <1>5, <1>6 DEF Next

-----------------------------------------------------------------------------
(* The theorems *)

\* The inductive invariant holds in every state of every run.
THEOREM Invariance == Spec => []IInv
BY InitInv, NextInv, PTL DEF Spec

\* The variables of the two modules and of the DPI calls between them keep their
\* types, and no connection holds more than the kernel's buffer.
THEOREM TypeCorrect == Spec => []TypeOK
<1>1. IInv => TypeOK
    BY DEF IInv
<1>2. QED BY <1>1, Invariance, PTL

\* What a client is sent has no gap, no repetition and no reordering, whatever the
\* clients, the buffers, the delays and the failed calls are.
THEOREM ConsecutiveHolds == Spec => []Consecutive
<1>1. IInv => Consecutive
    BY DEF IInv, Streams
<1>2. QED BY <1>1, Invariance, PTL

\* A push that finds its client gone, or a full buffer, or nobody, costs no item
\* and sends none twice: each went to one client, except the one kept in data_q.
THEOREM ExactlyOneClientHolds == Spec => []ExactlyOneClient
<1>1. IInv => ExactlyOneClient
    <2> SUFFICES ASSUME IInv, NEW n \in 1..(item - 1)
                 PROVE  IF ~rdy /\ n = item - 1
                        THEN dataQ = n /\ \A c \in Clients : ~SentTo(c, n)
                        ELSE /\ \E c \in Clients : SentTo(c, n)
                             /\ \A c, d \in Clients : SentTo(c, n) /\ SentTo(d, n) => c = d
        BY DEF ExactlyOneClient
    <2>1. item \in Nat \ {0} /\ n \in Nat /\ EachToOne
        BY DEF IInv, TypeOK, Streams
    <2>2. CASE ~rdy /\ n = item - 1
        <3>1. n \notin 1..Sent
            BY <2>1, <2>2 DEF Sent
        <3>2. QED BY <2>1, <2>2, <3>1 DEF IInv, Kept, EachToOne, SentTo
    <2>3. CASE ~(~rdy /\ n = item - 1)
        <3>1. n \in 1..Sent
            BY <2>1, <2>3 DEF IInv, Kept, Sent
        <3>2. QED BY <2>1, <2>3, <3>1 DEF EachToOne
    <2>4. QED BY <2>2, <2>3
<1>2. QED BY <1>1, Invariance, PTL

\* A client that has connected is served, or waits in a backlog until it is, as
\* long as it is there.
THEOREM NoClientDroppedHolds == Spec => []NoClientDropped
<1>1. Init => NoClientDropped
    BY DEF Init, NoClientDropped
<1>2. QED BY <1>1, DropsNobody, Invariance, PTL DEF Spec

\* The only client of a server has a ready/valid channel from it: what the modules
\* built on top of the push and pull modules assume of them.
THEOREM ChannelRefinement == Spec => ImplementsChannel
<1>1. Init => \A c \in Clients : Channel(c)!StartedInit(0)
    BY DEF Init, Channel!StartedInit
<1>2. IInv /\ NoClientDropped /\ [Next]_vars
          => [\A c \in Clients : OnlyClient(c)' => ChannelStep(c)]_vars
    BY OnlyClientStep
<1>3. QED BY <1>1, <1>2, Invariance, NoClientDroppedHolds, PTL DEF Spec, ImplementsChannel
=============================================================================
