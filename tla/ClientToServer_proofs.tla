----------------------- MODULE ClientToServer_proofs -----------------------
(***************************************************************************)
(* Proofs about ClientToServer for any clients, on either kind of socket,  *)
(* with any number of items, and for all buffer sizes and delays.          *)
(***************************************************************************)
EXTENDS ClientToServer, SequenceTheorems, TLAPS

-----------------------------------------------------------------------------
(* The inductive invariant *)

\* While multisim_server_pull waits its register is empty: what was in it when
\* the wait began has been taken.
WaitIsEmpty == left # 0 => ~outVld

IInv == TypeOK /\ WaitIsEmpty /\ Conserved /\ NothingLeftBehind

\* The items of c, from the server's user back to the retry register.
Path(c) == got[c] \o InRegister(c) \o wire[c] \o InRetry(c)

Up(n) == [i \in 1..n |-> i]

-----------------------------------------------------------------------------
(* The server's end *)

\* Concatenation of items: where the parts of a path are split does not matter.
LEMMA PathParts ==
    ASSUME NEW s \in Seq(Nat), NEW t \in Seq(Nat), NEW u \in Seq(Nat)
    PROVE  (s \o t) \o u = s \o (t \o u)
BY ConcatAssociative

\* The connection a pull reads, and what is left of the backlogs, have their types.
LEMMA AcceptedType ==
    ASSUME TypeOK
    PROVE  /\ Current \in Clients \cup {None}
           /\ AcceptIfNone => unixQ' \in Seq(UnixClients) /\ tcpQ' \in Seq(Clients \ UnixClients)
<1>1. unixQ \in Seq(UnixClients) /\ tcpQ \in Seq(Clients \ UnixClients) /\ sock \in Clients \cup {None}
    BY DEF TypeOK
<1>2. unixQ # <<>> => Head(unixQ) \in UnixClients /\ Tail(unixQ) \in Seq(UnixClients)
    BY <1>1, HeadTailProperties
<1>3. tcpQ # <<>> => Head(tcpQ) \in Clients /\ Tail(tcpQ) \in Seq(Clients \ UnixClients)
    BY <1>1, HeadTailProperties
<1>4. QED
    BY <1>1, <1>2, <1>3, ClientToServerAssumption DEF Current, Accepted, AcceptIfNone, AcceptNewSocket

\* What the server's user has taken are items.
LEMMA ConsumeType ==
    ASSUME TypeOK, NEW ready \in BOOLEAN, Consume(ready)
    PROVE  got' \in [Clients -> Seq(Nat)]
BY DEF TypeOK, Consume

\* The register is emptied into its user's hands, or it is empty already.
LEMMA ConsumeKeeps ==
    ASSUME TypeOK, NEW ready \in BOOLEAN, Consume(ready), ~outVld \/ ready, NEW c \in Clients
    PROVE  got'[c] = got[c] \o InRegister(c)
<1>1. got \in [Clients -> Seq(Nat)] /\ (outVld => out.client \in Clients /\ out.item \in Nat)
    BY DEF TypeOK
<1>2. CASE outVld /\ out.client = c
    <2>1. got'[c] = Append(got[c], out.item)
        BY <1>1, <1>2 DEF Consume
    <2>2. got[c] \in Seq(Nat) /\ out.item \in Nat /\ InRegister(c) = <<out.item>>
        BY <1>1, <1>2 DEF InRegister
    <2>3. Append(got[c], out.item) = got[c] \o <<out.item>>
        BY <2>2, AppendIsConcat
    <2>4. QED BY <2>1, <2>2, <2>3
<1>3. CASE ~(outVld /\ out.client = c)
    <2>1. got'[c] = got[c]
        BY <1>1, <1>3 DEF Consume
    <2>2. QED BY <1>1, <1>3, <2>1 DEF InRegister
<1>4. QED BY <1>2, <1>3

\* A pull that accepts a client takes it out of the backlog, and nobody else.
LEMMA AcceptKeepsPending ==
    ASSUME TypeOK, AcceptIfNone, NEW c \in Clients, Pending(c), c # Current
    PROVE  Pending(c)'
<1>1. unixQ \in Seq(UnixClients) /\ tcpQ \in Seq(Clients \ UnixClients)
    BY DEF TypeOK
<1>2. CASE sock # None
    BY <1>2 DEF AcceptIfNone, Pending
<1>3. CASE sock = None /\ unixQ # <<>>
    <2>1. c # Head(unixQ) /\ unixQ' = Tail(unixQ) /\ tcpQ' = tcpQ
        BY <1>3 DEF AcceptIfNone, AcceptNewSocket, Current, Accepted
    <2>2. ASSUME NEW i \in 1..Len(unixQ), unixQ[i] = c
          PROVE  i - 1 \in 1..Len(unixQ') /\ unixQ'[i - 1] = c
        <3>1. i # 1
            BY <1>1, <2>1, <2>2
        <3>2. i - 1 \in 1..Len(Tail(unixQ)) /\ Len(Tail(unixQ)) = Len(unixQ) - 1
            BY <1>1, <1>3, <3>1, HeadTailProperties
        <3>3. QED BY <1>1, <1>3, <2>1, <2>2, <3>2, HeadTailProperties
    <2>3. QED BY <2>1, <2>2 DEF Pending
<1>4. CASE sock = None /\ unixQ = <<>> /\ tcpQ # <<>>
    <2>1. c # Head(tcpQ) /\ tcpQ' = Tail(tcpQ) /\ unixQ' = unixQ
        BY <1>4 DEF AcceptIfNone, AcceptNewSocket, Current, Accepted
    <2>2. ASSUME NEW i \in 1..Len(tcpQ), tcpQ[i] = c
          PROVE  i - 1 \in 1..Len(tcpQ') /\ tcpQ'[i - 1] = c
        <3>1. i # 1
            BY <1>1, <2>1, <2>2
        <3>2. i - 1 \in 1..Len(Tail(tcpQ)) /\ Len(Tail(tcpQ)) = Len(tcpQ) - 1
            BY <1>1, <1>4, <3>1, HeadTailProperties
        <3>3. QED BY <1>1, <1>4, <2>1, <2>2, <3>2, HeadTailProperties
    <2>3. QED BY <2>1, <2>2 DEF Pending
<1>5. CASE sock = None /\ unixQ = <<>> /\ tcpQ = <<>>
    BY <1>5 DEF AcceptIfNone, AcceptNewSocket, Pending
<1>6. QED BY <1>2, <1>3, <1>4, <1>5

\* A call makes the user wait only with an empty register.
LEMMA CallIsFree ==
    ASSUME IInv, NEW ready \in BOOLEAN, CallNow(ready)
    PROVE  ~outVld \/ ready
BY DEF IInv, TypeOK, WaitIsEmpty, CallNow, AtTop

\* The waits between two calls.
LEMMA WaitInv ==
    ASSUME IInv, NEW ready \in BOOLEAN, WaitBegin(ready) \/ WaitStep(ready)
    PROVE  IInv'
<1>1. ~outVld \/ ready
    BY DEF IInv, TypeOK, WaitIsEmpty, WaitBegin, WaitStep, AtTop
<1>2. Consume(ready) /\ ~outVld' /\ UNCHANGED <<clientVars, wire, connVars, delay, out>>
    BY DEF WaitBegin, WaitStep
<1>3. TypeOK'
    <2>1. got' \in [Clients -> Seq(Nat)]
        BY <1>2, ConsumeType DEF IInv
    <2>2. left' \in Nat /\ outVld' = FALSE
        BY DEF IInv, TypeOK, WaitBegin, WaitStep
    <2>3. QED BY <1>2, <2>1, <2>2 DEF IInv, TypeOK, clientVars, connVars
<1>4. WaitIsEmpty'
    BY <1>2 DEF WaitIsEmpty
<1>5. Conserved'
    <2>1. ASSUME NEW c \in Clients
          PROVE  Path(c)' = Path(c) /\ item'[c] = item[c]
        <3>1. got'[c] = got[c] \o InRegister(c)
            BY <1>1, <1>2, ConsumeKeeps DEF IInv
        <3>2. InRegister(c)' = <<>> /\ wire'[c] = wire[c] /\ InRetry(c)' = InRetry(c) /\ item'[c] = item[c]
            BY <1>2 DEF InRegister, InRetry, clientVars
        <3>3. got[c] \in Seq(Nat) /\ InRegister(c) \in Seq(Nat) /\ got'[c] \in Seq(Nat)
            BY <1>3 DEF IInv, TypeOK, InRegister
        <3>4. QED BY <3>1, <3>2, <3>3 DEF Path
    <2>2. QED BY <2>1 DEF IInv, Conserved, Path
<1>6. NothingLeftBehind'
    BY <1>2 DEF IInv, NothingLeftBehind, Connected, Pending, clientVars, connVars
<1>7. QED BY <1>3, <1>4, <1>5, <1>6 DEF IInv

\* The call that has a message: it goes from the connection to the register.
LEMMA PullOkInv ==
    ASSUME IInv, NEW ready \in BOOLEAN, PullOk(ready)
    PROVE  IInv'
<1> DEFINE k == Current
<1>1. ~outVld \/ ready
    BY CallIsFree DEF PullOk
<1>2. k \in Clients /\ wire[k] \in Seq(Nat) /\ wire[k] # <<>>
    BY AcceptedType DEF IInv, TypeOK, PullOk
<1>3. /\ sock' = k /\ AcceptIfNone /\ Consume(ready)
      /\ wire' = [wire EXCEPT ![k] = Tail(@)]
      /\ out' = [client |-> k, item |-> Head(wire[k])]
      /\ outVld' = TRUE /\ delay' = Active /\ left' = 0
      /\ UNCHANGED clientVars
    BY DEF PullOk
<1>4. unixQ' \in Seq(UnixClients) /\ tcpQ' \in Seq(Clients \ UnixClients)
    BY <1>3, AcceptedType DEF IInv
<1>5. Head(wire[k]) \in Nat /\ Tail(wire[k]) \in Seq(Nat) /\ Len(Tail(wire[k])) = Len(wire[k]) - 1
    BY <1>2, HeadTailProperties
<1>6. got' \in [Clients -> Seq(Nat)]
    BY <1>3, ConsumeType DEF IInv
<1> HIDE DEF k
<1>7. TypeOK'
    <2>1. wire' \in [Clients -> Seq(Nat)] /\ \A c \in Clients : Len(wire'[c]) <= Cap
        <3>1. ASSUME NEW c \in Clients PROVE Len(wire'[c]) <= Cap
            <4>1. Len(wire[k]) \in Nat /\ Len(wire[k]) <= Cap /\ Len(wire[c]) <= Cap /\ Cap \in Nat
                BY <1>2, ClientToServerAssumption, LenProperties DEF IInv, TypeOK
            <4>2. QED BY <1>3, <1>5, <4>1 DEF IInv, TypeOK
        <3>2. QED BY <1>3, <1>5, <3>1 DEF IInv, TypeOK
    <2>2. out' \in [client : Clients \cup {None}, item : Nat] /\ out'.client # None
        BY <1>2, <1>3, <1>5, ClientToServerAssumption
    <2>3. QED
        BY <1>2, <1>3, <1>4, <1>6, <2>1, <2>2, ClientToServerAssumption DEF IInv, TypeOK, clientVars
<1>8. WaitIsEmpty'
    BY <1>3 DEF WaitIsEmpty
<1>9. Conserved'
    <2>1. ASSUME NEW c \in Clients
          PROVE  Path(c)' = Path(c) /\ item'[c] = item[c]
        <3>1. got'[c] = got[c] \o InRegister(c)
            BY <1>1, <1>3, ConsumeKeeps DEF IInv
        <3>2. InRetry(c)' = InRetry(c) /\ item'[c] = item[c]
            BY <1>3 DEF InRetry, clientVars
        <3>3. /\ got[c] \in Seq(Nat) /\ InRegister(c) \in Seq(Nat) /\ wire[c] \in Seq(Nat)
              /\ InRetry(c) \in Seq(Nat)
            BY DEF IInv, TypeOK, InRegister, InRetry
        <3>4. InRegister(c)' \o wire'[c] = wire[c]
            <4>1. CASE c = k
                BY <1>2, <1>3, <4>1 DEF InRegister, IInv, TypeOK
            <4>2. CASE c # k
                <5>1. InRegister(c)' = <<>> /\ wire'[c] = wire[c]
                    BY <1>2, <1>3, <4>2 DEF InRegister, IInv, TypeOK
                <5>2. QED BY <3>3, <5>1, ConcatEmptySeq
            <4>3. QED BY <4>1, <4>2
        <3>5. InRegister(c)' \in Seq(Nat) /\ wire'[c] \in Seq(Nat) /\ got'[c] \in Seq(Nat)
            BY <1>7 DEF TypeOK, InRegister
        <3>6. (got'[c] \o InRegister(c)') \o wire'[c] = got'[c] \o (InRegister(c)' \o wire'[c])
            BY <3>5, PathParts, Zenon
        <3>7. QED BY <3>1, <3>2, <3>3, <3>4, <3>5, <3>6 DEF Path
    <2>2. QED BY <2>1 DEF IInv, Conserved, Path
<1>10. NothingLeftBehind'
    <2>1. SUFFICES ASSUME NEW c \in Clients, Connected(c)', ~Pending(c)', sock' # c
                   PROVE  state'[c] = "gone" /\ wire'[c] = <<>>
        BY DEF NothingLeftBehind
    <2>2. c # k /\ Connected(c) /\ ~Pending(c)
        BY <1>3, <2>1, AcceptKeepsPending DEF k, IInv, Connected, clientVars
    <2>3. sock # c
        BY <2>2, ClientToServerAssumption DEF k, Current
    <2>4. state[c] = "gone" /\ wire[c] = <<>>
        BY <2>2, <2>3 DEF IInv, NothingLeftBehind
    <2>5. QED BY <1>2, <1>3, <2>2, <2>4 DEF IInv, TypeOK, clientVars
<1>11. QED BY <1>7, <1>8, <1>9, <1>10 DEF IInv

\* The call that finds no message: it closes the connection only of a client that
\* has ended and was read to the end.
LEMMA PullFailInv ==
    ASSUME IInv, NEW ready \in BOOLEAN, PullFail(ready)
    PROVE  IInv'
<1>1. ~outVld \/ ready
    BY CallIsFree DEF PullFail, PullNothing
<1>2. /\ sock' = IF AtEnd THEN None ELSE Current
      /\ Current # None => wire[Current] = <<>>
      /\ AcceptIfNone /\ Consume(ready)
      /\ outVld' = FALSE /\ delay' = Inactive /\ left' = 0
      /\ UNCHANGED <<clientVars, wire, out>>
    BY DEF PullFail, PullNothing
<1>3. Current \in Clients \cup {None}
    BY AcceptedType DEF IInv
<1>4. TypeOK'
    <2>1. unixQ' \in Seq(UnixClients) /\ tcpQ' \in Seq(Clients \ UnixClients)
        BY <1>2, AcceptedType DEF IInv
    <2>2. got' \in [Clients -> Seq(Nat)]
        BY <1>2, ConsumeType DEF IInv
    <2>3. QED
        BY <1>2, <1>3, <2>1, <2>2, ClientToServerAssumption DEF IInv, TypeOK, clientVars
<1>5. WaitIsEmpty'
    BY <1>2 DEF WaitIsEmpty
<1>6. Conserved'
    <2>1. ASSUME NEW c \in Clients
          PROVE  Path(c)' = Path(c) /\ item'[c] = item[c]
        <3>1. got'[c] = got[c] \o InRegister(c)
            BY <1>1, <1>2, ConsumeKeeps DEF IInv
        <3>2. InRegister(c)' = <<>> /\ wire'[c] = wire[c] /\ InRetry(c)' = InRetry(c) /\ item'[c] = item[c]
            BY <1>2 DEF InRegister, InRetry, clientVars
        <3>3. got[c] \in Seq(Nat) /\ InRegister(c) \in Seq(Nat) /\ got'[c] \in Seq(Nat)
            BY <1>4 DEF IInv, TypeOK, InRegister
        <3>4. QED BY <3>1, <3>2, <3>3 DEF Path
    <2>2. QED BY <2>1 DEF IInv, Conserved, Path
<1>7. NothingLeftBehind'
    <2>1. SUFFICES ASSUME NEW c \in Clients, Connected(c)', ~Pending(c)', sock' # c
                   PROVE  state[c] = "gone" /\ wire[c] = <<>>
        BY <1>2 DEF NothingLeftBehind, clientVars
    <2>2. CASE c = Current
        BY <1>2, <2>1, <2>2, ClientToServerAssumption DEF AtEnd
    <2>3. CASE c # Current
        <3>1. Connected(c) /\ ~Pending(c)
            BY <1>2, <2>1, <2>3, AcceptKeepsPending DEF IInv, Connected, clientVars
        <3>2. sock # c
            BY <2>3, ClientToServerAssumption DEF Current
        <3>3. QED BY <3>1, <3>2 DEF IInv, NothingLeftBehind
    <2>4. QED BY <2>2, <2>3
<1>8. QED BY <1>4, <1>5, <1>6, <1>7 DEF IInv

-----------------------------------------------------------------------------
(* The clients' end *)

\* A client changes only its own port, registers and connection.
LEMMA OthersKept ==
    ASSUME TypeOK, NEW c \in Clients, NEW d \in Clients, d # c,
           ClientStart(c) \/ ClientPresent(c) \/ ClientPosedge(c) \/ ClientExit(c)
    PROVE  /\ Path(d)' = Path(d) /\ item'[d] = item[d]
           /\ state'[d] = state[d] /\ wire'[d] = wire[d]
<1>1. /\ state'[d] = state[d] /\ rdy'[d] = rdy[d] /\ dataQ'[d] = dataQ[d]
      /\ wire'[d] = wire[d] /\ item'[d] = item[d]
    BY DEF TypeOK, ClientStart, ClientPresent, ClientPosedge, ClientTake, Take, ClientRetry,
           Push, ClientExit
<1>2. UNCHANGED pullVars
    BY DEF ClientStart, ClientPresent, ClientPosedge, ClientTake, Take, ClientRetry, ClientExit
<1>3. QED BY <1>1, <1>2 DEF Path, InRegister, InRetry, pullVars

\* A client that connects is pending.
LEMMA ClientStartInv ==
    ASSUME IInv, NEW c \in Clients, ClientStart(c)
    PROVE  IInv'
<1>1. unixQ \in Seq(UnixClients) /\ tcpQ \in Seq(Clients \ UnixClients)
    BY DEF IInv, TypeOK
<1>2. /\ unixQ' \in Seq(UnixClients) /\ tcpQ' \in Seq(Clients \ UnixClients)
      /\ Pending(c)'
      /\ \A d \in Clients : Pending(d) => Pending(d)'
    <2>1. CASE c \in UnixClients
        <3>1. unixQ' = Append(unixQ, c) /\ tcpQ' = tcpQ
            BY <2>1 DEF ClientStart
        <3>2. /\ unixQ' \in Seq(UnixClients) /\ Len(unixQ') = Len(unixQ) + 1 /\ Len(unixQ) \in Nat
              /\ \A i \in 1..Len(unixQ) : unixQ'[i] = unixQ[i]
              /\ unixQ'[Len(unixQ) + 1] = c
            BY <1>1, <2>1, <3>1, AppendProperties
        <3>3. QED BY <1>1, <3>1, <3>2 DEF Pending
    <2>2. CASE c \notin UnixClients
        <3>1. tcpQ' = Append(tcpQ, c) /\ unixQ' = unixQ
            BY <2>2 DEF ClientStart
        <3>2. /\ tcpQ' \in Seq(Clients \ UnixClients) /\ Len(tcpQ') = Len(tcpQ) + 1 /\ Len(tcpQ) \in Nat
              /\ \A i \in 1..Len(tcpQ) : tcpQ'[i] = tcpQ[i]
              /\ tcpQ'[Len(tcpQ) + 1] = c
            BY <1>1, <2>2, <3>1, AppendProperties
        <3>3. QED BY <1>1, <3>1, <3>2 DEF Pending
    <2>3. QED BY <2>1, <2>2
<1>3. TypeOK'
    BY <1>2 DEF IInv, TypeOK, ClientStart, pullVars
<1>4. WaitIsEmpty'
    BY DEF IInv, WaitIsEmpty, ClientStart, pullVars
<1>5. Conserved'
    <2>1. Path(c)' = Path(c) /\ item'[c] = item[c]
        BY DEF IInv, TypeOK, ClientStart, Path, InRegister, InRetry, pullVars
    <2>2. QED BY <2>1, OthersKept DEF IInv, Conserved, Path
<1>6. NothingLeftBehind'
    <2>1. ASSUME NEW d \in Clients, d # c
          PROVE  state'[d] = state[d] /\ wire'[d] = wire[d] /\ (Pending(d) => Pending(d)')
        BY <1>2, <2>1, OthersKept DEF IInv
    <2>2. sock' = sock
        BY DEF ClientStart
    <2>3. QED BY <1>2, <2>1, <2>2 DEF IInv, NothingLeftBehind, Connected
<1>7. QED BY <1>3, <1>4, <1>5, <1>6 DEF IInv

\* A client that presents an item has not handed it over yet.
LEMMA ClientPresentInv ==
    ASSUME IInv, NEW c \in Clients, ClientPresent(c)
    PROVE  IInv'
<1>1. UNCHANGED <<state, rdy, item, dataQ, wire, connVars, pullVars>>
    BY DEF ClientPresent
<1>2. TypeOK'
    BY <1>1 DEF IInv, TypeOK, ClientPresent, connVars, pullVars
<1>3. WaitIsEmpty' /\ Conserved' /\ NothingLeftBehind'
    BY <1>1 DEF IInv, WaitIsEmpty, Conserved, InRegister, InRetry, NothingLeftBehind, Connected,
                Pending, connVars, pullVars
<1>4. QED BY <1>2, <1>3 DEF IInv

\* A client that ends keeps what it has; only from then on may it be closed.
LEMMA ClientExitInv ==
    ASSUME IInv, NEW c \in Clients, ClientExit(c)
    PROVE  IInv'
<1>1. /\ UNCHANGED <<vld, rdy, item, dataQ, wire, connVars, pullVars>>
      /\ state[c] = "up" /\ state' = [state EXCEPT ![c] = "gone"]
    BY DEF ClientExit
<1>2. TypeOK'
    BY <1>1 DEF IInv, TypeOK, connVars, pullVars
<1>3. WaitIsEmpty'
    BY <1>1 DEF IInv, WaitIsEmpty, pullVars
<1>4. Conserved'
    <2>1. Path(c)' = Path(c) /\ item'[c] = item[c]
        BY <1>1 DEF IInv, TypeOK, Path, InRegister, InRetry, pullVars
    <2>2. QED BY <2>1, OthersKept DEF IInv, Conserved, Path
<1>5. NothingLeftBehind'
    BY <1>1 DEF IInv, TypeOK, NothingLeftBehind, Connected, Pending, connVars
<1>6. QED BY <1>2, <1>3, <1>4, <1>5 DEF IInv

\* What a push moves: the item d goes to the connection or stays for the retry.
LEMMA PushKeeps ==
    ASSUME TypeOK, NEW c \in Clients, NEW d \in Nat, Push(c, d)
    PROVE  /\ wire' \in [Clients -> Seq(Nat)] /\ \A b \in Clients : Len(wire'[b]) <= Cap
           /\ rdy' \in [Clients -> BOOLEAN]
           /\ \/ wire'[c] = Append(wire[c], d) /\ rdy'[c]
              \/ wire'[c] = wire[c] /\ ~rdy'[c]
<1>1. wire \in [Clients -> Seq(Nat)] /\ rdy \in [Clients -> BOOLEAN] /\ wire[c] \in Seq(Nat)
    BY DEF TypeOK
<1>2. CASE Len(wire[c]) < Cap
    <2>1. wire' = [wire EXCEPT ![c] = Append(wire[c], d)] /\ rdy' = [rdy EXCEPT ![c] = TRUE]
        BY <1>2 DEF Push
    <2>2. Append(wire[c], d) \in Seq(Nat) /\ Len(Append(wire[c], d)) = Len(wire[c]) + 1
        BY <1>1, AppendProperties
    <2>3. \A b \in Clients : Len(wire'[b]) <= Cap
        <3>1. Len(wire[c]) \in Nat /\ Cap \in Nat
            BY <1>1, LenProperties, ClientToServerAssumption
        <3>2. QED BY <1>1, <1>2, <2>1, <2>2, <3>1 DEF TypeOK
    <2>4. QED BY <1>1, <2>1, <2>2, <2>3
<1>3. CASE ~(Len(wire[c]) < Cap)
    BY <1>1, <1>3 DEF Push, TypeOK
<1>4. QED BY <1>2, <1>3

\* A client that is up and pushes: nothing else of the channel moves.
LEMMA PushKeepsBehind ==
    ASSUME IInv, NEW c \in Clients, state[c] = "up", ClientPosedge(c)
    PROVE  WaitIsEmpty' /\ NothingLeftBehind'
<1>1. UNCHANGED <<state, connVars, pullVars>>
    BY DEF ClientPosedge, ClientTake, Take, ClientRetry
<1>2. \A d \in Clients : d # c => wire'[d] = wire[d]
    BY OthersKept DEF IInv
<1>3. QED
    BY <1>1, <1>2 DEF IInv, WaitIsEmpty, NothingLeftBehind, Connected, Pending, connVars, pullVars

\* The item is taken: it is on the connection or in data_q, behind all others.
LEMMA ClientTakeInv ==
    ASSUME IInv, NEW c \in Clients, ClientTake(c)
    PROVE  IInv'
<1>1. /\ state[c] = "up" /\ rdy[c] /\ Push(c, item[c])
      /\ item' = [item EXCEPT ![c] = @ + 1] /\ dataQ' = [dataQ EXCEPT ![c] = item[c]]
      /\ vld' \in [Clients -> BOOLEAN]
      /\ UNCHANGED <<state, connVars, pullVars>>
    BY DEF IInv, TypeOK, ClientTake, Take
<1>2. item[c] \in Nat \ {0}
    BY DEF IInv, TypeOK
<1>3. /\ wire' \in [Clients -> Seq(Nat)] /\ \A b \in Clients : Len(wire'[b]) <= Cap
      /\ rdy' \in [Clients -> BOOLEAN]
      /\ \/ wire'[c] = Append(wire[c], item[c]) /\ rdy'[c]
         \/ wire'[c] = wire[c] /\ ~rdy'[c]
    BY <1>1, <1>2, PushKeeps DEF IInv
<1>4. TypeOK'
    <2>1. item' \in [Clients -> Nat \ {0}] /\ dataQ' \in [Clients -> Nat]
        <3>1. item[c] + 1 \in Nat \ {0} /\ item[c] \in Nat
            BY <1>2
        <3>2. QED BY <1>1, <3>1 DEF IInv, TypeOK
    <2>2. QED BY <1>1, <1>3, <2>1 DEF IInv, TypeOK, connVars, pullVars
<1>5. Conserved'
    <2>1. Path(c)' = Append(Path(c), item[c])
        <3> DEFINE front == got[c] \o InRegister(c)
        <3>1. /\ front \in Seq(Nat) /\ wire[c] \in Seq(Nat) /\ <<item[c]>> \in Seq(Nat)
            BY <1>2 DEF IInv, TypeOK, InRegister
        <3>2. Path(c) = front \o wire[c]
            <4>1. InRetry(c) = <<>>
                BY <1>1 DEF InRetry
            <4>2. QED BY <3>1, <4>1, ConcatProperties, ConcatEmptySeq DEF Path
        <3>3. Path(c)' = (front \o wire'[c]) \o InRetry(c)'
            BY <1>1 DEF Path, InRegister, pullVars
        <3>4. CASE wire'[c] = Append(wire[c], item[c]) /\ rdy'[c]
            <4>1. InRetry(c)' = <<>> /\ wire'[c] = wire[c] \o <<item[c]>> /\ wire'[c] \in Seq(Nat)
                BY <1>2, <1>3, <3>1, <3>4, AppendIsConcat DEF InRetry
            <4> HIDE DEF front
            <4>2. Path(c)' = front \o (wire[c] \o <<item[c]>>)
                BY <3>1, <3>3, <4>1, ConcatProperties, ConcatEmptySeq
            <4>3. QED BY <1>2, <3>1, <3>2, <4>2, ConcatAssociative, AppendIsConcat, ConcatProperties
        <3>5. CASE wire'[c] = wire[c] /\ ~rdy'[c]
            <4>1. InRetry(c)' = <<item[c]>>
                BY <1>1, <3>5 DEF IInv, TypeOK, InRetry
            <4> HIDE DEF front
            <4>2. QED BY <1>2, <3>1, <3>2, <3>3, <3>5, <4>1, AppendIsConcat, ConcatProperties
        <3>6. QED BY <1>3, <3>4, <3>5
    <2>2. Path(c) = Up(item[c] - 1)
        BY DEF IInv, Conserved, Path, Up
    <2>3. Append(Up(item[c] - 1), item[c]) = Up(item'[c] - 1)
        <3>1. \A n \in Nat : Append(Up(n), n + 1) = Up(n + 1)
            BY DEF Up
        <3>2. item'[c] = item[c] + 1
            BY <1>1 DEF IInv, TypeOK
        <3>3. item[c] - 1 \in Nat /\ item[c] = (item[c] - 1) + 1 /\ item'[c] - 1 = (item[c] - 1) + 1
            BY <1>2, <3>2
        <3>4. QED BY <3>1, <3>3
    <2>4. Path(c)' = Up(item'[c] - 1)
        BY <2>1, <2>2, <2>3
    <2>5. ASSUME NEW d \in Clients, d # c PROVE Path(d)' = Up(item'[d] - 1)
        <3>1. Path(d)' = Path(d) /\ item'[d] = item[d]
            BY <2>5, OthersKept DEF IInv, ClientPosedge
        <3>2. QED BY <3>1 DEF IInv, Conserved, Path, Up
    <2>6. QED BY <2>4, <2>5 DEF Conserved, Path, Up
<1>6. QED BY <1>1, <1>4, <1>5, PushKeepsBehind DEF IInv, ClientPosedge

\* The item of data_q is sent, or stays where it is.
LEMMA ClientRetryInv ==
    ASSUME IInv, NEW c \in Clients, ClientRetry(c)
    PROVE  IInv'
<1>1. /\ state[c] = "up" /\ ~rdy[c] /\ Push(c, dataQ[c])
      /\ UNCHANGED <<state, vld, item, dataQ, connVars, pullVars>>
    BY DEF ClientRetry
<1>2. dataQ[c] \in Nat
    BY DEF IInv, TypeOK
<1>3. /\ wire' \in [Clients -> Seq(Nat)] /\ \A b \in Clients : Len(wire'[b]) <= Cap
      /\ rdy' \in [Clients -> BOOLEAN]
      /\ \/ wire'[c] = Append(wire[c], dataQ[c]) /\ rdy'[c]
         \/ wire'[c] = wire[c] /\ ~rdy'[c]
    BY <1>1, <1>2, PushKeeps DEF IInv
<1>4. TypeOK'
    BY <1>1, <1>3 DEF IInv, TypeOK, connVars, pullVars
<1>5. Conserved'
    <2>1. Path(c)' = Path(c)
        <3> DEFINE front == got[c] \o InRegister(c)
        <3>1. /\ front \in Seq(Nat) /\ wire[c] \in Seq(Nat) /\ <<dataQ[c]>> \in Seq(Nat)
            BY <1>2 DEF IInv, TypeOK, InRegister
        <3>2. Path(c) = (front \o wire[c]) \o <<dataQ[c]>>
            BY <1>1 DEF Path, InRetry
        <3>3. Path(c)' = (front \o wire'[c]) \o InRetry(c)'
            BY <1>1 DEF Path, InRegister, pullVars
        <3>4. CASE wire'[c] = Append(wire[c], dataQ[c]) /\ rdy'[c]
            <4>1. InRetry(c)' = <<>> /\ wire'[c] = wire[c] \o <<dataQ[c]>> /\ wire'[c] \in Seq(Nat)
                BY <1>2, <1>3, <3>1, <3>4, AppendIsConcat DEF InRetry
            <4> HIDE DEF front
            <4>2. Path(c)' = front \o (wire[c] \o <<dataQ[c]>>)
                BY <3>1, <3>3, <4>1, ConcatProperties, ConcatEmptySeq
            <4>3. (front \o wire[c]) \o <<dataQ[c]>> = front \o (wire[c] \o <<dataQ[c]>>)
                BY <3>1, PathParts, Zenon
            <4>4. QED BY <3>2, <4>2, <4>3
        <3>5. CASE wire'[c] = wire[c] /\ ~rdy'[c]
            BY <1>1, <3>2, <3>3, <3>5 DEF InRetry
        <3>6. QED BY <1>3, <3>4, <3>5
    <2>2. item'[c] = item[c]
        BY <1>1
    <2>3. QED BY <2>1, <2>2, OthersKept DEF IInv, Conserved, Path, ClientPosedge
<1>6. QED BY <1>1, <1>4, <1>5, PushKeepsBehind DEF IInv, ClientPosedge

-----------------------------------------------------------------------------
(* Each client has a channel *)

\* The item in the register follows the ones the server's user took.
LEMMA ShownIsNext ==
    ASSUME IInv, NEW c \in Clients, outVld, out.client = c
    PROVE  out.item = Len(got[c]) + 1
<1> DEFINE behind == wire[c] \o InRetry(c)
<1>1. /\ got[c] \in Seq(Nat) /\ <<out.item>> \in Seq(Nat) /\ InRegister(c) = <<out.item>>
      /\ wire[c] \in Seq(Nat) /\ InRetry(c) \in Seq(Nat)
    BY DEF IInv, TypeOK, InRegister, InRetry
<1>2. /\ (got[c] \o <<out.item>>) \in Seq(Nat)
      /\ Len(got[c] \o <<out.item>>) = Len(got[c]) + 1
      /\ (got[c] \o <<out.item>>)[Len(got[c]) + 1] = out.item
      /\ Len(got[c]) \in Nat
    BY <1>1
<1>3. behind \in Seq(Nat) /\ Len(behind) \in Nat
    BY <1>1, ConcatProperties
<1>4. Path(c) = (got[c] \o <<out.item>>) \o behind
    <2>1. Path(c) = ((got[c] \o <<out.item>>) \o wire[c]) \o InRetry(c)
        BY <1>1 DEF Path
    <2>2. ((got[c] \o <<out.item>>) \o wire[c]) \o InRetry(c)
              = (got[c] \o <<out.item>>) \o (wire[c] \o InRetry(c))
        <3>1. (got[c] \o <<out.item>>) \in Seq(Nat) /\ wire[c] \in Seq(Nat) /\ InRetry(c) \in Seq(Nat)
            BY <1>1, <1>2
        <3>2. QED BY <3>1, PathParts, Zenon
    <2>3. QED BY <2>1, <2>2
<1> HIDE DEF behind
<1>5. Len(Path(c)) = Len(got[c]) + 1 + Len(behind) /\ Path(c)[Len(got[c]) + 1] = out.item
    BY <1>2, <1>3, <1>4, ConcatProperties
<1>6. Path(c) = Up(item[c] - 1) /\ item[c] - 1 \in Nat
    <2>1. item[c] \in Nat \ {0}
        BY DEF IInv, TypeOK
    <2>2. Path(c) = Up(item[c] - 1)
        BY DEF IInv, Conserved, Path, Up
    <2>3. QED BY <2>1, <2>2
<1>7. \A n \in Nat : Len(Up(n)) = n /\ \A i \in 1..n : Up(n)[i] = i
    BY DEF Up
<1>8. Len(got[c]) + 1 \in 1..(item[c] - 1)
    <2>1. item[c] - 1 = Len(got[c]) + 1 + Len(behind)
        BY <1>5, <1>6, <1>7
    <2>2. QED BY <1>2, <1>3, <1>6, <2>1
<1>9. QED BY <1>5, <1>6, <1>7, <1>8

\* A posedge that empties the register, or shows the item of another client, is
\* for c one at which nothing had come.
LEMMA NothingForClient ==
    ASSUME IInv, NEW ready \in BOOLEAN, ~outVld \/ ready, Consume(ready),
           NEW c \in Clients, ~(outVld' /\ out'.client = c),
           wire'[c] = wire[c], UNCHANGED clientVars
    PROVE  Channel(c)!PullPosedge(ready)
<1>1. got \in [Clients -> Seq(Nat)]
    BY DEF IInv, TypeOK
<1>2. (IF outVld /\ out.client = c THEN out.item ELSE Len(got[c])) = Len(got'[c])
    <2>1. CASE outVld /\ out.client = c
        <3>1. got'[c] = Append(got[c], out.item) /\ out.item \in Nat /\ got[c] \in Seq(Nat)
            BY <1>1, <2>1 DEF Consume, IInv, TypeOK
        <3>2. Len(got'[c]) = Len(got[c]) + 1
            BY <3>1
        <3>3. QED BY <2>1, <3>2, ShownIsNext
    <2>2. CASE ~(outVld /\ out.client = c)
        BY <1>1, <2>2 DEF Consume
    <2>3. QED BY <2>1, <2>2
<1>3. Channel(c)!PullNothing(ready)
    BY <1>2 DEF Channel!PullNothing
<1>4. QED
    BY <1>3 DEF Channel!PullPosedge, Channel!pushVars, clientVars

\* A posedge of the server.
LEMMA ServerStep ==
    ASSUME IInv, NEW ready \in BOOLEAN, ServerPosedge(ready), NEW c \in Clients
    PROVE  ChannelStep(c)
<1>1. CASE WaitBegin(ready) \/ WaitStep(ready)
    <2>1. ~outVld \/ ready
        BY <1>1 DEF IInv, TypeOK, WaitIsEmpty, WaitBegin, WaitStep, AtTop
    <2>2. Consume(ready) /\ ~outVld' /\ UNCHANGED <<clientVars, wire>>
        BY <1>1 DEF WaitBegin, WaitStep
    <2>3. Channel(c)!PullPosedge(ready)
        BY <2>1, <2>2, NothingForClient
    <2>4. QED BY <2>3 DEF ChannelStep, Channel!ChannelNext
<1>2. CASE PullFail(ready)
    <2>1. ~outVld \/ ready
        BY <1>2, CallIsFree DEF PullFail, PullNothing
    <2>2. Consume(ready) /\ ~outVld' /\ UNCHANGED <<clientVars, wire>>
        BY <1>2 DEF PullFail, PullNothing
    <2>3. Channel(c)!PullPosedge(ready)
        BY <2>1, <2>2, NothingForClient
    <2>4. QED BY <2>3 DEF ChannelStep, Channel!ChannelNext
<1>3. CASE PullOk(ready)
    <2>1. ~outVld \/ ready
        BY <1>3, CallIsFree DEF PullOk
    <2>2. /\ Consume(ready) /\ outVld' = TRUE /\ UNCHANGED clientVars
          /\ Current # None /\ wire[Current] # <<>>
          /\ wire' = [wire EXCEPT ![Current] = Tail(@)]
          /\ out' = [client |-> Current, item |-> Head(wire[Current])]
        BY <1>3 DEF PullOk
    <2>3. wire \in [Clients -> Seq(Nat)]
        BY DEF IInv, TypeOK
    <2>4. CASE c = Current
        <3>1. Channel(c)!PullOk(ready)
            BY <2>1, <2>2, <2>3, <2>4 DEF Channel!PullOk
        <3>2. Channel(c)!PullPosedge(ready)
            BY <2>2, <3>1 DEF Channel!PullPosedge, Channel!pushVars, clientVars
        <3>3. QED BY <3>2 DEF ChannelStep, Channel!ChannelNext
    <2>5. CASE c # Current
        <3>1. ~(outVld' /\ out'.client = c) /\ wire'[c] = wire[c]
            BY <2>2, <2>3, <2>5
        <3>2. Channel(c)!PullPosedge(ready)
            BY <2>1, <2>2, <3>1, NothingForClient
        <3>3. QED BY <3>2 DEF ChannelStep, Channel!ChannelNext
    <2>6. QED BY <2>4, <2>5
<1>4. QED BY <1>1, <1>2, <1>3 DEF ServerPosedge

\* A step of a client is one of its own channel only.
LEMMA ClientStep ==
    ASSUME IInv, NEW d \in Clients, NEW c \in Clients,
           ClientStart(d) \/ ClientPresent(d) \/ ClientPosedge(d) \/ ClientExit(d)
    PROVE  ChannelStep(c)
<1>1. UNCHANGED pullVars
    BY DEF ClientStart, ClientPresent, ClientPosedge, ClientTake, Take, ClientRetry, ClientExit
<1>2. CASE c # d
    <2>1. /\ state'[c] = state[c] /\ rdy'[c] = rdy[c] /\ dataQ'[c] = dataQ[c] /\ wire'[c] = wire[c]
        BY <1>2 DEF IInv, TypeOK, ClientStart, ClientPresent, ClientPosedge, ClientTake, Take,
                    ClientRetry, Push, ClientExit
    <2>2. UNCHANGED Channel(c)!channelVars
        BY <1>1, <2>1 DEF Channel!channelVars, Channel!pushVars, Channel!wireVars,
                          Channel!pullVars, pullVars
    <2>3. QED BY <2>2 DEF ChannelStep
<1>3. CASE c = d /\ ClientStart(c)
    <2>1. /\ state[c] = "down" /\ state'[c] = "up" /\ rdy'[c] = TRUE
          /\ dataQ'[c] = dataQ[c] /\ wire'[c] = wire[c]
        BY <1>3 DEF IInv, TypeOK, ClientStart
    <2>2. UNCHANGED Channel(c)!pullVars
        BY <1>1 DEF Channel!pullVars, pullVars
    <2>3. Channel(c)!Start
        BY <2>1, <2>2 DEF Channel!Start
    <2>4. QED BY <2>3 DEF ChannelStep, Channel!ChannelNext
<1>4. CASE c = d /\ (ClientPresent(c) \/ ClientExit(c))
    <2>1. UNCHANGED Channel(c)!channelVars
        BY <1>1, <1>4 DEF IInv, TypeOK, ClientPresent, ClientExit, Channel!channelVars,
                          Channel!pushVars, Channel!wireVars, Channel!pullVars, pullVars
    <2>2. QED BY <2>1 DEF ChannelStep
<1>5. CASE c = d /\ ClientPosedge(c)
    <2>1. /\ state[c] = "up" /\ state' = state
          /\ wire \in [Clients -> Seq(Nat)] /\ rdy \in [Clients -> BOOLEAN]
          /\ dataQ \in [Clients -> Nat]
        BY <1>5 DEF IInv, TypeOK, ClientPosedge, ClientTake, Take, ClientRetry
    <2>2. UNCHANGED <<Channel(c)!pullVars>> /\ state'[c] # "down" /\ state[c] # "down"
        BY <1>1, <2>1 DEF Channel!pullVars, pullVars
    <2>3. ASSUME NEW x, Push(c, x) PROVE Channel(c)!Push(x)
        BY <2>1, <2>3 DEF Push, Channel!Push
    <2>4. CASE ClientTake(c)
        <3>1. Channel(c)!PushTake(TRUE, item[c])
            BY <2>1, <2>3, <2>4 DEF ClientTake, Take, Channel!PushTake
        <3>2. Channel(c)!PushPosedge(TRUE, item[c])
            BY <2>1, <2>2, <3>1 DEF Channel!PushPosedge
        <3>3. QED BY <3>2 DEF ChannelStep, Channel!ChannelNext
    <2>5. CASE ClientRetry(c)
        <3>1. Channel(c)!PushRetry
            BY <2>1, <2>3, <2>5 DEF ClientRetry, Channel!PushRetry
        <3>2. Channel(c)!PushPosedge(FALSE, item[c])
            BY <2>1, <2>2, <3>1 DEF Channel!PushPosedge
        <3>3. QED BY <3>2 DEF ChannelStep, Channel!ChannelNext
    <2>6. QED BY <1>5, <2>4, <2>5 DEF ClientPosedge
<1>6. QED BY <1>2, <1>3, <1>4, <1>5

-----------------------------------------------------------------------------
(* The theorems *)

\* No client has started and every buffer is empty.
LEMMA InitInv == Init => IInv
<1> SUFFICES ASSUME Init PROVE IInv
    OBVIOUS
<1>1. TypeOK
    <2>1. <<>> \in Seq(Nat) /\ <<>> \in Seq(UnixClients) /\ <<>> \in Seq(Clients \ UnixClients)
          /\ Len(<<>>) = 0
        BY EmptySeq
    <2>2. /\ wire \in [Clients -> Seq(Nat)] /\ got \in [Clients -> Seq(Nat)]
          /\ \A c \in Clients : Len(wire[c]) <= Cap
        BY <2>1, ClientToServerAssumption DEF Init
    <2>3. /\ state \in [Clients -> {"down", "up", "gone"}]
          /\ vld \in [Clients -> BOOLEAN] /\ rdy \in [Clients -> BOOLEAN]
          /\ item \in [Clients -> Nat \ {0}] /\ dataQ \in [Clients -> Nat]
        BY DEF Init
    <2>4. out \in [client : Clients \cup {None}, item : Nat] /\ outVld = FALSE
        BY DEF Init
    <2>5. /\ unixQ \in Seq(UnixClients) /\ tcpQ \in Seq(Clients \ UnixClients)
          /\ sock \in Clients \cup {None} /\ left \in Nat /\ delay \in Nat
        BY <2>1 DEF Init
    <2>6. QED BY <2>2, <2>3, <2>4, <2>5 DEF TypeOK
<1>2. WaitIsEmpty /\ NothingLeftBehind
    BY DEF Init, WaitIsEmpty, NothingLeftBehind, Connected
<1>3. Conserved
    <2>1. ASSUME NEW c \in Clients
          PROVE  /\ got[c] = <<>> /\ InRegister(c) = <<>> /\ wire[c] = <<>> /\ InRetry(c) = <<>>
                 /\ item[c] = 1
        BY DEF Init, InRegister, InRetry
    <2>2. ((<<>> \o <<>>) \o <<>>) \o <<>> = Up(1 - 1)
        <3>1. <<>> = Up(0)
            BY DEF Up
        <3>2. <<>> \in Seq(Nat) /\ <<>> \o <<>> = <<>>
            OBVIOUS
        <3>3. QED BY <3>1, <3>2
    <2>3. QED BY <2>1, <2>2 DEF Conserved, Up
<1>4. QED BY <1>1, <1>2, <1>3 DEF IInv

\* No action of either side breaks it.
LEMMA NextInv == IInv /\ [Next]_vars => IInv'
<1> SUFFICES ASSUME IInv, [Next]_vars PROVE IInv'
    OBVIOUS
<1>1. ASSUME NEW c \in Clients, ClientStart(c) PROVE IInv'
    BY <1>1, ClientStartInv
<1>2. ASSUME NEW c \in Clients, ClientPresent(c) PROVE IInv'
    BY <1>2, ClientPresentInv
<1>3. ASSUME NEW c \in Clients, ClientPosedge(c) PROVE IInv'
    BY <1>3, ClientTakeInv, ClientRetryInv DEF ClientPosedge
<1>4. ASSUME NEW c \in Clients, ClientExit(c) PROVE IInv'
    BY <1>4, ClientExitInv
<1>5. ASSUME NEW ready \in BOOLEAN, ServerPosedge(ready) PROVE IInv'
    BY <1>5, WaitInv, PullOkInv, PullFailInv DEF ServerPosedge
<1>6. CASE UNCHANGED vars
    BY <1>6 DEF IInv, TypeOK, WaitIsEmpty, Conserved, InRegister, InRetry, NothingLeftBehind,
                Connected, Pending, vars, clientVars, connVars, pullVars
<1>7. QED BY <1>1, <1>2, <1>3, <1>4, <1>5, <1>6 DEF Next

\* The inductive invariant holds in every state of every run.
THEOREM Invariance == Spec => []IInv
BY InitInv, NextInv, PTL DEF Spec

\* The variables of the two modules and of the DPI calls between them keep their
\* types, and no connection holds more than the kernel's buffer.
THEOREM TypeCorrect == Spec => []TypeOK
<1>1. IInv => TypeOK
    BY DEF IInv
<1>2. QED BY <1>1, Invariance, PTL

\* Every item a user handed over is in one place, in order, whatever the
\* back-pressure, the delays, the clients and the buffers are.
THEOREM ConservedHolds == Spec => []Conserved
<1>1. IInv => Conserved
    BY DEF IInv
<1>2. QED BY <1>1, Invariance, PTL

\* The server closes no connection on which something may still come.
THEOREM NothingLeftBehindHolds == Spec => []NothingLeftBehind
<1>1. IInv => NothingLeftBehind
    BY DEF IInv
<1>2. QED BY <1>1, Invariance, PTL

\* Each client has a ready/valid channel of its own to the server: what the
\* modules built on top of the push and pull modules assume of them.
THEOREM ChannelRefinement == Spec => ImplementsChannel
<1>1. ASSUME Init, NEW c \in Clients PROVE Channel(c)!ChannelInit(0)
    BY <1>1 DEF Init, Channel!ChannelInit
<1>2. IInv /\ [Next]_vars => [\A c \in Clients : ChannelStep(c)]_vars
    <2> SUFFICES ASSUME IInv, Next, NEW c \in Clients PROVE ChannelStep(c)
        OBVIOUS
    <2>1. QED BY ClientStep, ServerStep DEF Next
<1>3. Init => \A c \in Clients : Channel(c)!ChannelInit(0)
    BY <1>1
<1>4. QED BY <1>2, <1>3, Invariance, PTL DEF Spec, ImplementsChannel
=============================================================================
