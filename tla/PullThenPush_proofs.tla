------------------------ MODULE PullThenPush_proofs ------------------------
(***************************************************************************)
(* Proofs about PullThenPush for any clients and commands, any delays and  *)
(* buffers, any width of an int, and a device that may be busy.            *)
(***************************************************************************)
EXTENDS PullThenPush, SequenceTheorems, TLAPS

-----------------------------------------------------------------------------
(* The inductive invariant *)

\* Where the process is tells which registers hold a message.
Control ==
    /\ cmdVld <=> pc = "present"
    /\ rspRdy <=> pc = "respond"
    /\ rspVld => todo # None
    /\ todo # None => pc = "respond"
    /\ pc = "present" => command # None
    /\ pc = "retry" => dataQ # None

\* No client comes before its time.
InTurn ==
    /\ up => client # 0
    /\ cmdSock.of <= client /\ rspSock.of <= client
    /\ \A c \in 1..Clients :
          c > client => sent[c] = 0 /\ cmd[c] = <<>> /\ rsp[c] = <<>> /\ answers[c] = <<>>

\* s has the messages of client c that follow number k.
Follow(s, c, k) == \A n \in 1..Len(s) : s[n] = <<c, k + n>>

\* The device was busy when the command came: the process waits for a response to a
\* command that nobody has.
Stuck == pc = "respond" /\ todo = None

\* The message between the two ports of the process, if there is one.
Holds == pc \in {"present", "respond", "retry"}
Held == IF pc = "present" THEN command ELSE IF pc = "respond" THEN todo ELSE dataQ

\* The responses of client c that the process has handed over.
Handed(c) == Len(answers[c]) + Len(rsp[c])

\* The messages of client c, in order, at their places.
Flow(c) ==
    /\ Follow(answers[c], c, 0)
    /\ Follow(rsp[c], c, Len(answers[c]))
    /\ Stuck => Handed(c) < sent[c]
    /\ Holds /\ ~Stuck => /\ Held = <<c, Handed(c) + 1>>
                          /\ Follow(cmd[c], c, Handed(c) + 1)
                          /\ sent[c] = Handed(c) + 1 + Len(cmd[c])
    /\ ~Holds => /\ Follow(cmd[c], c, Handed(c))
                 /\ sent[c] = Handed(c) + Len(cmd[c])

\* A client that runs has the servers to itself, between two clients they are empty.
Alone ==
    /\ up /\ NoneBefore(client) => Flow(client) /\ \A c \in 1..(client - 1) : cmd[c] = <<>>
    /\ ~up /\ NoneBefore(client + 1) => ~Holds /\ \A c \in 1..client : cmd[c] = <<>>

IInv == TypeOK /\ Control /\ InTurn /\ Alone /\ OwnAnswers

-----------------------------------------------------------------------------
(* Operators *)

LEMMA FollowEmpty == ASSUME NEW c, NEW k PROVE Follow(<<>>, c, k)
BY DEF Follow

LEMMA FollowAppend ==
    ASSUME NEW c, NEW k \in Nat, NEW s \in Seq(Messages), NEW m \in Messages,
           Follow(s, c, k), m = <<c, k + Len(s) + 1>>
    PROVE  Follow(Append(s, m), c, k)
<1>1. /\ Len(s) \in Nat /\ Len(Append(s, m)) = Len(s) + 1 /\ Append(s, m)[Len(s) + 1] = m
      /\ \A n \in 1..Len(s) : Append(s, m)[n] = s[n]
    OBVIOUS
<1>2. \A n \in 1..(Len(s) + 1) : n \in 1..Len(s) \/ n = Len(s) + 1
    BY <1>1
<1>3. k + (Len(s) + 1) = k + Len(s) + 1
    BY <1>1
<1>4. QED BY <1>1, <1>2, <1>3 DEF Follow

LEMMA FollowTail ==
    ASSUME NEW c, NEW k \in Nat, NEW s \in Seq(Messages), Follow(s, c, k), s # <<>>
    PROVE  Head(s) = <<c, k + 1>> /\ Follow(Tail(s), c, k + 1) /\ Len(Tail(s)) = Len(s) - 1
<1>1. Len(s) \in Nat \ {0} /\ Head(s) = s[1] /\ Len(Tail(s)) = Len(s) - 1
      /\ \A n \in 1..Len(Tail(s)) : Tail(s)[n] = s[n + 1]
    OBVIOUS
<1>2. \A n \in 1..Len(s) : s[n] = <<c, k + n>>
    BY DEF Follow
<1>3. \A n \in 1..Len(Tail(s)) : n + 1 \in 1..Len(s) /\ k + (n + 1) = (k + 1) + n
    BY <1>1
<1>4. QED BY <1>1, <1>2, <1>3 DEF Follow

\* A sequence of the messages from the first one on is what OwnAnswers says.
LEMMA FollowFromStart ==
    ASSUME NEW c, NEW s \in Seq(Messages), Follow(s, c, 0)
    PROVE  s = [n \in 1..Len(s) |-> <<c, n>>]
<1>1. s = [n \in 1..Len(s) |-> s[n]] /\ Len(s) \in Nat
    OBVIOUS
<1>2. \A n \in 1..Len(s) : s[n] = <<c, n>>
    BY <1>1 DEF Follow
<1>3. QED BY <1>1, <1>2

LEMMA NoneIsNoMessage == None \notin Messages
BY PullThenPushAssumption DEF None, Messages

\* The client of a connection is one that has come.
LEMMA CurrentIs ==
    ASSUME TypeOK, NEW s \in Socks, s.of <= client
    PROVE  Current(s) \in 0..client /\ (Current(s) # 0 => Current(s) \in 1..Clients)
<1>1. client \in Nat /\ client <= Clients /\ Clients \in Nat
    BY PullThenPushAssumption DEF TypeOK
<1>2. s.of \in Nat
    BY PullThenPushAssumption DEF Socks
<1>3. Current(s) = s.of \/ (s.of < client /\ Current(s) = s.of + 1) \/ Current(s) = 0
    BY DEF Current
<1>4. QED BY <1>1, <1>2, <1>3

LEMMA SockIs ==
    ASSUME NEW c \in 0..Clients
    PROVE  Open(c) \in Socks /\ Closed(c) \in Socks /\ Open(c).of = c /\ Closed(c).of = c
BY DEF Socks, Open, Closed

LEMMA GraceStays == ASSUME NEW g \in Ints PROVE Minus1(g) \in Ints
<1>1. \A h \in Nat \ {0} : \A i \in (-h)..(h - 1) :
        (IF i = -h THEN h - 1 ELSE i - 1) \in (-h)..(h - 1)
    OBVIOUS
<1>2. QED BY <1>1, PullThenPushAssumption DEF Minus1, Ints

LEMMA DelayStays ==
    ASSUME NEW d \in 0..Inactive, NEW g \in Ints
    PROVE  InactiveDelay(d, g) \in 0..Inactive
<1>1. \A p \in BOOLEAN : (IF p THEN d ELSE IF d <= 0 THEN 1 ELSE 4 * d) \in Nat
    BY PullThenPushAssumption
<1>2. \A next \in Nat : (IF next < Inactive THEN next ELSE Inactive) \in 0..Inactive
    BY PullThenPushAssumption
<1>3. (g > 0) \in BOOLEAN
    BY PullThenPushAssumption DEF Ints
<1>4. QED BY <1>1, <1>2, <1>3 DEF InactiveDelay

-----------------------------------------------------------------------------
(* The clients *)

\* What a step of a client does not touch.
LEMMA ControlKept ==
    ASSUME Control, UNCHANGED serverVars
    PROVE  Control' /\ (Holds' <=> Holds) /\ (Stuck' <=> Stuck) /\ Held' = Held
BY DEF Control, serverVars, pullVars, deviceVars, pushVars, Holds, Stuck, Held

LEMMA ServerTypeKept ==
    ASSUME TypeOK, UNCHANGED serverVars
    PROVE  /\ cmdSock' \in Socks /\ rspSock' \in Socks
           /\ pc' \in {"top", "delay", "present", "respond", "retry"}
           /\ left' \in 0..Inactive /\ delay' \in 0..Inactive /\ grace' \in Ints
           /\ cmdVld' \in BOOLEAN /\ rspVld' \in BOOLEAN /\ rspRdy' \in BOOLEAN
           /\ {command', todo', dataQ'} \subseteq Messages \cup {None}
BY DEF TypeOK, serverVars, pullVars, deviceVars, pushVars

LEMMA ClientStartInv == ASSUME IInv, ClientStart PROVE IInv'
<1>1. /\ ~up /\ client < Clients /\ client' = client + 1 /\ up' = TRUE
      /\ UNCHANGED <<killed, sent, answers, cmd, rsp, serverVars>>
    BY DEF ClientStart
<1>2. TypeOK /\ Control /\ InTurn /\ Alone /\ OwnAnswers
    BY DEF IInv
<1>3. client \in Nat /\ client' \in 1..Clients
    BY <1>1, <1>2, PullThenPushAssumption DEF TypeOK
<1>4. TypeOK'
    BY <1>1, <1>2, <1>3, ServerTypeKept DEF TypeOK
<1>5. Control' /\ (Holds' <=> Holds) /\ (Stuck' <=> Stuck) /\ Held' = Held
    BY <1>1, <1>2, ControlKept
<1>6. InTurn'
    <2>1. cmdSock' = cmdSock /\ rspSock' = rspSock /\ cmdSock.of \in Nat /\ rspSock.of \in Nat
        BY <1>1, <1>2, PullThenPushAssumption DEF serverVars, TypeOK, Socks
    <2>2. cmdSock'.of <= client' /\ rspSock'.of <= client' /\ client' # 0
        BY <1>1, <1>2, <1>3, <2>1 DEF InTurn
    <2>3. \A c \in 1..Clients : c > client' => c > client
        BY <1>1, <1>3
    <2>4. QED BY <1>1, <1>2, <2>2, <2>3 DEF InTurn
<1>7. Alone'
    <2> SUFFICES ASSUME NoneBefore(client)'
                 PROVE  Flow(client)' /\ \A c \in 1..(client' - 1) : cmd'[c] = <<>>
        BY <1>1 DEF Alone
    <2> PICK n : n = client'
        OBVIOUS
    <2>1. NoneBefore(client + 1)
        BY <1>1 DEF NoneBefore
    <2>2. ~Holds /\ \A c \in 1..client : cmd[c] = <<>>
        BY <1>1, <1>2, <2>1 DEF Alone
    <2>3. sent'[n] = 0 /\ cmd'[n] = <<>> /\ rsp'[n] = <<>> /\ answers'[n] = <<>>
        BY <1>1, <1>2, <1>3 DEF InTurn
    <2>4. ~Holds' /\ ~Stuck'
        BY <1>5, <2>2 DEF Holds, Stuck
    <2>5. Flow(n)'
        BY <2>3, <2>4, FollowEmpty DEF Flow, Handed
    <2>6. client' - 1 = client
        BY <1>1, <1>3
    <2>7. QED BY <1>1, <2>2, <2>5, <2>6 DEF Flow, Handed
<1>8. OwnAnswers'
    BY <1>1, <1>2 DEF OwnAnswers, NoneBefore
<1>9. QED BY <1>4, <1>5, <1>6, <1>7, <1>8 DEF IInv

LEMMA ClientSendInv == ASSUME IInv, ClientSend PROVE IInv'
<1>0. PICK n : n = client
    OBVIOUS
<1>1. /\ up /\ sent[n] < Commands /\ Len(cmd[n]) < Cap
      /\ sent' = [sent EXCEPT ![n] = @ + 1]
      /\ cmd' = [cmd EXCEPT ![n] = Append(@, <<n, sent'[n]>>)]
      /\ UNCHANGED <<client, up, killed, answers, rsp, serverVars>>
    BY <1>0 DEF ClientSend
<1>2. TypeOK /\ Control /\ InTurn /\ Alone /\ OwnAnswers
    BY DEF IInv
<1>3. /\ n \in 1..Clients /\ sent[n] \in Nat /\ sent'[n] = sent[n] + 1
      /\ sent' \in [1..Clients -> 0..Commands]
      /\ \A c \in 1..Clients : c # n => sent'[c] = sent[c] /\ cmd'[c] = cmd[c]
    <2>1. n \in 1..Clients
        BY <1>0, <1>1, <1>2, PullThenPushAssumption DEF TypeOK, InTurn
    <2>2. sent \in [1..Clients -> 0..Commands] /\ cmd \in [1..Clients -> Seq(Messages)]
        BY <1>2 DEF TypeOK
    <2>3. sent[n] + 1 \in 0..Commands
        BY <1>1, <2>1, <2>2, PullThenPushAssumption
    <2>4. QED BY <1>1, <2>1, <2>2, <2>3
<1>4. <<n, sent[n] + 1>> \in Messages /\ cmd[n] \in Seq(Messages)
    <2>1. sent[n] + 1 \in 1..Commands
        BY <1>1, <1>3, PullThenPushAssumption
    <2>2. QED BY <1>2, <1>3, <2>1 DEF Messages, TypeOK
<1>5. cmd'[n] = Append(cmd[n], <<n, sent[n] + 1>>)
    BY <1>1, <1>2, <1>3 DEF TypeOK
<1>6. cmd'[n] \in Seq(Messages) /\ Len(cmd'[n]) = Len(cmd[n]) + 1 /\ Len(cmd[n]) \in Nat
    BY <1>4, <1>5
<1>7. TypeOK'
    <2>1. cmd' \in [1..Clients -> Seq(Messages)]
        BY <1>1, <1>2, <1>3, <1>5, <1>6 DEF TypeOK
    <2>2. \A c \in 1..Clients : Len(cmd'[c]) <= Cap
        BY <1>1, <1>2, <1>3, <1>6, PullThenPushAssumption DEF TypeOK
    <2>3. QED BY <1>1, <1>2, <1>3, <2>1, <2>2, ServerTypeKept DEF TypeOK
<1>8. Control' /\ (Holds' <=> Holds) /\ (Stuck' <=> Stuck) /\ Held' = Held
    BY <1>1, <1>2, ControlKept
<1>9. InTurn'
    BY <1>0, <1>1, <1>2, <1>3 DEF InTurn, serverVars
<1>10. ASSUME NoneBefore(n)
       PROVE  Flow(n)' /\ \A c \in 1..(n - 1) : cmd'[c] = <<>>
    <2>1. Flow(n) /\ \A c \in 1..(n - 1) : cmd[c] = <<>>
        BY <1>0, <1>1, <1>2, <1>10 DEF Alone
    <2>2. Handed(n)' = Handed(n) /\ Handed(n) \in Nat
        BY <1>1, <1>2, <1>3 DEF Handed, TypeOK
    <2>3. Follow(answers[n], n, 0)' /\ Follow(rsp[n], n, Len(answers[n]))'
        BY <1>1, <2>1 DEF Flow
    <2>4. ASSUME NEW k \in Nat, Follow(cmd[n], n, k), sent[n] = k + Len(cmd[n])
          PROVE  Follow(cmd'[n], n, k) /\ sent'[n] = k + Len(cmd'[n])
        <3>1. /\ k \in Nat /\ cmd[n] \in Seq(Messages) /\ <<n, sent[n] + 1>> \in Messages
              /\ Follow(cmd[n], n, k) /\ <<n, sent[n] + 1>> = <<n, k + Len(cmd[n]) + 1>>
            BY <1>4, <2>4
        <3>2. Follow(Append(cmd[n], <<n, sent[n] + 1>>), n, k)
            BY <3>1, FollowAppend
        <3>3. sent'[n] = k + Len(cmd'[n])
            BY <1>3, <1>6, <2>4
        <3>4. QED BY <1>5, <3>2, <3>3
    <2>5. \A c \in 1..(n - 1) : cmd'[c] = <<>>
        BY <1>3, <2>1, PullThenPushAssumption
    <2>6. CASE Stuck
        <3>1. Stuck' /\ Holds' /\ Handed(n)' < sent'[n]
            BY <1>3, <1>8, <2>1, <2>2, <2>6 DEF Flow, Stuck, Holds
        <3>2. QED BY <2>3, <2>5, <3>1 DEF Flow
    <2>7. CASE Holds /\ ~Stuck
        <3>1. /\ Held = <<n, Handed(n) + 1>> /\ Handed(n) + 1 \in Nat
              /\ Follow(cmd[n], n, Handed(n) + 1) /\ sent[n] = Handed(n) + 1 + Len(cmd[n])
            BY <2>1, <2>2, <2>7 DEF Flow
        <3>2. Follow(cmd'[n], n, Handed(n) + 1) /\ sent'[n] = Handed(n) + 1 + Len(cmd'[n])
            BY <2>4, <3>1
        <3>3. QED BY <1>8, <2>2, <2>3, <2>5, <2>7, <3>1, <3>2 DEF Flow
    <2>8. CASE ~Holds /\ ~Stuck
        <3>1. Follow(cmd'[n], n, Handed(n)) /\ sent'[n] = Handed(n) + Len(cmd'[n])
            BY <2>1, <2>2, <2>4, <2>8 DEF Flow
        <3>2. QED BY <1>8, <2>2, <2>3, <2>5, <2>8, <3>1 DEF Flow
    <2>9. QED BY <2>6, <2>7, <2>8
<1>11. Alone'
    <2> SUFFICES ASSUME NoneBefore(n)
                 PROVE  Flow(client)' /\ \A c \in 1..(n - 1) : cmd'[c] = <<>>
        BY <1>0, <1>1 DEF Alone, NoneBefore
    <2>1. QED BY <1>0, <1>1, <1>10 DEF Flow, Handed
<1>12. OwnAnswers'
    BY <1>1, <1>2 DEF OwnAnswers, NoneBefore
<1>13. QED BY <1>7, <1>8, <1>9, <1>11, <1>12 DEF IInv

LEMMA ClientReceiveInv == ASSUME IInv, ClientReceive PROVE IInv'
<1>0. PICK n : n = client
    OBVIOUS
<1>1. /\ up /\ rsp[n] # <<>>
      /\ answers' = [answers EXCEPT ![n] = Append(@, Head(rsp[n]))]
      /\ rsp' = [rsp EXCEPT ![n] = Tail(@)]
      /\ UNCHANGED <<client, up, killed, sent, cmd, serverVars>>
    BY <1>0 DEF ClientReceive
<1>2. TypeOK /\ Control /\ InTurn /\ Alone /\ OwnAnswers
    BY DEF IInv
<1>3. /\ n \in 1..Clients /\ rsp[n] \in Seq(Messages) /\ answers[n] \in Seq(Messages)
      /\ answers'[n] = Append(answers[n], Head(rsp[n])) /\ rsp'[n] = Tail(rsp[n])
      /\ \A c \in 1..Clients : c # n => rsp'[c] = rsp[c] /\ answers'[c] = answers[c]
    BY <1>0, <1>1, <1>2, PullThenPushAssumption DEF TypeOK, InTurn
<1>4. /\ Head(rsp[n]) \in Messages /\ Tail(rsp[n]) \in Seq(Messages)
      /\ Len(Tail(rsp[n])) = Len(rsp[n]) - 1 /\ Len(rsp[n]) \in Nat \ {0}
      /\ answers'[n] \in Seq(Messages)
      /\ Len(answers'[n]) = Len(answers[n]) + 1 /\ Len(answers[n]) \in Nat
    BY <1>1, <1>3
<1>5. TypeOK'
    <2>1. answers' \in [1..Clients -> Seq(Messages)] /\ rsp' \in [1..Clients -> Seq(Messages)]
        BY <1>1, <1>2, <1>3, <1>4 DEF TypeOK
    <2>2. \A c \in 1..Clients : Len(rsp'[c]) <= Cap
        <3>1. Len(rsp[n]) <= Cap
            BY <1>2, <1>3 DEF TypeOK
        <3>2. Len(rsp'[n]) <= Cap
            BY <1>3, <1>4, <3>1, PullThenPushAssumption
        <3>3. QED BY <1>2, <1>3, <3>2 DEF TypeOK
    <2>3. QED BY <1>1, <1>2, <2>1, <2>2, ServerTypeKept DEF TypeOK
<1>6. Control' /\ (Holds' <=> Holds) /\ (Stuck' <=> Stuck) /\ Held' = Held
    BY <1>1, <1>2, ControlKept
<1>7. InTurn'
    BY <1>1, <1>2, <1>3 DEF InTurn, serverVars
<1>8. ASSUME NoneBefore(n)
      PROVE  Flow(n)' /\ \A c \in 1..(n - 1) : cmd'[c] = <<>>
    <2>1. Flow(n) /\ \A c \in 1..(n - 1) : cmd[c] = <<>>
        BY <1>0, <1>1, <1>2, <1>8 DEF Alone
    <2>2. Handed(n)' = Handed(n)
        <3>1. Len(rsp'[n]) = Len(rsp[n]) - 1 /\ Len(answers'[n]) = Len(answers[n]) + 1
            BY <1>3, <1>4
        <3>2. \A a, r \in Nat : (a + 1) + (r - 1) = a + r
            OBVIOUS
        <3>3. QED BY <1>4, <3>1, <3>2 DEF Handed
    <2>3. /\ Head(rsp[n]) = <<n, Len(answers[n]) + 1>>
          /\ Follow(rsp'[n], n, Len(answers[n]) + 1)
        <3>1. /\ rsp[n] \in Seq(Messages) /\ Len(answers[n]) \in Nat
              /\ Follow(rsp[n], n, Len(answers[n])) /\ rsp[n] # <<>>
            BY <1>1, <1>3, <1>4, <2>1 DEF Flow
        <3>2. PICK r, k : r = rsp[n] /\ k = Len(answers[n])
            OBVIOUS
        <3>3. Head(r) = <<n, k + 1>> /\ Follow(Tail(r), n, k + 1)
            <4>1. r \in Seq(Messages) /\ k \in Nat /\ Follow(r, n, k) /\ r # <<>>
                BY <3>1, <3>2
            <4>2. QED BY <4>1, FollowTail
        <3>4. QED BY <1>3, <3>2, <3>3
    <2>4. Follow(rsp[n], n, Len(answers[n]))'
        BY <1>4, <2>3
    <2>5. Follow(answers[n], n, 0)'
        <3>1. Len(answers[n]) + 1 = 0 + Len(answers[n]) + 1
            BY <1>4
        <3>2. QED BY <1>3, <1>4, <2>1, <2>3, <3>1, FollowAppend DEF Flow
    <2>6. Flow(n)'
        BY <1>1, <1>6, <2>1, <2>2, <2>4, <2>5 DEF Flow
    <2>7. QED BY <1>1, <2>1, <2>6
<1>9. Alone'
    <2> SUFFICES ASSUME NoneBefore(n)
                 PROVE  Flow(client)' /\ \A c \in 1..(n - 1) : cmd'[c] = <<>>
        BY <1>0, <1>1 DEF Alone, NoneBefore
    <2>1. QED BY <1>0, <1>1, <1>8 DEF Flow, Handed
<1>10. OwnAnswers'
    <2> SUFFICES ASSUME NEW c \in 1..Clients, NoneBefore(c)
                 PROVE  answers'[c] = [i \in 1..Len(answers'[c]) |-> <<c, i>>]
        BY <1>1 DEF OwnAnswers, NoneBefore
    <2>1. CASE c = n
        <3>1. Follow(answers'[n], n, 0) /\ answers'[n] \in Seq(Messages)
            BY <1>4, <1>8, <2>1 DEF Flow
        <3>2. answers'[n] = [i \in 1..Len(answers'[n]) |-> <<n, i>>]
            <4>1. PICK a : a = answers'[n]
                OBVIOUS
            <4>2. a \in Seq(Messages) /\ Follow(a, n, 0)
                BY <3>1, <4>1
            <4>3. a = [i \in 1..Len(a) |-> <<n, i>>]
                BY <4>2, FollowFromStart
            <4>4. QED BY <4>1, <4>3
        <3>3. QED BY <2>1, <3>2
    <2>2. CASE c # n
        BY <1>2, <1>3, <2>2 DEF OwnAnswers
    <2>3. QED BY <2>1, <2>2
<1>11. QED BY <1>5, <1>6, <1>7, <1>9, <1>10 DEF IInv

LEMMA ClientEndInv == ASSUME IInv, ClientEnd PROVE IInv'
<1>0. PICK n : n = client
    OBVIOUS
<1>1. /\ up /\ up' = FALSE
      /\ \/ Len(answers[n]) = sent[n] /\ killed' = killed
         \/ n \in Killable /\ killed' = killed \cup {n}
      /\ UNCHANGED <<client, sent, answers, cmd, rsp, serverVars>>
    BY <1>0 DEF ClientEnd
<1>2. TypeOK /\ Control /\ InTurn /\ Alone /\ OwnAnswers
    BY DEF IInv
<1>3. TypeOK'
    BY <1>1, <1>2, ServerTypeKept DEF TypeOK
<1>4. Control' /\ (Holds' <=> Holds) /\ (Stuck' <=> Stuck) /\ Held' = Held
    BY <1>1, <1>2, ControlKept
<1>5. InTurn'
    BY <1>1, <1>2 DEF InTurn, serverVars
<1>6. Alone'
    <2> SUFFICES ASSUME NoneBefore(n + 1)'
                 PROVE  ~Holds' /\ \A c \in 1..n : cmd'[c] = <<>>
        BY <1>0, <1>1 DEF Alone, NoneBefore
    <2>1. n \in 1..Clients /\ Clients \in Nat
        BY <1>0, <1>1, <1>2, PullThenPushAssumption DEF TypeOK, InTurn
    <2>2. Len(answers[n]) = sent[n] /\ killed' = killed
        BY <1>1, <2>1 DEF NoneBefore
    <2>3. NoneBefore(n)
        <3>1. \A k \in killed \cup Tcp : k >= n + 1 /\ k \in 1..Clients
            BY <1>2, <2>2, PullThenPushAssumption DEF NoneBefore, TypeOK
        <3>2. QED BY <2>1, <3>1 DEF NoneBefore
    <2>4. Flow(n) /\ \A c \in 1..(n - 1) : cmd[c] = <<>>
        BY <1>0, <1>1, <1>2, <2>3 DEF Alone
    <2>5. Len(answers[n]) \in Nat /\ Len(rsp[n]) \in Nat /\ Len(cmd[n]) \in Nat
          /\ cmd[n] \in Seq(Messages)
        BY <1>2, <2>1 DEF TypeOK
    <2>6. ~Holds /\ Len(cmd[n]) = 0
        BY <2>2, <2>4, <2>5 DEF Flow, Handed, Stuck, Holds
    <2>7. cmd[n] = <<>>
        BY <2>5, <2>6, EmptySeq
    <2>8. \A c \in 1..n : c = n \/ c \in 1..(n - 1)
        BY <2>1
    <2>9. QED BY <1>1, <1>4, <2>4, <2>6, <2>7, <2>8
<1>7. OwnAnswers'
    <2>1. \A c : NoneBefore(c)' => NoneBefore(c)
        BY <1>1 DEF NoneBefore
    <2>2. QED BY <1>1, <1>2, <2>1 DEF OwnAnswers
<1>8. QED BY <1>3, <1>4, <1>5, <1>6, <1>7 DEF IInv

-----------------------------------------------------------------------------
(* The process and the device *)

\* What a posedge of the device does.
LEMMA DeviceIs ==
    ASSUME TypeOK, Control, NEW ready \in BOOLEAN, Device(ready)
    PROVE  /\ todo' \in Messages \cup {None} /\ rspVld' \in BOOLEAN
           /\ rspVld' => todo' # None
           /\ todo' # None => todo # None \/ cmdVld
           /\ cmdVld => todo' \in {None, command}
           /\ rspVld /\ rspRdy => todo' = None
           /\ ~cmdVld /\ ~(rspVld /\ rspRdy) => todo' = todo
<1>1. command \in Messages \cup {None} /\ todo \in Messages \cup {None}
    BY DEF TypeOK
<1>2. todo' = IF cmdVld /\ ready THEN command ELSE IF rspVld /\ rspRdy THEN None ELSE todo
    BY DEF Device
<1>3. /\ rspVld' \in BOOLEAN
      /\ rspVld' => todo' # None
    BY DEF Device
<1>4. cmdVld => todo = None /\ ~rspVld
    BY DEF Control
<1>5. QED BY <1>1, <1>2, <1>3, <1>4

\* What stays of the types when the clients, and their connections, are left alone.
LEMMA ClientTypeKept ==
    ASSUME TypeOK, UNCHANGED clientVars
    PROVE  /\ client' \in 0..Clients /\ up' \in BOOLEAN /\ killed' \subseteq Killable
           /\ sent' \in [1..Clients -> 0..Commands]
           /\ answers' \in [1..Clients -> Seq(Messages)]
           /\ UNCHANGED cmd => /\ cmd' \in [1..Clients -> Seq(Messages)]
                               /\ \A c \in 1..Clients : Len(cmd'[c]) <= Cap
           /\ UNCHANGED rsp => /\ rsp' \in [1..Clients -> Seq(Messages)]
                               /\ \A c \in 1..Clients : Len(rsp'[c]) <= Cap
BY DEF TypeOK, clientVars

LEMMA OwnAnswersKept ==
    ASSUME OwnAnswers, UNCHANGED clientVars
    PROVE  OwnAnswers'
BY DEF OwnAnswers, NoneBefore, clientVars

\* A posedge that moves no message: it stays where it is, or goes to another register.
LEMMA AloneKept ==
    ASSUME Alone, UNCHANGED clientVars, UNCHANGED cmd, UNCHANGED rsp,
           Stuck' <=> Stuck, Holds' <=> Holds, Holds /\ ~Stuck => Held' = Held
    PROVE  Alone'
BY DEF Alone, NoneBefore, Flow, Handed, clientVars

\* The client of a connection is turned to, and its connection opened or closed.
LEMMA InTurnKept ==
    ASSUME TypeOK, InTurn, UNCHANGED clientVars, UNCHANGED cmd, UNCHANGED rsp,
           cmdSock'.of <= client, rspSock'.of <= client
    PROVE  InTurn'
BY DEF InTurn, clientVars

\* The process waits for a posedge or a response.
LEMMA WaitInv ==
    ASSUME IInv, NEW ready \in BOOLEAN, Device(ready), UNCHANGED clientVars,
           WaitBegin(ready) \/ WaitStep \/ AwaitResponse
    PROVE  IInv'
<1>1. TypeOK /\ Control /\ InTurn /\ Alone /\ OwnAnswers
    BY DEF IInv
<1>2. /\ UNCHANGED <<cmd, cmdSock, rsp, rspSock, delay, grace, command, rspRdy, dataQ>>
      /\ \/ pc \in {"top", "delay"} /\ pc' = "delay" /\ cmdVld' = FALSE /\ left' \in 0..Inactive
         \/ pc = "respond" /\ ~rspVld /\ UNCHANGED <<pc, cmdVld, left>>
    <2>1. CASE WaitBegin(ready)
        BY <1>1, <2>1, PullThenPushAssumption
           DEF WaitBegin, AtTop, cmdVars, rspVars, pushVars, TypeOK
    <2>2. CASE WaitStep
        BY <1>1, <2>2, PullThenPushAssumption DEF WaitStep, cmdVars, rspVars, pushVars, TypeOK
    <2>3. CASE AwaitResponse
        BY <1>1, <2>3, PullThenPushAssumption
           DEF AwaitResponse, cmdVars, rspVars, pullVars, pushVars, TypeOK
    <2>4. QED BY <2>1, <2>2, <2>3
<1>3. ASSUME pc \in {"top", "delay"}, cmdVld PROVE FALSE
    BY <1>1, <1>3 DEF Control
<1>4. todo' = todo /\ rspVld' \in BOOLEAN /\ (rspVld' => todo # None)
    BY <1>1, <1>2, <1>3, DeviceIs DEF Control
<1>5. Control'
    BY <1>1, <1>2, <1>4 DEF Control
<1>6. TypeOK'
    BY <1>1, <1>2, <1>4, ClientTypeKept DEF TypeOK
<1>7. InTurn'
    BY <1>1, <1>2, InTurnKept DEF InTurn
<1>8. Alone'
    <2>1. (Stuck' <=> Stuck) /\ (Holds' <=> Holds) /\ (Holds /\ ~Stuck => Held' = Held)
        BY <1>2, <1>4 DEF Stuck, Holds, Held
    <2>2. QED BY <1>1, <1>2, <2>1, AloneKept
<1>9. QED BY <1>1, <1>5, <1>6, <1>7, <1>8, OwnAnswersKept DEF IInv

\* The pull fails, and the next one comes after a delay that has grown.
LEMMA PullFailInv ==
    ASSUME IInv, NEW ready \in BOOLEAN, Device(ready), UNCHANGED clientVars, PullFail(ready)
    PROVE  IInv'
<1>1. TypeOK /\ Control /\ InTurn /\ Alone /\ OwnAnswers
    BY DEF IInv
<1>2. /\ pc \in {"top", "delay"} /\ pc' = "top" /\ cmdVld' = FALSE /\ left' = 0
      /\ delay' = InactiveDelay(delay, grace) /\ grace' = Minus1(grace)
      /\ UNCHANGED <<cmd, rsp, rspSock, command, rspRdy, dataQ>>
      /\ PullNothing
    BY DEF PullFail, PullNothing, CallNow, AtTop, rspVars, pushVars
<1>3. cmdSock' \in Socks /\ cmdSock'.of <= client
    <2>1. PICK c : c = Current(cmdSock)
        OBVIOUS
    <2>2. cmdSock \in Socks /\ cmdSock.of <= client /\ client \in 0..Clients
        BY <1>1 DEF TypeOK, InTurn
    <2>3. c \in 0..client
        BY <1>1, <2>1, <2>2, CurrentIs
    <2>4. c \in 0..Clients /\ c <= client
        BY <2>2, <2>3, PullThenPushAssumption
    <2>5. cmdSock' = cmdSock \/ cmdSock' = Closed(c) \/ cmdSock' = Open(c)
        BY <1>2, <2>1 DEF PullNothing
    <2>6. QED BY <2>2, <2>4, <2>5, SockIs
<1>4. ~cmdVld /\ ~rspRdy
    BY <1>1, <1>2 DEF Control
<1>5. todo' = todo /\ rspVld' \in BOOLEAN /\ (rspVld' => todo # None)
    BY <1>1, <1>4, DeviceIs
<1>6. Control'
    BY <1>1, <1>2, <1>5 DEF Control
<1>7. delay' \in 0..Inactive /\ grace' \in Ints /\ left' \in 0..Inactive
    BY <1>1, <1>2, DelayStays, GraceStays, PullThenPushAssumption DEF TypeOK
<1>8. TypeOK'
    BY <1>1, <1>2, <1>3, <1>5, <1>7, ClientTypeKept DEF TypeOK
<1>9. InTurn'
    BY <1>1, <1>2, <1>3, InTurnKept DEF InTurn
<1>10. Alone'
    <2>1. (Stuck' <=> Stuck) /\ (Holds' <=> Holds) /\ (Holds /\ ~Stuck => Held' = Held)
        BY <1>2 DEF Stuck, Holds, Held
    <2>2. QED BY <1>1, <1>2, <2>1, AloneKept
<1>11. QED BY <1>1, <1>6, <1>8, <1>9, <1>10, OwnAnswersKept DEF IInv

\* The pull has the next command of the client that runs.
LEMMA PullOkInv ==
    ASSUME IInv, NEW ready \in BOOLEAN, Device(ready), UNCHANGED clientVars, PullOk(ready)
    PROVE  IInv'
<1>0. PICK c : c = Current(cmdSock)
    OBVIOUS
<1>1. TypeOK /\ Control /\ InTurn /\ Alone /\ OwnAnswers
    BY DEF IInv
<1>2. /\ pc \in {"top", "delay"} /\ pc' = "present" /\ cmdVld' = TRUE /\ left' = 0
      /\ c # 0 /\ cmd[c] # <<>> /\ cmd' = [cmd EXCEPT ![c] = Tail(@)]
      /\ cmdSock' = Open(c) /\ command' = Head(cmd[c])
      /\ delay' = Active /\ grace' = Grace
      /\ UNCHANGED <<rsp, rspSock, rspRdy, dataQ>>
    BY <1>0 DEF PullOk, CallNow, AtTop, rspVars, pushVars
<1>3. c \in 1..Clients /\ c \in 0..Clients /\ c <= client
    <2>1. cmdSock \in Socks /\ cmdSock.of <= client /\ client \in 0..Clients
        BY <1>1 DEF TypeOK, InTurn
    <2>2. c \in 0..client /\ c \in 1..Clients
        BY <1>0, <1>1, <1>2, <2>1, CurrentIs
    <2>3. QED BY <2>1, <2>2, PullThenPushAssumption
<1>4. cmd[c] \in Seq(Messages) /\ cmd'[c] = Tail(cmd[c])
      /\ \A k \in 1..Clients : k # c => cmd'[k] = cmd[k]
    BY <1>1, <1>2, <1>3 DEF TypeOK
<1>5. command' \in Messages /\ cmd'[c] \in Seq(Messages)
      /\ Len(cmd'[c]) = Len(cmd[c]) - 1 /\ Len(cmd[c]) \in Nat
    <2>1. \A s \in Seq(Messages) : s # <<>> =>
              /\ Head(s) \in Messages /\ Tail(s) \in Seq(Messages)
              /\ Len(Tail(s)) = Len(s) - 1 /\ Len(s) \in Nat
        OBVIOUS
    <2>2. QED BY <1>2, <1>4, <2>1
<1>6. ~cmdVld /\ ~rspRdy /\ todo = None
    BY <1>1, <1>2 DEF Control
<1>7. todo' = None /\ rspVld' = FALSE
    BY <1>1, <1>6, DeviceIs
<1>8. Control'
    BY <1>1, <1>2, <1>5, <1>7, NoneIsNoMessage DEF Control
<1>9. TypeOK'
    <2>1. cmd' \in [1..Clients -> Seq(Messages)]
        BY <1>1, <1>2, <1>4, <1>5 DEF TypeOK
    <2>2. \A k \in 1..Clients : Len(cmd'[k]) <= Cap
        <3>1. Len(cmd[c]) <= Cap
            BY <1>1, <1>3 DEF TypeOK
        <3>2. Len(cmd'[c]) <= Cap
            BY <1>5, <3>1, PullThenPushAssumption
        <3>3. QED BY <1>1, <1>4, <3>2 DEF TypeOK
    <2>3. cmdSock' \in Socks
        BY <1>2, <1>3, SockIs
    <2>4. Grace \in Ints
        <3>1. \A g \in Nat, h \in Nat \ {0} : g < h => g \in (-h)..(h - 1)
            OBVIOUS
        <3>2. QED BY <3>1, PullThenPushAssumption DEF Ints
    <2>5. delay' \in 0..Inactive /\ grace' \in Ints /\ left' \in 0..Inactive
        BY <1>2, <2>4, PullThenPushAssumption
    <2>6. QED BY <1>1, <1>2, <1>5, <1>7, <2>1, <2>2, <2>3, <2>5, ClientTypeKept DEF TypeOK
<1>10. InTurn'
    <2>1. cmdSock'.of <= client /\ rspSock'.of <= client
        BY <1>1, <1>2, <1>3, SockIs DEF InTurn
    <2>2. \A k \in 1..Clients : k > client => cmd'[k] = cmd[k]
        BY <1>1, <1>3, <1>4 DEF TypeOK
    <2>3. QED BY <1>1, <1>2, <2>1, <2>2 DEF InTurn, clientVars
<1>11. ASSUME up, NoneBefore(client)
       PROVE  c = client /\ Flow(c)' /\ \A k \in 1..(client - 1) : cmd'[k] = <<>>
    <2>1. Flow(client) /\ \A k \in 1..(client - 1) : cmd[k] = <<>>
        BY <1>1, <1>11 DEF Alone
    <2>2. c = client
        <3>1. c \in 1..(client - 1) \/ c = client
            BY <1>1, <1>3 DEF TypeOK
        <3>2. QED BY <1>2, <2>1, <3>1
    <2>3. ~Holds /\ ~Stuck /\ Holds' /\ ~Stuck' /\ Held' = command'
        BY <1>2 DEF Holds, Stuck, Held
    <2>4. /\ Follow(answers[c], c, 0) /\ Follow(rsp[c], c, Len(answers[c]))
          /\ Follow(cmd[c], c, Handed(c)) /\ sent[c] = Handed(c) + Len(cmd[c])
        BY <2>1, <2>2, <2>3 DEF Flow
    <2>5. Handed(c)' = Handed(c) /\ Handed(c) \in Nat
        BY <1>1, <1>2, <1>3 DEF Handed, TypeOK, clientVars
    <2>6. command' = <<c, Handed(c) + 1>> /\ Follow(cmd'[c], c, Handed(c) + 1)
        <3>1. PICK s, k : s = cmd[c] /\ k = Handed(c)
            OBVIOUS
        <3>2. s \in Seq(Messages) /\ k \in Nat /\ Follow(s, c, k) /\ s # <<>>
            BY <1>2, <1>4, <2>4, <2>5, <3>1
        <3>3. Head(s) = <<c, k + 1>> /\ Follow(Tail(s), c, k + 1)
            BY <3>2, FollowTail
        <3>4. QED BY <1>2, <1>4, <3>1, <3>3
    <2>7. sent[c] = Handed(c) + 1 + Len(cmd'[c])
        <3>1. \A g, l \in Nat : g + l = g + 1 + (l - 1)
            OBVIOUS
        <3>2. QED BY <1>5, <2>4, <2>5, <3>1
    <2>8. Flow(c)'
        BY <1>2, <2>3, <2>4, <2>5, <2>6, <2>7 DEF Flow, clientVars
    <2>9. \A k \in 1..(client - 1) : cmd'[k] = <<>>
        <3>1. \A k \in 1..(client - 1) : k \in 1..Clients /\ k # c
            BY <1>3, <2>2, PullThenPushAssumption
        <3>2. QED BY <1>4, <2>1, <3>1
    <2>10. QED BY <2>2, <2>8, <2>9
<1>12. ASSUME ~up, NoneBefore(client + 1) PROVE FALSE
    <2>1. \A k \in 1..client : cmd[k] = <<>>
        BY <1>1, <1>12 DEF Alone
    <2>2. c \in 1..client
        BY <1>1, <1>3 DEF TypeOK
    <2>3. QED BY <1>2, <2>1, <2>2
<1>13. Alone'
    <2>1. (NoneBefore(client)' <=> NoneBefore(client)) /\ up' = up /\ client' = client
          /\ (NoneBefore(client + 1)' <=> NoneBefore(client + 1))
        BY DEF clientVars, NoneBefore
    <2>2. up /\ NoneBefore(client) => Flow(client)'
        BY <1>11, <2>1 DEF Flow, Handed
    <2>3. QED BY <1>11, <1>12, <2>1, <2>2 DEF Alone
<1>14. QED BY <1>1, <1>8, <1>9, <1>10, <1>13, OwnAnswersKept DEF IInv

\* The device sees the command, and takes it or not.
LEMMA PresentInv ==
    ASSUME IInv, NEW ready \in BOOLEAN, Device(ready), UNCHANGED clientVars, Present
    PROVE  IInv'
<1>1. TypeOK /\ Control /\ InTurn /\ Alone /\ OwnAnswers
    BY DEF IInv
<1>2. /\ pc = "present" /\ pc' = "respond" /\ cmdVld' = FALSE /\ rspRdy' = TRUE
      /\ UNCHANGED <<cmd, cmdSock, rsp, rspSock, left, delay, grace, command, dataQ>>
    BY DEF Present, cmdVars, rspVars
<1>3. cmdVld /\ command # None
    BY <1>1, <1>2 DEF Control
<1>4. /\ todo' \in {None, command} /\ todo' \in Messages \cup {None}
      /\ rspVld' \in BOOLEAN /\ (rspVld' => todo' # None)
    BY <1>1, <1>3, DeviceIs
<1>5. Control'
    BY <1>2, <1>4 DEF Control
<1>6. TypeOK'
    BY <1>1, <1>2, <1>4, ClientTypeKept DEF TypeOK
<1>7. InTurn'
    BY <1>1, <1>2, InTurnKept DEF InTurn
<1>8. Alone'
    <2>1. Holds /\ ~Stuck /\ Held = command /\ Holds'
        BY <1>2 DEF Holds, Stuck, Held
    <2>2. CASE todo' = command
        <3>1. ~Stuck' /\ Held' = command
            BY <1>2, <1>3, <2>2 DEF Stuck, Held
        <3>2. QED BY <1>1, <1>2, <2>1, <3>1, AloneKept
    <2>3. CASE todo' = None
        <3>1. Stuck'
            BY <1>2, <2>3 DEF Stuck
        <3>2. ASSUME up, NoneBefore(client) PROVE Flow(client)'
            <4>1. PICK c : c = client
                OBVIOUS
            <4>2. c \in 1..Clients
                BY <1>1, <3>2, <4>1, PullThenPushAssumption DEF InTurn, TypeOK
            <4>3. /\ Follow(answers[c], c, 0) /\ Follow(rsp[c], c, Len(answers[c]))
                  /\ sent[c] = Handed(c) + 1 + Len(cmd[c])
                BY <1>1, <2>1, <3>2, <4>1 DEF Alone, Flow
            <4>4. Len(cmd[c]) \in Nat /\ Handed(c) \in Nat
                BY <1>1, <4>2 DEF TypeOK, Handed
            <4>5. Handed(c)' = Handed(c) /\ Handed(c) < sent[c]
                <5>1. \A g, l \in Nat : g < g + 1 + l
                    OBVIOUS
                <5>2. QED BY <1>2, <4>3, <4>4, <5>1 DEF Handed, clientVars
            <4>6. Flow(c)'
                BY <1>2, <2>1, <3>1, <4>3, <4>5 DEF Flow, clientVars
            <4>7. client' = c
                BY <4>1 DEF clientVars
            <4>8. QED BY <4>6, <4>7 DEF Flow, Handed
        <3>3. UNCHANGED <<up, client, killed, cmd>>
            BY <1>2 DEF clientVars
        <3>4. QED BY <1>1, <2>1, <3>2, <3>3 DEF Alone, NoneBefore
    <2>4. QED BY <1>4, <2>2, <2>3
<1>9. QED BY <1>1, <1>5, <1>6, <1>7, <1>8, OwnAnswersKept DEF IInv

\* The push of the message the process holds: the client that runs gets it, or it is
\* held for the retry.
LEMMA PushInv ==
    ASSUME IInv, NEW d \in Messages, UNCHANGED clientVars, Push(d),
           Holds, ~Stuck, Held = d, pc # "present",
           UNCHANGED <<cmd, cmdSock, left, delay, grace, command>>,
           cmdVld' = cmdVld, rspRdy' = FALSE, dataQ' = d, todo' = None, rspVld' = FALSE
    PROVE  IInv'
<1>0. PICK c : c = Current(rspSock)
    OBVIOUS
<1>1. TypeOK /\ Control /\ InTurn /\ Alone /\ OwnAnswers
    BY DEF IInv
<1>2. rspSock \in Socks /\ rspSock.of <= client /\ client \in 0..Clients
    BY <1>1 DEF TypeOK, InTurn
<1>3. c \in 0..client /\ (c # 0 => c \in 1..Clients)
    BY <1>0, <1>1, <1>2, CurrentIs
<1>4. c \in 0..Clients /\ c <= client
    BY <1>2, <1>3, PullThenPushAssumption
<1>5. ~cmdVld /\ d # None
    BY <1>1, NoneIsNoMessage DEF Control
<1>6. ASSUME rsp' = rsp, pc' = "retry", rspSock' \in Socks, rspSock'.of <= client
      PROVE  IInv'
    <2>1. Control'
        BY <1>5, <1>6 DEF Control
    <2>2. TypeOK'
        BY <1>1, <1>5, <1>6, ClientTypeKept DEF TypeOK
    <2>3. InTurn'
        BY <1>1, <1>6, InTurnKept DEF InTurn
    <2>4. Stuck' = FALSE /\ Holds' /\ Held' = d
        BY <1>6 DEF Stuck, Holds, Held
    <2>5. Alone'
        BY <1>1, <1>6, <2>4, AloneKept
    <2>6. QED BY <1>1, <2>1, <2>2, <2>3, <2>5, OwnAnswersKept DEF IInv
<1>7. CASE PushNoClient
    BY <1>2, <1>6, <1>7 DEF PushNoClient, rspVars
<1>8. CASE c # 0 /\ (PushFull(c) \/ PushGone(c))
    BY <1>4, <1>6, <1>8, SockIs DEF PushFull, PushGone
<1>9. CASE c # 0 /\ PushOk(c, d)
    <2>1. /\ Gone(c) => c \in Tcp
          /\ Len(rsp[c]) < Cap /\ rsp' = [rsp EXCEPT ![c] = Append(@, d)]
          /\ rspSock' = Open(c) /\ pc' = "top"
        BY <1>9 DEF PushOk
    <2>2. /\ c \in 1..Clients /\ rsp[c] \in Seq(Messages) /\ answers[c] \in Seq(Messages)
          /\ rsp'[c] = Append(rsp[c], d)
          /\ \A k \in 1..Clients : k # c => rsp'[k] = rsp[k]
        BY <1>1, <1>3, <1>9, <2>1 DEF TypeOK
    <2>3. rsp'[c] \in Seq(Messages) /\ Len(rsp'[c]) = Len(rsp[c]) + 1 /\ Len(rsp[c]) \in Nat
        <3>1. \A s \in Seq(Messages) :
                  Append(s, d) \in Seq(Messages) /\ Len(Append(s, d)) = Len(s) + 1 /\ Len(s) \in Nat
            OBVIOUS
        <3>2. QED BY <2>2, <3>1
    <2>4. Control'
        BY <1>5, <2>1 DEF Control
    <2>5. TypeOK'
        <3>1. rsp' \in [1..Clients -> Seq(Messages)]
            BY <1>1, <2>1, <2>2, <2>3 DEF TypeOK
        <3>2. \A k \in 1..Clients : Len(rsp'[k]) <= Cap
            <4>1. Len(rsp'[c]) <= Cap
                BY <2>1, <2>3, PullThenPushAssumption
            <4>2. QED BY <1>1, <2>2, <4>1 DEF TypeOK
        <3>3. rspSock' \in Socks
            BY <1>4, <2>1, SockIs
        <3>4. QED BY <1>1, <1>5, <2>1, <3>1, <3>2, <3>3, ClientTypeKept DEF TypeOK
    <2>6. InTurn'
        <3>1. rspSock'.of <= client
            BY <1>4, <2>1, SockIs
        <3>2. \A k \in 1..Clients : k > client => rsp'[k] = rsp[k]
            BY <1>2, <1>4, <2>2, PullThenPushAssumption
        <3>3. QED BY <1>1, <3>1, <3>2 DEF InTurn, clientVars
    <2>7. ~Holds' /\ ~Stuck'
        BY <2>1 DEF Holds, Stuck
    <2>8. ASSUME up, NoneBefore(client) PROVE c = client /\ Flow(c)'
        <3>1. c = client
            <4>1. c < client => c \in Tcp
                BY <2>1 DEF Gone
            <4>2. c \in Tcp => c >= client
                BY <2>8 DEF NoneBefore
            <4>3. QED BY <1>2, <1>4, <4>1, <4>2, PullThenPushAssumption
        <3>2. /\ Follow(answers[c], c, 0) /\ Follow(rsp[c], c, Len(answers[c]))
              /\ d = <<c, Handed(c) + 1>> /\ Follow(cmd[c], c, Handed(c) + 1)
              /\ sent[c] = Handed(c) + 1 + Len(cmd[c])
            BY <1>1, <2>8, <3>1 DEF Alone, Flow
        <3>3. Handed(c)' = Handed(c) + 1 /\ Handed(c) = Len(answers[c]) + Len(rsp[c])
              /\ Handed(c) \in Nat
            <4>1. answers'[c] = answers[c] /\ Len(answers[c]) \in Nat
                BY <2>2 DEF clientVars
            <4>2. \A a, r \in Nat : a + (r + 1) = a + r + 1 /\ a + r \in Nat
                OBVIOUS
            <4>3. QED BY <2>3, <4>1, <4>2 DEF Handed
        <3>4. Follow(rsp'[c], c, Len(answers[c]))
            <4>1. PICK s, k : s = rsp[c] /\ k = Len(answers[c])
                OBVIOUS
            <4>2. s \in Seq(Messages) /\ k \in Nat /\ Follow(s, c, k) /\ d = <<c, k + Len(s) + 1>>
                BY <2>2, <3>2, <3>3, <4>1
            <4>3. Follow(Append(s, d), c, k)
                BY <4>2, FollowAppend
            <4>4. QED BY <2>2, <4>1, <4>3
        <3>5. Flow(c)'
            BY <2>7, <3>2, <3>3, <3>4 DEF Flow, clientVars
        <3>6. QED BY <3>1, <3>5
    <2>9. Alone'
        <3>1. UNCHANGED <<up, client, killed, cmd>>
            BY DEF clientVars
        <3>2. up /\ NoneBefore(client) => Flow(client)'
            BY <2>8, <3>1 DEF Flow, Handed
        <3>3. QED BY <1>1, <2>7, <3>1, <3>2 DEF Alone, NoneBefore
    <2>10. QED BY <1>1, <2>4, <2>5, <2>6, <2>9, OwnAnswersKept DEF IInv
<1>10. QED BY <1>0, <1>7, <1>8, <1>9 DEF Push

LEMMA TakeResponseInv ==
    ASSUME IInv, NEW ready \in BOOLEAN, Device(ready), UNCHANGED clientVars, TakeResponse
    PROVE  IInv'
<1>1. TypeOK /\ Control
    BY DEF IInv
<1>2. /\ pc = "respond" /\ rspVld /\ rspRdy' = FALSE /\ dataQ' = todo /\ Push(todo)
      /\ UNCHANGED <<cmd, cmdSock, left, delay, grace, command, cmdVld>>
    BY DEF TakeResponse, cmdVars, pullVars
<1>3. todo # None /\ todo \in Messages /\ rspRdy
    BY <1>1, <1>2 DEF Control, TypeOK
<1>4. todo' = None /\ rspVld' = FALSE
    BY <1>1, <1>2, <1>3, DeviceIs
<1>5. Holds /\ ~Stuck /\ Held = todo
    BY <1>2, <1>3 DEF Holds, Stuck, Held
<1>6. PICK d \in Messages : d = todo
    BY <1>3
<1>7. Push(d)
    BY <1>2, <1>6
<1>8. QED BY <1>2, <1>4, <1>5, <1>6, <1>7, PushInv

LEMMA RetryPushInv ==
    ASSUME IInv, NEW ready \in BOOLEAN, Device(ready), UNCHANGED clientVars, RetryPush
    PROVE  IInv'
<1>1. TypeOK /\ Control
    BY DEF IInv
<1>2. /\ pc = "retry" /\ Push(dataQ)
      /\ UNCHANGED <<cmd, cmdSock, left, delay, grace, command, cmdVld, rspRdy, dataQ>>
    BY DEF RetryPush, cmdVars, pullVars, pushVars
<1>3. dataQ \in Messages /\ ~rspRdy /\ ~cmdVld /\ todo = None
    BY <1>1, <1>2 DEF Control, TypeOK
<1>4. todo' = None /\ rspVld' = FALSE
    BY <1>1, <1>3, DeviceIs
<1>5. Holds /\ ~Stuck /\ Held = dataQ
    BY <1>2 DEF Holds, Stuck, Held
<1>6. PICK d \in Messages : d = dataQ
    BY <1>3
<1>7. Push(d) /\ rspRdy' = FALSE
    BY <1>1, <1>2, <1>3, <1>6 DEF TypeOK
<1>8. QED BY <1>2, <1>4, <1>5, <1>6, <1>7, PushInv

-----------------------------------------------------------------------------
(* The theorems *)

LEMMA InitInv == Init => IInv
<1> SUFFICES ASSUME Init PROVE IInv
    OBVIOUS
<1>1. TypeOK
    <2>1. Closed(0) \in Socks /\ 0 \in 0..Clients /\ 0 \in 0..Commands /\ 0 \in 0..Inactive
        BY SockIs, PullThenPushAssumption
    <2>2. 0 \in Ints
        <3>1. \A h \in Nat \ {0} : 0 \in (-h)..(h - 1)
            OBVIOUS
        <3>2. QED BY <3>1, PullThenPushAssumption DEF Ints
    <2>3. <<>> \in Seq(Messages) /\ Len(<<>>) <= Cap
        BY PullThenPushAssumption
    <2>4. QED BY <2>1, <2>2, <2>3 DEF Init, TypeOK
<1>2. Control
    BY DEF Init, Control
<1>3. InTurn
    BY DEF Init, InTurn, Closed
<1>4. Alone
    BY DEF Init, Alone, Holds
<1>5. OwnAnswers
    BY DEF Init, OwnAnswers
<1>6. QED BY <1>1, <1>2, <1>3, <1>4, <1>5 DEF IInv

\* The invariant holds of every behaviour.
THEOREM Invariance == Spec => []IInv
<1>1. IInv /\ [Next]_vars => IInv'
    <2> SUFFICES ASSUME IInv, [Next]_vars PROVE IInv'
        OBVIOUS
    <2>1. CASE ClientStart
        BY <2>1, ClientStartInv
    <2>2. CASE ClientSend
        BY <2>2, ClientSendInv
    <2>3. CASE ClientReceive
        BY <2>3, ClientReceiveInv
    <2>4. CASE ClientEnd
        BY <2>4, ClientEndInv
    <2>5. ASSUME NEW ready \in BOOLEAN, Posedge(ready) PROVE IInv'
        <3>1. Process(ready) /\ Device(ready) /\ UNCHANGED clientVars
            BY <2>5 DEF Posedge
        <3>2. QED BY <3>1, WaitInv, PullOkInv, PullFailInv, PresentInv, TakeResponseInv,
                     RetryPushInv DEF Process
    <2>6. CASE UNCHANGED vars
        <3>1. UNCHANGED clientVars /\ UNCHANGED serverVars /\ UNCHANGED <<cmd, rsp>>
            BY <2>6 DEF vars, serverVars, cmdVars, rspVars
        <3>2. TypeOK' /\ Control'
            BY <3>1, ClientTypeKept, ServerTypeKept, ControlKept DEF IInv, TypeOK
        <3>3. InTurn' /\ Alone'
            BY <3>1, ControlKept, AloneKept DEF IInv, InTurn, serverVars, clientVars
        <3>4. QED BY <3>1, <3>2, <3>3, OwnAnswersKept DEF IInv
    <2>7. QED BY <2>1, <2>2, <2>3, <2>4, <2>5, <2>6 DEF Next
<1>2. QED BY <1>1, InitInv, PTL DEF Spec

\* The variables hold values of their types: the delay stays within the inactive one
\* and the count of grace pulls, which wraps, an int.
THEOREM TypeCorrect == Spec => []TypeOK
<1>1. IInv => TypeOK
    BY DEF IInv
<1>2. QED BY <1>1, Invariance, PTL

\* A client that has the servers to itself gets the responses to its own commands, in
\* order and without a gap, whoever was there before it, whatever the device does.
THEOREM OwnAnswersHolds == Spec => []OwnAnswers
<1>1. IInv => OwnAnswers
    BY DEF IInv
<1>2. QED BY <1>1, Invariance, PTL

-----------------------------------------------------------------------------
(* The second inductive invariant, of a device that is ready when a command comes *)

\* The messages that nobody has yet are in the connections from this one on, and
\* those before it have ended.
CommandsAhead ==
    /\ \A c \in 1..Clients : c < cmdSock.of => cmd[c] = <<>>
    /\ ~cmdSock.open /\ cmdSock.of # 0 => cmd[cmdSock.of] = <<>> /\ Gone(cmdSock.of)

\* No response has gone to a client the process has not turned to.
ResponsesBehind ==
    \A c \in 1..Clients : c > rspSock.of => answers[c] = <<>> /\ rsp[c] = <<>>

Kept == ~Stuck /\ CommandsKept /\ CommandsAhead /\ ResponsesBehind

\* The messages of a sequence, in order, when one more comes or the first one goes.
LEMMA NoMessages == Range(<<>>) = {} /\ Ascending(<<>>)
BY DEF Range, Ascending

LEMMA OneMessage == ASSUME NEW m PROVE Range(<<m>>) = {m} /\ Ascending(<<m>>)
BY DEF Range, Ascending

LEMMA OneMore ==
    ASSUME NEW s \in Seq(Messages), NEW m \in Messages
    PROVE  /\ Range(Append(s, m)) = Range(s) \cup {m}
           /\ Ascending(s) /\ (\A x \in Range(s) : Before(x, m)) => Ascending(Append(s, m))
<1>1. /\ Len(s) \in Nat /\ Len(Append(s, m)) = Len(s) + 1 /\ Append(s, m)[Len(s) + 1] = m
      /\ \A n \in 1..Len(s) : Append(s, m)[n] = s[n]
      /\ DOMAIN s = 1..Len(s) /\ DOMAIN Append(s, m) = 1..(Len(s) + 1)
    OBVIOUS
<1>2. \A n \in 1..(Len(s) + 1) : n \in 1..Len(s) \/ n = Len(s) + 1
    BY <1>1
<1>3. Range(Append(s, m)) = Range(s) \cup {m}
    <2>1. \A n \in 1..Len(s) : n \in 1..(Len(s) + 1)
        BY <1>1
    <2>2. Len(s) + 1 \in 1..(Len(s) + 1)
        BY <1>1
    <2>3. QED BY <1>1, <1>2, <2>1, <2>2 DEF Range
<1>4. ASSUME Ascending(s), \A x \in Range(s) : Before(x, m) PROVE Ascending(Append(s, m))
    <2> SUFFICES ASSUME NEW a \in 1..(Len(s) + 1), NEW b \in 1..(Len(s) + 1), a < b
                 PROVE  Before(Append(s, m)[a], Append(s, m)[b])
        BY <1>1 DEF Ascending
    <2>1. a \in 1..Len(s) /\ Append(s, m)[a] = s[a] /\ s[a] \in Range(s)
        BY <1>1 DEF Range
    <2>2. CASE b \in 1..Len(s)
        <3>1. Append(s, m)[b] = s[b] /\ Before(s[a], s[b])
            BY <1>1, <1>4, <2>1, <2>2 DEF Ascending
        <3>2. QED BY <2>1, <3>1
    <2>3. CASE b = Len(s) + 1
        <3>1. Append(s, m)[b] = m /\ Before(s[a], m)
            BY <1>1, <1>4, <2>1, <2>3
        <3>2. QED BY <2>1, <3>1
    <2>4. QED BY <1>2, <2>2, <2>3
<1>5. QED BY <1>3, <1>4

LEMMA OneLess ==
    ASSUME NEW s \in Seq(Messages), s # <<>>
    PROVE  /\ Head(s) \in Messages /\ Range(s) = {Head(s)} \cup Range(Tail(s))
           /\ Ascending(s) => /\ Ascending(Tail(s))
                              /\ \A y \in Range(Tail(s)) : Before(Head(s), y)
<1>1. /\ Len(s) \in Nat \ {0} /\ Len(Tail(s)) = Len(s) - 1 /\ Head(s) = s[1] /\ Head(s) \in Messages
      /\ \A n \in 1..(Len(s) - 1) : Tail(s)[n] = s[n + 1]
      /\ DOMAIN s = 1..Len(s) /\ DOMAIN Tail(s) = 1..(Len(s) - 1)
    OBVIOUS
<1>2. /\ \A n \in 1..Len(s) : n = 1 \/ (n - 1 \in 1..(Len(s) - 1) /\ (n - 1) + 1 = n)
      /\ \A n \in 1..(Len(s) - 1) : n + 1 \in 1..Len(s) /\ 1 < n + 1
      /\ 1 \in 1..Len(s)
    BY <1>1
<1>3. Range(s) = {Head(s)} \cup Range(Tail(s))
    <2>1. ASSUME NEW x \in Range(s) PROVE x = Head(s) \/ x \in Range(Tail(s))
        <3>1. PICK n \in 1..Len(s) : x = s[n]
            BY <1>1, <2>1 DEF Range
        <3>2. CASE n = 1
            BY <1>1, <3>1, <3>2
        <3>3. CASE n - 1 \in 1..(Len(s) - 1) /\ (n - 1) + 1 = n
            <4>1. x = Tail(s)[n - 1]
                BY <1>1, <3>1, <3>3
            <4>2. QED BY <1>1, <3>3, <4>1 DEF Range
        <3>4. QED BY <1>2, <3>2, <3>3
    <2>2. ASSUME NEW x \in Range(Tail(s)) PROVE x \in Range(s)
        <3>1. PICK n \in 1..(Len(s) - 1) : x = Tail(s)[n]
            BY <1>1, <2>2 DEF Range
        <3>2. x = s[n + 1] /\ n + 1 \in 1..Len(s)
            BY <1>1, <1>2, <3>1
        <3>3. QED BY <1>1, <3>2 DEF Range
    <2>3. Head(s) \in Range(s)
        BY <1>1, <1>2 DEF Range
    <2>4. QED BY <2>1, <2>2, <2>3
<1>4. ASSUME Ascending(s) PROVE Ascending(Tail(s))
    <2> SUFFICES ASSUME NEW a \in 1..(Len(s) - 1), NEW b \in 1..(Len(s) - 1), a < b
                 PROVE  Before(Tail(s)[a], Tail(s)[b])
        BY <1>1 DEF Ascending
    <2>1. Tail(s)[a] = s[a + 1] /\ Tail(s)[b] = s[b + 1] /\ a + 1 < b + 1
          /\ a + 1 \in 1..Len(s) /\ b + 1 \in 1..Len(s)
        BY <1>1, <1>2
    <2>2. Before(s[a + 1], s[b + 1])
        BY <1>4, <2>1 DEF Ascending
    <2>3. QED BY <2>1, <2>2
<1>5. ASSUME Ascending(s), NEW y \in Range(Tail(s)) PROVE Before(Head(s), y)
    <2>1. PICK n \in 1..(Len(s) - 1) : y = Tail(s)[n]
        BY <1>1, <1>5 DEF Range
    <2>2. y = s[n + 1] /\ n + 1 \in 1..Len(s) /\ 1 < n + 1 /\ 1 \in 1..Len(s)
        BY <1>1, <1>2, <2>1
    <2>3. Before(s[1], s[n + 1])
        BY <1>5, <2>2 DEF Ascending
    <2>4. QED BY <1>1, <2>2, <2>3
<1>6. QED BY <1>1, <1>3, <1>4, <1>5

\* What a client has got and what is on its way, when a response comes or is received.
LEMMA GivenOneMore ==
    ASSUME NEW a \in Seq(Messages), NEW r \in Seq(Messages), NEW m \in Messages
    PROVE  a \o Append(r, m) = Append(a \o r, m)
OBVIOUS

LEMMA GivenReceived ==
    ASSUME NEW a \in Seq(Messages), NEW r \in Seq(Messages), r # <<>>
    PROVE  Append(a, Head(r)) \o Tail(r) = a \o r
OBVIOUS

\* What the process holds is one message.
LEMMA InProcessIs ==
    ASSUME TypeOK, Control, ~Stuck
    PROVE  /\ Holds => InProcess = <<Held>> /\ Held \in Messages
           /\ ~Holds => InProcess = <<>>
<1>1. \A m : /\ <<>> \o <<>> \o <<m>> = <<m>> /\ <<>> \o <<m>> \o <<>> = <<m>>
             /\ <<m>> \o <<>> \o <<>> = <<m>> /\ <<>> \o <<>> \o <<>> = <<>>
    OBVIOUS
<1>2. {command, todo, dataQ} \subseteq Messages \cup {None}
    BY DEF TypeOK
<1>3. CASE pc = "present"
    BY <1>1, <1>2, <1>3 DEF Control, Holds, Held, InProcess, InRetry, InDevice, InPort
<1>4. CASE pc = "respond"
    BY <1>1, <1>2, <1>4 DEF Control, Holds, Held, Stuck, InProcess, InRetry, InDevice, InPort
<1>5. CASE pc = "retry"
    BY <1>1, <1>2, <1>5 DEF Control, Holds, Held, InProcess, InRetry, InDevice, InPort
<1>6. CASE pc \notin {"present", "respond", "retry"}
    BY <1>1, <1>6 DEF Control, Holds, InProcess, InRetry, InDevice, InPort
<1>7. QED BY <1>3, <1>4, <1>5, <1>6

\* The same after a step.
LEMMA InProcessNext ==
    ASSUME TypeOK', Control', ~Stuck'
    PROVE  /\ Holds' => InProcess' = <<Held'>> /\ Held' \in Messages
           /\ ~Holds' => InProcess' = <<>>
<1>1. \A m : /\ <<>> \o <<>> \o <<m>> = <<m>> /\ <<>> \o <<m>> \o <<>> = <<m>>
             /\ <<m>> \o <<>> \o <<>> = <<m>> /\ <<>> \o <<>> \o <<>> = <<>>
    OBVIOUS
<1>2. {command, todo, dataQ}' \subseteq Messages \cup {None}
    BY DEF TypeOK
<1>3. CASE pc' = "present"
    BY <1>1, <1>2, <1>3 DEF Control, Holds, Held, InProcess, InRetry, InDevice, InPort
<1>4. CASE pc' = "respond"
    BY <1>1, <1>2, <1>4 DEF Control, Holds, Held, Stuck, InProcess, InRetry, InDevice, InPort
<1>5. CASE pc' = "retry"
    BY <1>1, <1>2, <1>5 DEF Control, Holds, Held, InProcess, InRetry, InDevice, InPort
<1>6. CASE pc' \notin {"present", "respond", "retry"}
    BY <1>1, <1>6 DEF Control, Holds, InProcess, InRetry, InDevice, InPort
<1>7. QED BY <1>3, <1>4, <1>5, <1>6

-----------------------------------------------------------------------------
(* The messages, when one is sent, pulled or pushed *)

\* No message moves, or one moves between two registers or from one sequence of
\* responses to the other.
LEMMA KeptInPlace ==
    ASSUME CommandsKept, UNCHANGED <<cmd, sent>>, InProcess' = InProcess,
           \A c \in 1..Clients : Given(c)' = Given(c)
    PROVE  CommandsKept'
<1>1. InOrder'
    BY DEF CommandsKept, InOrder
<1>2. \A m : IsSomewhere(m)' <=> IsSomewhere(m)
    BY DEF IsSomewhere
<1>3. QED BY <1>1, <1>2 DEF CommandsKept

\* A message is where it was.
LEMMA IsThere ==
    ASSUME CommandsKept, NEW c \in 1..Clients, NEW m \in Messages,
           m \in Range(Given(c)) \/ m \in Range(cmd[c]) \/ m \in Range(InProcess)
    PROVE  m[2] <= sent[m[1]]
BY DEF CommandsKept, IsSomewhere

\* The client sends a command: it is after all the others.
LEMMA SentIsKept ==
    ASSUME CommandsKept, NEW c \in 1..Clients, NEW m \in Messages, m[1] = c,
           m[2] = sent[c] + 1, sent \in [1..Clients -> 0..Commands],
           sent' = [sent EXCEPT ![c] = @ + 1],
           cmd \in [1..Clients -> Seq(Messages)], cmd' = [cmd EXCEPT ![c] = Append(@, m)],
           InProcess' = InProcess, Range(InProcess) \subseteq Messages,
           \A k \in 1..Clients : Given(k)' = Given(k) /\ Given(k) \in Seq(Messages),
           \A k \in 1..Clients : k > c => sent[k] = 0 /\ cmd[k] = <<>>
    PROVE  CommandsKept'
<1>1. /\ cmd[c] \in Seq(Messages) /\ cmd'[c] = Append(cmd[c], m)
      /\ \A k \in 1..Clients : k # c => cmd'[k] = cmd[k]
    OBVIOUS
<1>2. \A s \in Seq(Messages) : Range(s) \subseteq Messages
    BY DEF Range
<1>3. ASSUME NEW x \in Messages, x[2] <= sent[x[1]] PROVE Before(x, m)
    <2>1. x[1] \in 1..Clients /\ x[2] \in Nat \ {0}
        <3>1. x[1] \in 1..Clients /\ x[2] \in 1..Commands
            BY DEF Messages
        <3>2. \A n \in 1..Commands : n \in Nat \ {0}
            BY PullThenPushAssumption
        <3>3. QED BY <3>1, <3>2
    <2>2. ~(x[1] > c)
        BY <1>3, <2>1
    <2>3. x[1] = c => x[2] < m[2]
        BY <1>3, <2>1, PullThenPushAssumption
    <2>4. x[1] < c \/ x[1] = c
        BY <2>1, <2>2, PullThenPushAssumption
    <2>5. QED BY <2>3, <2>4 DEF Before
<1>4. /\ \A k \in 1..Clients : \A x \in Range(Given(k)) : Before(x, m)
      /\ \A k \in 1..Clients : \A x \in Range(cmd[k]) : Before(x, m)
      /\ \A x \in Range(InProcess) : Before(x, m)
    BY <1>2, <1>3, IsThere
<1>5. Range(cmd'[c]) = Range(cmd[c]) \cup {m} /\ Ascending(cmd'[c])
    <2>1. Ascending(cmd[c])
        BY DEF CommandsKept, InOrder
    <2>2. QED BY <1>1, <1>4, <2>1, OneMore
<1>6. \A k \in 1..Clients : k > c => Range(cmd[k]) = {}
    BY NoMessages
<1>7. InOrder'
    <2>1. Ascending(InProcess)'
        BY DEF CommandsKept, InOrder
    <2> SUFFICES ASSUME NEW k \in 1..Clients, NEW d \in 1..Clients
                 PROVE  /\ Ascending(Given(k))' /\ Ahead(Given(k), InProcess)'
                        /\ Ascending(cmd'[k]) /\ Ahead(InProcess, cmd[k])'
                        /\ Ahead(Given(k), cmd[d])'
                        /\ k < d => Ahead(Given(k), Given(d))' /\ Ahead(cmd'[k], cmd'[d])
        BY <2>1 DEF InOrder
    <2>2. /\ Ascending(Given(k)) /\ Ahead(Given(k), InProcess)
          /\ Ascending(cmd[k]) /\ Ahead(InProcess, cmd[k]) /\ Ahead(Given(k), cmd[d])
          /\ k < d => Ahead(Given(k), Given(d)) /\ Ahead(cmd[k], cmd[d])
        BY DEF CommandsKept, InOrder
    <2>3. /\ Ascending(Given(k))' /\ Ahead(Given(k), InProcess)'
          /\ k < d => Ahead(Given(k), Given(d))'
        BY <2>2
    <2>4. Ascending(cmd'[k]) /\ Ahead(InProcess, cmd[k])'
        BY <1>1, <1>4, <1>5, <2>2 DEF Ahead
    <2>5. Ahead(Given(k), cmd[d])'
        BY <1>1, <1>4, <1>5, <2>2 DEF Ahead
    <2>6. k < d => Ahead(cmd'[k], cmd'[d])
        <3>1. CASE d = c
            <4>1. k < d => cmd'[k] = cmd[k]
                BY <1>1, <3>1, PullThenPushAssumption
            <4>2. QED BY <1>4, <1>5, <2>2, <3>1, <4>1 DEF Ahead
        <3>2. CASE k = c
            <4>1. k < d => Range(cmd[d]) = {} /\ cmd'[d] = cmd[d]
                BY <1>1, <1>6, <3>2, PullThenPushAssumption
            <4>2. QED BY <4>1 DEF Ahead
        <3>3. QED BY <1>1, <2>2, <3>1, <3>2
    <2>7. QED BY <2>3, <2>4, <2>5, <2>6
<1>8. ASSUME NEW x \in Messages PROVE IsSomewhere(x)' <=> x[2] <= sent'[x[1]]
    <2>1. IsSomewhere(x)' <=> IsSomewhere(x) \/ x = m
        BY <1>1, <1>5 DEF IsSomewhere
    <2>2. IsSomewhere(x) <=> x[2] <= sent[x[1]]
        BY DEF CommandsKept
    <2>3. x[1] \in 1..Clients /\ x[2] \in Nat /\ x = <<x[1], x[2]>> /\ m = <<m[1], m[2]>>
        BY PullThenPushAssumption DEF Messages
    <2>4. CASE x[1] # c
        <3>1. sent'[x[1]] = sent[x[1]] /\ x # m
            BY <2>3, <2>4
        <3>2. QED BY <2>1, <2>2, <3>1
    <2>5. CASE x[1] = c
        <3>1. sent'[x[1]] = sent[c] + 1 /\ sent[c] \in Nat
            BY <2>5, PullThenPushAssumption
        <3>2. x = m <=> x[2] = sent[c] + 1
            BY <2>3, <2>5
        <3>3. x[2] <= sent[c] + 1 <=> (x[2] <= sent[c] \/ x[2] = sent[c] + 1)
            BY <2>3, <3>1
        <3>4. QED BY <2>1, <2>2, <2>5, <3>1, <3>2, <3>3
    <2>6. QED BY <2>4, <2>5
<1>9. QED BY <1>7, <1>8 DEF CommandsKept

\* The process pulls the first command of the first connection that has one.
LEMMA PulledIsKept ==
    ASSUME CommandsKept, NEW c \in 1..Clients, UNCHANGED sent,
           cmd \in [1..Clients -> Seq(Messages)],
           cmd[c] # <<>>, cmd' = [cmd EXCEPT ![c] = Tail(@)],
           InProcess = <<>>, InProcess' = <<Head(cmd[c])>>,
           \A k \in 1..Clients : Given(k)' = Given(k),
           \A k \in 1..Clients : k < c => cmd[k] = <<>>
    PROVE  CommandsKept'
<1>1. PICK m : m = Head(cmd[c])
    OBVIOUS
<1>2. /\ cmd[c] \in Seq(Messages) /\ cmd'[c] = Tail(cmd[c])
      /\ \A k \in 1..Clients : k # c => cmd'[k] = cmd[k]
    OBVIOUS
<1>3. /\ Range(cmd[c]) = {m} \cup Range(cmd'[c])
      /\ Ascending(cmd'[c]) /\ \A y \in Range(cmd'[c]) : Before(m, y)
    <2>1. Ascending(cmd[c])
        BY DEF CommandsKept, InOrder
    <2>2. QED BY <1>1, <1>2, <2>1, OneLess
<1>4. InProcess' = <<m>> /\ Range(InProcess') = {m} /\ Ascending(InProcess') /\ Range(InProcess) = {}
    BY <1>1, OneMessage, NoMessages
<1>5. \A k \in 1..Clients : k < c => Range(cmd[k]) = {}
    BY NoMessages
<1>6. \A k \in 1..Clients : Range(cmd'[k]) \subseteq Range(cmd[k]) /\ Ascending(cmd'[k])
    BY <1>2, <1>3 DEF CommandsKept, InOrder
<1>7. InOrder'
    <2> SUFFICES ASSUME NEW k \in 1..Clients, NEW d \in 1..Clients
                 PROVE  /\ Ascending(Given(k))' /\ Ahead(Given(k), InProcess)'
                        /\ Ascending(cmd'[k]) /\ Ahead(InProcess, cmd[k])'
                        /\ Ahead(Given(k), cmd[d])'
                        /\ k < d => Ahead(Given(k), Given(d))' /\ Ahead(cmd'[k], cmd'[d])
        BY <1>4 DEF InOrder
    <2>1. /\ Ascending(Given(k)) /\ Ahead(Given(k), cmd[c])
          /\ Ahead(Given(k), cmd[d])
          /\ c < k => Ahead(cmd[c], cmd[k])
          /\ k < d => Ahead(Given(k), Given(d)) /\ Ahead(cmd[k], cmd[d])
        BY DEF CommandsKept, InOrder
    <2>2. Ascending(Given(k))' /\ (k < d => Ahead(Given(k), Given(d))')
        BY <2>1
    <2>3. Ahead(Given(k), InProcess)'
        BY <1>3, <1>4, <2>1 DEF Ahead
    <2>4. Ahead(InProcess, cmd[k])'
        <3>1. CASE k = c
            BY <1>3, <1>4, <3>1 DEF Ahead
        <3>2. CASE k < c
            BY <1>5, <1>6, <3>2 DEF Ahead
        <3>3. CASE c < k
            BY <1>3, <1>4, <1>6, <2>1, <3>3 DEF Ahead
        <3>4. QED BY <3>1, <3>2, <3>3, PullThenPushAssumption
    <2>5. Ahead(Given(k), cmd[d])' /\ (k < d => Ahead(cmd'[k], cmd'[d]))
        BY <1>6, <2>1 DEF Ahead
    <2>6. QED BY <1>6, <2>2, <2>3, <2>4, <2>5
<1>8. \A x : IsSomewhere(x)' <=> IsSomewhere(x)
    BY <1>2, <1>3, <1>4 DEF IsSomewhere
<1>9. QED BY <1>7, <1>8 DEF CommandsKept

\* The process pushes what it holds, to a client that has the last responses.
LEMMA PushedIsKept ==
    ASSUME CommandsKept, NEW c \in 1..Clients, NEW m \in Messages, UNCHANGED <<cmd, sent>>,
           InProcess = <<m>>, InProcess' = <<>>,
           Given(c) \in Seq(Messages), Given(c)' = Append(Given(c), m),
           \A k \in 1..Clients : k # c => Given(k)' = Given(k),
           \A k \in 1..Clients : k > c => Given(k) = <<>>
    PROVE  CommandsKept'
<1>1. Range(InProcess) = {m} /\ Range(InProcess') = {} /\ Ascending(InProcess')
    BY OneMessage, NoMessages
<1>2. Range(Given(c)') = Range(Given(c)) \cup {m} /\ Ascending(Given(c)')
    <2>1. Ascending(Given(c)) /\ \A x \in Range(Given(c)) : Before(x, m)
        BY <1>1 DEF CommandsKept, InOrder, Ahead
    <2>2. QED BY <2>1, OneMore
<1>3. \A k \in 1..Clients : k > c => Range(Given(k)) = {}
    BY NoMessages
<1>4. InOrder'
    <2> SUFFICES ASSUME NEW k \in 1..Clients, NEW d \in 1..Clients
                 PROVE  /\ Ascending(Given(k))' /\ Ahead(Given(k), InProcess)'
                        /\ Ascending(cmd'[k]) /\ Ahead(InProcess, cmd[k])'
                        /\ Ahead(Given(k), cmd[d])'
                        /\ k < d => Ahead(Given(k), Given(d))' /\ Ahead(cmd'[k], cmd'[d])
        BY <1>1 DEF InOrder
    <2>1. /\ Ascending(Given(k)) /\ Ahead(Given(k), InProcess)
          /\ Ascending(cmd[k]) /\ Ahead(InProcess, cmd[d])
          /\ Ahead(Given(k), cmd[d])
          /\ k < d => Ahead(Given(k), Given(d)) /\ Ahead(cmd[k], cmd[d])
        BY DEF CommandsKept, InOrder
    <2>2. Ahead(Given(k), InProcess)' /\ Ahead(InProcess, cmd[k])'
        BY <1>1 DEF Ahead
    <2>3. Ascending(Given(k))'
        BY <1>2, <2>1
    <2>4. Ahead(Given(k), cmd[d])'
        BY <1>1, <1>2, <2>1 DEF Ahead
    <2>5. ASSUME k < d PROVE Ahead(Given(k), Given(d))'
        <3>1. CASE k = c
            <4>1. Given(d)' = Given(d) /\ Range(Given(d)) = {}
                BY <1>3, <2>5, <3>1, PullThenPushAssumption
            <4>2. QED BY <4>1 DEF Ahead
        <3>2. CASE d = c
            <4>1. Given(k)' = Given(k)
                BY <2>5, <3>2, PullThenPushAssumption
            <4>2. QED BY <1>1, <1>2, <2>1, <2>5, <3>2, <4>1 DEF Ahead
        <3>3. QED BY <2>1, <2>5, <3>1, <3>2
    <2>6. QED BY <2>1, <2>2, <2>3, <2>4, <2>5
<1>5. \A x : IsSomewhere(x)' <=> IsSomewhere(x)
    BY <1>1, <1>2 DEF IsSomewhere
<1>6. QED BY <1>4, <1>5 DEF CommandsKept

\* Steps of the clients.
LEMMA ClientKept ==
    ASSUME IInv, Kept, ClientStart \/ ClientSend \/ ClientReceive \/ ClientEnd
    PROVE  Kept'
<1>1. TypeOK /\ Control /\ InTurn /\ ~Stuck /\ CommandsKept /\ CommandsAhead /\ ResponsesBehind
    BY DEF IInv, Kept
<1>2. UNCHANGED serverVars
    BY DEF ClientStart, ClientSend, ClientReceive, ClientEnd
<1>3. /\ ~Stuck' /\ InProcess' = InProcess /\ cmdSock' = cmdSock /\ rspSock' = rspSock
      /\ cmdSock \in Socks /\ cmdSock.of <= client /\ client \in 0..Clients
    BY <1>1, <1>2 DEF serverVars, pullVars, deviceVars, pushVars, Stuck, InProcess, InRetry,
                      InDevice, InPort, TypeOK, InTurn
<1>4. ASSUME client' = client \/ client' = client + 1, up => client' = client,
             NEW k \in 0..Clients, k <= client, Gone(k)
      PROVE  Gone(k)' \/ (client' = client /\ up' /\ ~up)
    BY <1>3, <1>4, PullThenPushAssumption DEF Gone
<1>5. CASE ClientStart \/ ClientEnd
    <2>1. UNCHANGED <<sent, answers, cmd, rsp>>
        BY <1>5 DEF ClientStart, ClientEnd
    <2>2. CommandsKept' /\ ResponsesBehind'
        BY <1>1, <1>3, <2>1, KeptInPlace DEF Given, ResponsesBehind
    <2>3. CommandsAhead'
        <3>1. \A k \in 0..Clients : k <= client /\ Gone(k) => Gone(k)'
            BY <1>3, <1>5, PullThenPushAssumption DEF ClientStart, ClientEnd, Gone
        <3>2. cmdSock.of \in 0..Clients
            BY <1>3 DEF Socks
        <3>3. QED BY <1>1, <1>3, <2>1, <3>1, <3>2 DEF CommandsAhead
    <2>4. QED BY <1>3, <2>2, <2>3 DEF Kept
<1>6. CASE ClientSend
    <2>1. PICK c : c = client
        OBVIOUS
    <2>2. /\ up /\ sent[c] < Commands
          /\ sent' = [sent EXCEPT ![c] = @ + 1]
          /\ cmd' = [cmd EXCEPT ![c] = Append(@, <<c, sent'[c]>>)]
          /\ UNCHANGED <<client, up, answers, rsp>>
        BY <1>6, <2>1 DEF ClientSend
    <2>3. c \in 1..Clients /\ sent \in [1..Clients -> 0..Commands]
        BY <1>1, <2>1, <2>2, PullThenPushAssumption DEF TypeOK, InTurn
    <2>4. PICK m : m = <<c, sent[c] + 1>>
        OBVIOUS
    <2>5. m \in Messages /\ m[1] = c /\ m[2] = sent[c] + 1 /\ sent'[c] = sent[c] + 1
        <3>1. sent[c] \in 0..Commands /\ sent[c] + 1 \in 1..Commands
            BY <2>2, <2>3, PullThenPushAssumption
        <3>2. QED BY <2>2, <2>3, <2>4, <3>1 DEF Messages
    <2>6. cmd \in [1..Clients -> Seq(Messages)] /\ cmd' = [cmd EXCEPT ![c] = Append(@, m)]
        BY <1>1, <2>2, <2>4, <2>5 DEF TypeOK
    <2>7. Range(InProcess) \subseteq Messages
        BY <1>1, InProcessIs, OneMessage, NoMessages
    <2>8. \A k \in 1..Clients : Given(k)' = Given(k) /\ Given(k) \in Seq(Messages)
        BY <1>1, <2>2 DEF TypeOK, Given
    <2>9. \A k \in 1..Clients : k > c => sent[k] = 0 /\ cmd[k] = <<>>
        BY <1>1, <2>1 DEF InTurn
    <2>10. CommandsKept'
        BY <1>1, <1>3, <2>2, <2>3, <2>5, <2>6, <2>7, <2>8, <2>9, SentIsKept
    <2>11. CommandsAhead'
        <3>1. \A k \in 1..Clients : k # c => cmd'[k] = cmd[k]
            BY <2>3, <2>6
        <3>2. cmdSock.of \in 0..Clients /\ client = c
            BY <1>3, <2>1 DEF Socks
        <3>3. \A k \in 1..Clients : k < cmdSock.of => k # c
            BY <1>3, <3>2, PullThenPushAssumption
        <3>4. ~cmdSock.open /\ cmdSock.of # 0 => cmdSock.of \in 1..Clients /\ cmdSock.of # c
            <4>1. ~Gone(c)
                BY <2>2, <2>3, <3>2, PullThenPushAssumption DEF Gone
            <4>2. QED BY <1>1, <3>2, <4>1, PullThenPushAssumption DEF CommandsAhead
        <3>5. QED BY <1>1, <1>3, <2>2, <3>1, <3>3, <3>4 DEF CommandsAhead, Gone
    <2>12. QED BY <1>1, <1>3, <2>2, <2>10, <2>11 DEF Kept, ResponsesBehind
<1>7. CASE ClientReceive
    <2>1. PICK c : c = client
        OBVIOUS
    <2>2. /\ rsp[c] # <<>> /\ up
          /\ answers' = [answers EXCEPT ![c] = Append(@, Head(rsp[c]))]
          /\ rsp' = [rsp EXCEPT ![c] = Tail(@)]
          /\ UNCHANGED <<client, up, sent, cmd>>
        BY <1>7, <2>1 DEF ClientReceive
    <2>3. /\ c \in 1..Clients /\ rsp[c] \in Seq(Messages) /\ answers[c] \in Seq(Messages)
          /\ answers'[c] = Append(answers[c], Head(rsp[c])) /\ rsp'[c] = Tail(rsp[c])
          /\ \A k \in 1..Clients : k # c => rsp'[k] = rsp[k] /\ answers'[k] = answers[k]
        <3>1. c \in 1..Clients
            BY <1>1, <2>1, <2>2, PullThenPushAssumption DEF TypeOK, InTurn
        <3>2. rsp \in [1..Clients -> Seq(Messages)] /\ answers \in [1..Clients -> Seq(Messages)]
            BY <1>1 DEF TypeOK
        <3>3. QED BY <2>2, <3>1, <3>2
    <2>4. \A k \in 1..Clients : Given(k)' = Given(k)
        <3>1. Append(answers[c], Head(rsp[c])) \o Tail(rsp[c]) = answers[c] \o rsp[c]
            <4>1. PICK a, r : a = answers[c] /\ r = rsp[c]
                OBVIOUS
            <4>2. a \in Seq(Messages) /\ r \in Seq(Messages) /\ r # <<>>
                BY <2>2, <2>3, <4>1
            <4>3. Append(a, Head(r)) \o Tail(r) = a \o r
                BY <4>2, GivenReceived
            <4>4. QED BY <4>1, <4>3
        <3>2. QED BY <2>3, <3>1 DEF Given
    <2>5. CommandsKept'
        BY <1>1, <1>3, <2>2, <2>4, KeptInPlace
    <2>6. ResponsesBehind'
        BY <1>1, <1>3, <2>2, <2>3 DEF ResponsesBehind
    <2>7. CommandsAhead'
        BY <1>1, <1>3, <2>2 DEF CommandsAhead, Gone
    <2>8. QED BY <1>3, <2>5, <2>6, <2>7 DEF Kept
<1>8. QED BY <1>5, <1>6, <1>7

\* Steps of the process at which no message moves to another place.
LEMMA QuietKept ==
    ASSUME IInv, IInv', Kept, UNCHANGED clientVars, UNCHANGED <<cmd, rsp>>, ~Stuck',
           Holds' <=> Holds, Holds => Held' = Held, CommandsAhead', ResponsesBehind'
    PROVE  Kept'
<1>1. TypeOK /\ Control /\ ~Stuck /\ CommandsKept
    BY DEF IInv, Kept
<1>2. TypeOK' /\ Control'
    BY DEF IInv
<1>3. /\ Holds => InProcess = <<Held>>
      /\ ~Holds => InProcess = <<>>
    BY <1>1, InProcessIs
<1>4. /\ Holds' => InProcess' = <<Held'>>
      /\ ~Holds' => InProcess' = <<>>
    BY <1>2, InProcessNext
<1>5. InProcess' = InProcess
    BY <1>3, <1>4
<1>6. CommandsKept'
    BY <1>1, <1>5, KeptInPlace DEF Given, clientVars
<1>7. QED BY <1>6 DEF Kept

-----------------------------------------------------------------------------
(* Steps of the process *)

LEMMA AheadKept ==
    ASSUME CommandsAhead, UNCHANGED clientVars, UNCHANGED <<cmd, cmdSock>>
    PROVE  CommandsAhead'
BY DEF CommandsAhead, Gone, clientVars

LEMMA BehindKept ==
    ASSUME ResponsesBehind, UNCHANGED clientVars, UNCHANGED <<rsp, rspSock>>
    PROVE  ResponsesBehind'
BY DEF ResponsesBehind, clientVars

\* The connection of a pull or push is the one used before or a later one.
LEMMA CurrentIsNext ==
    ASSUME NEW s \in Socks, client \in 0..Clients, NEW c, c = Current(s), c # 0
    PROVE  /\ c \in Int /\ s.of \in 0..Clients /\ s.of <= c
           /\ s.open => c = s.of
           /\ ~s.open => \A k \in 1..Clients : k < c => k < s.of \/ k = s.of
<1>1. s.of \in 0..Clients
    BY DEF Socks
<1>2. \A n \in 0..Clients : n \in Int /\ n <= n /\ n <= n + 1 /\ n + 1 \in Int
                            /\ \A k \in 1..Clients : k < n + 1 => k < n \/ k = n
    BY PullThenPushAssumption
<1>3. (s.open /\ c = s.of) \/ (~s.open /\ c = s.of + 1)
    BY DEF Current
<1>4. QED BY <1>1, <1>2, <1>3

\* No command is passed over.
LEMMA PassesNone ==
    ASSUME TypeOK, CommandsAhead, NEW c, c = Current(cmdSock), c # 0
    PROVE  \A k \in 1..Clients : k < c => cmd[k] = <<>>
<1>1. cmdSock \in Socks /\ client \in 0..Clients
    BY DEF TypeOK
<1>2. PICK n, open : n = cmdSock.of /\ open = cmdSock.open
    OBVIOUS
<1>3. (open => c = n) /\ (~open => \A k \in 1..Clients : k < c => k < n \/ k = n)
    BY <1>1, <1>2, CurrentIsNext
<1>4. /\ \A k \in 1..Clients : k < n => cmd[k] = <<>>
      /\ ~open /\ n # 0 => cmd[n] = <<>>
    BY <1>2 DEF CommandsAhead
<1>5. \A k \in 1..Clients : k # 0
    BY PullThenPushAssumption
<1>6. QED BY <1>3, <1>4, <1>5

LEMMA WaitKept ==
    ASSUME IInv, IInv', Kept, NEW ready \in BOOLEAN, Device(ready), UNCHANGED clientVars,
           WaitBegin(ready) \/ WaitStep \/ AwaitResponse
    PROVE  Kept'
<1>1. TypeOK /\ Control /\ ~Stuck /\ CommandsAhead /\ ResponsesBehind
    BY DEF IInv, Kept
<1>2. UNCHANGED <<cmd, cmdSock, rsp, rspSock>>
    BY DEF WaitBegin, WaitStep, AwaitResponse, cmdVars, rspVars
<1>3. CommandsAhead' /\ ResponsesBehind'
    BY <1>1, <1>2, AheadKept, BehindKept
<1>4. CASE WaitBegin(ready) \/ WaitStep
    <2>1. ~Holds /\ ~Holds' /\ ~Stuck'
        BY <1>4 DEF WaitBegin, WaitStep, AtTop, Holds, Stuck
    <2>2. QED BY <1>2, <1>3, <2>1, QuietKept
<1>5. CASE AwaitResponse
    <2>1. pc = "respond" /\ pc' = "respond" /\ ~rspVld /\ ~cmdVld
        BY <1>1, <1>5 DEF AwaitResponse, Control
    <2>2. todo' = todo
        BY <2>1 DEF Device
    <2>3. Holds /\ Holds' /\ ~Stuck' /\ Held' = Held
        BY <1>1, <2>1, <2>2 DEF Holds, Stuck, Held
    <2>4. QED BY <1>2, <1>3, <2>3, QuietKept
<1>6. QED BY <1>4, <1>5

LEMMA PullFailKept ==
    ASSUME IInv, IInv', Kept, NEW ready \in BOOLEAN, UNCHANGED clientVars, PullFail(ready)
    PROVE  Kept'
<1>0. PICK c : c = Current(cmdSock)
    OBVIOUS
<1>1. TypeOK /\ CommandsAhead /\ ResponsesBehind
    BY DEF IInv, Kept
<1>2. /\ pc \in {"top", "delay"} /\ pc' = "top"
      /\ c # 0 => cmd[c] = <<>>
      /\ cmdSock' = IF c = 0 THEN cmdSock ELSE IF Gone(c) THEN Closed(c) ELSE Open(c)
      /\ UNCHANGED <<cmd, rsp, rspSock>>
    BY <1>0 DEF PullFail, PullNothing, CallNow, AtTop, rspVars
<1>3. ResponsesBehind'
    BY <1>1, <1>2, BehindKept
<1>4. CommandsAhead'
    <2>1. CASE c = 0
        BY <1>1, <1>2, <2>1, AheadKept
    <2>2. CASE c # 0
        <3>1. \A k \in 1..Clients : k < c => cmd'[k] = <<>>
            BY <1>0, <1>1, <1>2, <2>2, PassesNone
        <3>2. cmd'[c] = <<>> /\ (Gone(c)' <=> Gone(c))
            BY <1>2, <2>2 DEF Gone, clientVars
        <3>3. cmdSock'.of = c /\ (~cmdSock'.open => Gone(c))
            BY <1>2, <2>2 DEF Open, Closed
        <3>4. QED BY <3>1, <3>2, <3>3 DEF CommandsAhead, Gone
    <2>3. QED BY <2>1, <2>2
<1>5. ~Holds /\ ~Holds' /\ ~Stuck'
    BY <1>2 DEF Holds, Stuck
<1>6. QED BY <1>2, <1>3, <1>4, <1>5, QuietKept

LEMMA PullOkKept ==
    ASSUME IInv, IInv', Kept, NEW ready \in BOOLEAN, UNCHANGED clientVars, PullOk(ready)
    PROVE  Kept'
<1>0. PICK c : c = Current(cmdSock)
    OBVIOUS
<1>1. TypeOK /\ Control /\ InTurn /\ ~Stuck /\ CommandsKept /\ CommandsAhead /\ ResponsesBehind
    BY DEF IInv, Kept
<1>2. /\ pc \in {"top", "delay"} /\ pc' = "present"
      /\ c # 0 /\ cmd[c] # <<>> /\ cmd' = [cmd EXCEPT ![c] = Tail(@)]
      /\ cmdSock' = Open(c) /\ command' = Head(cmd[c])
      /\ UNCHANGED <<rsp, rspSock>>
    BY <1>0 DEF PullOk, CallNow, AtTop, rspVars
<1>3. c \in 1..Clients
    <2>1. cmdSock \in Socks /\ cmdSock.of <= client
        BY <1>1 DEF TypeOK, InTurn
    <2>2. QED BY <1>0, <1>1, <1>2, <2>1, CurrentIs
<1>4. \A k \in 1..Clients : k < c => cmd[k] = <<>> /\ cmd'[k] = <<>>
    <2>1. \A k \in 1..Clients : k < c => cmd[k] = <<>>
        BY <1>0, <1>1, <1>2, PassesNone
    <2>2. \A k \in 1..Clients : k < c => cmd'[k] = cmd[k]
        BY <1>1, <1>2, <1>3, PullThenPushAssumption DEF TypeOK
    <2>3. QED BY <2>1, <2>2
<1>5. ~Stuck' /\ ~Holds /\ Holds' /\ Held' = Head(cmd[c])
    BY <1>2 DEF Stuck, Holds, Held
<1>6. InProcess = <<>>
    BY <1>1, <1>5, InProcessIs
<1>7. InProcess' = <<Head(cmd[c])>>
    <2>1. TypeOK' /\ Control'
        BY DEF IInv
    <2>2. InProcess' = <<Held'>>
        BY <1>5, <2>1, InProcessNext
    <2>3. QED BY <1>5, <2>2
<1>8. CommandsKept'
    <2>1. \A k \in 1..Clients : Given(k)' = Given(k)
        BY <1>2 DEF Given, clientVars
    <2>2. UNCHANGED sent /\ cmd \in [1..Clients -> Seq(Messages)]
        BY <1>1 DEF TypeOK, clientVars
    <2>3. QED BY <1>1, <1>2, <1>3, <1>4, <1>6, <1>7, <2>1, <2>2, PulledIsKept
<1>9. CommandsAhead'
    BY <1>2, <1>4 DEF CommandsAhead, Open
<1>10. ResponsesBehind'
    BY <1>1, <1>2, BehindKept
<1>11. QED BY <1>5, <1>8, <1>9, <1>10 DEF Kept

\* Only here does it matter that the device is ready.
LEMMA PresentKept ==
    ASSUME AlwaysReady, IInv, IInv', Kept, NEW ready \in BOOLEAN, Device(ready),
           UNCHANGED clientVars, Present
    PROVE  Kept'
<1>1. Control /\ CommandsAhead /\ ResponsesBehind
    BY DEF IInv, Kept
<1>2. /\ pc = "present" /\ pc' = "respond" /\ UNCHANGED <<cmd, cmdSock, rsp, rspSock>>
    BY DEF Present, cmdVars, rspVars
<1>3. cmdVld /\ todo = None /\ command # None
    BY <1>1, <1>2 DEF Control
<1>4. todo' = command
    BY <1>3 DEF Device
<1>5. Holds /\ Holds' /\ ~Stuck' /\ Held' = Held
    BY <1>2, <1>3, <1>4 DEF Holds, Stuck, Held
<1>6. CommandsAhead' /\ ResponsesBehind'
    BY <1>1, <1>2, AheadKept, BehindKept
<1>7. QED BY <1>2, <1>5, <1>6, QuietKept

LEMMA PushKept ==
    ASSUME IInv, IInv', Kept, NEW d \in Messages, UNCHANGED clientVars, Push(d),
           Holds, Held = d, UNCHANGED <<cmd, cmdSock>>, dataQ' = d, todo' = None
    PROVE  Kept'
<1>0. PICK c : c = Current(rspSock)
    OBVIOUS
<1>1. TypeOK /\ Control /\ InTurn /\ ~Stuck /\ CommandsKept /\ CommandsAhead /\ ResponsesBehind
    BY DEF IInv, Kept
<1>2. rspSock \in Socks /\ rspSock.of <= client /\ client \in 0..Clients
    BY <1>1 DEF TypeOK, InTurn
<1>3. CommandsAhead'
    BY <1>1, AheadKept
<1>4. c # 0 => c \in 1..Clients /\ rspSock.of \in 0..Clients /\ rspSock.of <= c
    BY <1>0, <1>1, <1>2, CurrentIs, CurrentIsNext
<1>5. ASSUME rspSock'.of = c, c # 0
      PROVE  \A k \in 1..Clients : k > rspSock'.of => answers[k] = <<>> /\ rsp[k] = <<>>
    <2>1. \A k \in 1..Clients : k > c => k > rspSock.of
        BY <1>4, <1>5, PullThenPushAssumption
    <2>2. QED BY <1>1, <1>5, <2>1 DEF ResponsesBehind
<1>6. ASSUME rsp' = rsp, pc' = "retry", rspSock' = rspSock \/ (c # 0 /\ rspSock'.of = c)
      PROVE  Kept'
    <2>1. ~Stuck' /\ Holds' /\ Held' = d
        BY <1>6 DEF Stuck, Holds, Held
    <2>2. ResponsesBehind'
        BY <1>1, <1>5, <1>6 DEF ResponsesBehind, clientVars
    <2>3. QED BY <1>3, <1>6, <2>1, <2>2, QuietKept
<1>7. CASE PushNoClient
    BY <1>6, <1>7 DEF PushNoClient, rspVars
<1>8. CASE c # 0 /\ (PushFull(c) \/ PushGone(c))
    BY <1>6, <1>8 DEF PushFull, PushGone, Open, Closed
<1>9. CASE c # 0 /\ PushOk(c, d)
    <2>1. rsp' = [rsp EXCEPT ![c] = Append(@, d)] /\ rspSock'.of = c /\ pc' = "top"
        BY <1>9 DEF PushOk, Open
    <2>2. /\ c \in 1..Clients /\ rsp[c] \in Seq(Messages) /\ answers[c] \in Seq(Messages)
          /\ rsp'[c] = Append(rsp[c], d) /\ answers' = answers
          /\ \A k \in 1..Clients : k # c => rsp'[k] = rsp[k]
        BY <1>1, <1>4, <1>9, <2>1 DEF TypeOK, clientVars
    <2>3. Given(c) \in Seq(Messages) /\ Given(c)' = Append(Given(c), d)
        <3>1. PICK a, r : a = answers[c] /\ r = rsp[c]
            OBVIOUS
        <3>2. a \in Seq(Messages) /\ r \in Seq(Messages)
            BY <2>2, <3>1
        <3>3. a \o Append(r, d) = Append(a \o r, d) /\ a \o r \in Seq(Messages)
            BY <3>2, GivenOneMore
        <3>4. Given(c) = a \o r /\ Given(c)' = a \o Append(r, d)
            BY <2>2, <3>1 DEF Given
        <3>5. QED BY <3>3, <3>4
    <2>4. \A k \in 1..Clients : k # c => Given(k)' = Given(k)
        BY <2>2 DEF Given
    <2>5. \A k \in 1..Clients : k > c => answers[k] = <<>> /\ rsp[k] = <<>>
        BY <1>5, <1>9, <2>1
    <2>6. \A k \in 1..Clients : k > c => Given(k) = <<>>
        <3>1. <<>> \o <<>> = <<>>
            OBVIOUS
        <3>2. QED BY <2>5, <3>1 DEF Given
    <2>7. ~Holds' /\ ~Stuck'
        BY <2>1 DEF Holds, Stuck
    <2>8. InProcess = <<d>>
        BY <1>1, InProcessIs
    <2>9. InProcess' = <<>>
        <3>1. TypeOK' /\ Control'
            BY DEF IInv
        <3>2. QED BY <2>7, <3>1, InProcessNext
    <2>10. CommandsKept'
        <3>1. UNCHANGED <<cmd, sent>>
            BY DEF clientVars
        <3>2. QED BY <1>1, <2>2, <2>3, <2>4, <2>6, <2>8, <2>9, <3>1, PushedIsKept
    <2>11. ResponsesBehind'
        <3>1. \A k \in 1..Clients : k > c => k # c
            BY <2>2, PullThenPushAssumption
        <3>2. QED BY <2>1, <2>2, <2>5, <3>1 DEF ResponsesBehind
    <2>12. QED BY <1>3, <2>7, <2>10, <2>11 DEF Kept
<1>10. QED BY <1>0, <1>7, <1>8, <1>9 DEF Push

LEMMA ResponseKept ==
    ASSUME IInv, IInv', Kept, NEW ready \in BOOLEAN, Device(ready), UNCHANGED clientVars,
           TakeResponse \/ RetryPush
    PROVE  Kept'
<1>1. TypeOK /\ Control
    BY DEF IInv
<1>2. CASE TakeResponse
    <2>1. /\ pc = "respond" /\ rspVld /\ dataQ' = todo /\ Push(todo)
          /\ UNCHANGED <<cmd, cmdSock>>
        BY <1>2 DEF TakeResponse, cmdVars
    <2>2. todo # None /\ todo \in Messages /\ rspRdy
        BY <1>1, <2>1 DEF Control, TypeOK
    <2>3. todo' = None
        BY <1>1, <2>1, <2>2, DeviceIs
    <2>4. Holds /\ Held = todo
        BY <2>1 DEF Holds, Held
    <2>5. PICK d \in Messages : d = todo
        BY <2>2
    <2>6. Push(d)
        BY <2>1, <2>5
    <2>7. QED BY <2>1, <2>3, <2>4, <2>5, <2>6, PushKept
<1>3. CASE RetryPush
    <2>1. /\ pc = "retry" /\ dataQ' = dataQ /\ Push(dataQ) /\ UNCHANGED <<cmd, cmdSock>>
        BY <1>3 DEF RetryPush, cmdVars, pushVars
    <2>2. dataQ \in Messages /\ ~rspRdy /\ ~cmdVld /\ todo = None
        BY <1>1, <2>1 DEF Control, TypeOK
    <2>3. todo' = None
        BY <1>1, <2>2, DeviceIs
    <2>4. Holds /\ Held = dataQ
        BY <2>1 DEF Holds, Held
    <2>5. PICK d \in Messages : d = dataQ
        BY <2>2
    <2>6. Push(d)
        BY <2>1, <2>5
    <2>7. QED BY <2>1, <2>3, <2>4, <2>5, <2>6, PushKept
<1>4. QED BY <1>2, <1>3

-----------------------------------------------------------------------------
(* The theorem *)

LEMMA InitKept == Init => Kept
<1> SUFFICES ASSUME Init PROVE Kept
    OBVIOUS
<1>1. ~Stuck /\ CommandsAhead /\ ResponsesBehind
    BY DEF Init, Stuck, CommandsAhead, ResponsesBehind, Closed
<1>2. InProcess = <<>>
    <2>1. <<>> \o <<>> \o <<>> = <<>>
        OBVIOUS
    <2>2. QED BY <2>1 DEF Init, InProcess, InRetry, InDevice, InPort
<1>3. \A c \in 1..Clients : Given(c) = <<>> /\ cmd[c] = <<>>
    <2>1. <<>> \o <<>> = <<>>
        OBVIOUS
    <2>2. QED BY <2>1 DEF Init, Given
<1>4. InOrder
    BY <1>2, <1>3, NoMessages DEF InOrder, Ahead
<1>5. \A m \in Messages : ~IsSomewhere(m) /\ ~(m[2] <= sent[m[1]])
    <2>1. \A m : ~IsSomewhere(m)
        BY <1>2, <1>3, NoMessages DEF IsSomewhere
    <2>2. \A m \in Messages : m[1] \in 1..Clients /\ m[2] \in 1..Commands
        BY DEF Messages
    <2>3. \A n \in 1..Commands : ~(n <= 0)
        BY PullThenPushAssumption
    <2>4. QED BY <2>1, <2>2, <2>3 DEF Init
<1>6. QED BY <1>1, <1>4, <1>5 DEF Kept, CommandsKept

\* Every command that was sent is in one place, in order, as itself or as its response,
\* when the device has pull_data_rdy high for every command.  One that has not loses
\* the command, as the run with a busy device shows.
THEOREM CommandsKeptHolds == ASSUME AlwaysReady PROVE Spec => []CommandsKept
<1>1. IInv /\ IInv' /\ Kept /\ [Next]_vars => Kept'
    <2> SUFFICES ASSUME IInv, IInv', Kept, [Next]_vars PROVE Kept'
        OBVIOUS
    <2>1. CASE ClientStart \/ ClientSend \/ ClientReceive \/ ClientEnd
        BY <2>1, ClientKept
    <2>2. ASSUME NEW ready \in BOOLEAN, Posedge(ready) PROVE Kept'
        <3>1. Process(ready) /\ Device(ready) /\ UNCHANGED clientVars
            BY <2>2 DEF Posedge
        <3>2. QED BY <3>1, WaitKept, PullOkKept, PullFailKept, PresentKept, ResponseKept
                 DEF Process
    <2>3. CASE UNCHANGED vars
        <3>1. UNCHANGED clientVars /\ UNCHANGED <<cmd, cmdSock, rsp, rspSock, pc, command, todo, dataQ>>
            BY <2>3 DEF vars, cmdVars, rspVars, pullVars, deviceVars, pushVars
        <3>2. ~Stuck' /\ (Holds' <=> Holds) /\ Held' = Held
            BY <3>1 DEF Kept, Stuck, Holds, Held
        <3>3. CommandsAhead' /\ ResponsesBehind'
            BY <3>1, AheadKept, BehindKept DEF Kept
        <3>4. QED BY <3>1, <3>2, <3>3, QuietKept
    <2>4. QED BY <2>1, <2>2, <2>3 DEF Next
<1>2. Kept => CommandsKept
    BY DEF Kept
<1>3. QED BY <1>1, <1>2, InitKept, Invariance, PTL DEF Spec

=============================================================================
