--------------------------- MODULE SocketIo_proofs ---------------------------
(***************************************************************************)
(* Proofs about SocketIo for every message size, every kernel buffer,      *)
(* every number of messages and both kinds of sockets.                     *)
(***************************************************************************)
EXTENDS SocketIo, SequenceTheorems, TLAPS

\* A sequence of units stays one when units of a message are appended to it.
LEMMA ChunkType ==
    ASSUME NEW m \in Nat \ {0}, NEW d \in Nat, NEW k \in Nat, d + k <= Size
    PROVE  /\ Chunk(m, d, k) \in Seq(Units)
           /\ Len(Chunk(m, d, k)) = k
           /\ \A i \in 1..k : Chunk(m, d, k)[i] = Unit(m, d + i)
<1>1. \A i \in 1..k : d + i \in 1..Size
    BY SocketIoAssumption
<1>2. \A i \in 1..k : Unit(m, d + i) \in Units
    BY <1>1 DEF Unit, Units
<1>3. Chunk(m, d, k) \in [1..k -> Units]
    BY <1>2 DEF Chunk
<1>4. Chunk(m, d, k) \in Seq(Units)
    BY <1>3
<1>5. Len(Chunk(m, d, k)) = k
    BY <1>3, <1>4, LenProperties
<1>6. QED BY <1>4, <1>5 DEF Chunk

\* The first units of the kernel buffer and the rest of it.
LEMMA SplitProperties ==
    ASSUME NEW s \in Seq(Units), NEW k \in 1..Len(s)
    PROVE  /\ SubSeq(s, 1, k) \in Seq(Units)
           /\ Len(SubSeq(s, 1, k)) = k
           /\ \A i \in 1..k : SubSeq(s, 1, k)[i] = s[i]
           /\ SubSeq(s, k + 1, Len(s)) \in Seq(Units)
           /\ Len(SubSeq(s, k + 1, Len(s))) = Len(s) - k
           /\ \A i \in 1..(Len(s) - k) : SubSeq(s, k + 1, Len(s))[i] = s[k + i]
<1>1. Len(s) \in Nat /\ k \in Nat /\ k >= 1 /\ k <= Len(s)
    BY LenProperties
<1>2. \A i \in 1..Len(s) : s[i] \in Units
    BY ElementOfSeq
<1>3. /\ SubSeq(s, 1, k) \in Seq(Units)
      /\ Len(SubSeq(s, 1, k)) = k
      /\ \A i \in 1..k : SubSeq(s, 1, k)[i] = s[i]
    BY <1>1, <1>2, SubSeqProperties
<1>4. /\ SubSeq(s, k + 1, Len(s)) \in Seq(Units)
      /\ Len(SubSeq(s, k + 1, Len(s))) = Len(s) - k
      /\ \A i \in 1..(Len(s) - k) : SubSeq(s, k + 1, Len(s))[i] = s[k + i]
    BY <1>1, <1>2, SubSeqProperties
<1>5. QED BY <1>3, <1>4

-----------------------------------------------------------------------------
(* The inductive invariant, action by action *)

\* Nothing is in the kernel and nobody has begun: the stream is aligned.
LEMMA InitInv == Init => IInv
<1> SUFFICES ASSUME Init PROVE IInv
    OBVIOUS
<1>1. TypeOK
    BY SocketIoAssumption, EmptySeq DEF Init, TypeOK, Results
<1>2. Aligned
    BY DEF Init, Aligned
<1>3. Chain /\ Ends /\ Behind
    BY DEF Init, Chain, Ends, Behind
<1>4. QED BY <1>1, <1>2, <1>3 DEF Init, IInv

\* A send() that takes any part of a message extends the aligned stream.
LEMMA SendSomeInv ==
    ASSUME IInv, NEW k \in 1..Size, SendSome(k)
    PROVE  IInv'
<1> DEFINE L == Len(wire)
<1>1. TypeOK /\ k \in Nat /\ k >= 1 /\ Size \in Nat /\ Cap \in Nat /\ sendDone + k <= Size
    BY SocketIoAssumption DEF IInv, SendSome
<1>2. /\ Chunk(sent + 1, sendDone, k) \in Seq(Units)
      /\ Len(Chunk(sent + 1, sendDone, k)) = k
      /\ \A i \in 1..k : Chunk(sent + 1, sendDone, k)[i] = Unit(sent + 1, sendDone + i)
    <2>1. sent + 1 \in Nat \ {0} /\ sendDone \in Nat
        BY <1>1 DEF TypeOK
    <2>2. QED BY <2>1, <1>1, ChunkType
<1>3. L \in Nat
    BY <1>1, LenProperties DEF TypeOK
<1>4. /\ wire' \in Seq(Units)
      /\ Len(wire') = L + k
      /\ \A i \in 1..L : wire'[i] = wire[i]
      /\ \A i \in 1..k : wire'[L + i] = Unit(sent + 1, sendDone + i)
    <2>1. /\ wire' \in Seq(Units)
          /\ Len(wire') = L + k
          /\ \A i \in 1..(L + k) : wire'[i] =
                IF i <= L THEN wire[i] ELSE Chunk(sent + 1, sendDone, k)[i - L]
        <3>1. wire' = wire \o Chunk(sent + 1, sendDone, k) /\ wire \in Seq(Units)
            BY <1>1 DEF TypeOK, SendSome
        <3>2. QED BY <3>1, <1>2, ConcatProperties
    <2>2. ASSUME NEW i \in 1..L PROVE wire'[i] = wire[i]
        BY <2>1, <1>1, <1>3
    <2>3. ASSUME NEW i \in 1..k PROVE wire'[L + i] = Unit(sent + 1, sendDone + i)
        <3>1. L + i \in 1..(L + k) /\ ~(L + i <= L) /\ (L + i) - L = i
            BY <1>1, <1>3
        <3>2. wire'[L + i] = Chunk(sent + 1, sendDone, k)[i]
            BY <2>1, <3>1
        <3>3. QED BY <3>2, <1>2
    <2>4. QED BY <2>1, <2>2, <2>3
<1>5. /\ senderOpen /\ senderOpen' /\ readerOpen' = readerOpen
      /\ received' = received /\ readBuf' = readBuf /\ readResult' = readResult
    BY DEF SendSome, CanSend, readVars, IInv, TypeOK
<1>6. TypeOK'
    <2>1. sent' \in Nat /\ sendDone' \in 0..(Size - 1) /\ sendResult' \in Results
        BY <1>1 DEF TypeOK, SendSome, Results
    <2>2. Len(wire') <= Cap
        BY <1>4 DEF SendSome
    <2>3. QED BY <1>1, <1>4, <1>5, <2>1, <2>2 DEF TypeOK
<1>7. Aligned'
    BY <1>5 DEF IInv, Aligned
<1>8. readResult # "zero"
    BY <1>5 DEF IInv
<1>9. ASSUME readerOpen PROVE Chain' /\ Ends' /\ Behind'
    <2>1. Chain /\ Ends
        BY <1>9 DEF IInv
    <2>2. ASSUME NEW i \in 1..Len(wire'), NEW d \in 0..Size,
                 i + d <= Len(wire'), wire'[i].off + d <= Size
          PROVE  wire'[i + d] = Unit(wire'[i].msg, wire'[i].off + d)
        <3>1. CASE i + d <= L
            <4>1. i \in 1..L /\ i + d \in 1..L
                BY <3>1, <1>1, <1>3, <1>4
            <4>2. wire'[i] = wire[i] /\ wire'[i + d] = wire[i + d]
                BY <4>1, <1>4
            <4>3. QED BY <4>1, <4>2, <2>1, <2>2 DEF Chain
        <3>2. CASE i <= L /\ i + d > L
            <4>1. i \in 1..L /\ L - i \in 0..Size /\ L - i < d /\ L \in 1..L /\ wire # <<>>
                BY <3>2, <1>1, <1>3
            <4>2. wire'[i] = wire[i] /\ wire[i] \in Units
                BY <4>1, <1>1, <1>4, ElementOfSeq DEF TypeOK
            <4>3. wire[i + (L - i)] = Unit(wire[i].msg, wire[i].off + (L - i))
                BY <4>1, <4>2, <2>1, <2>2, <1>1, <1>3 DEF Chain, Units
            <4>4. i + (L - i) = L
                BY <4>1, <1>3
            <4>5. wire[L] = Unit(wire[i].msg, wire[i].off + (L - i))
                BY <4>3, <4>4
            <4>6. wire[i].off + (L - i) # Size
                BY <4>1, <4>2, <2>2, <1>1, <1>3 DEF Units
            <4>7. Succ(wire[L]) = Unit(wire[i].msg, wire[i].off + (L - i) + 1)
                BY <4>5, <4>6 DEF Succ, Unit
            <4>8. Succ(wire[L]) = Unit(sent + 1, sendDone + 1)
                BY <2>1, <4>1 DEF Ends
            <4>9. wire[i].msg = sent + 1 /\ wire[i].off + (L - i) + 1 = sendDone + 1
                BY <4>7, <4>8 DEF Unit
            <4>10. (i + d) - L \in 1..k /\ L + ((i + d) - L) = i + d
                BY <3>2, <2>2, <1>1, <1>3, <1>4
            <4>11. wire'[i + d] = Unit(sent + 1, sendDone + ((i + d) - L))
                BY <4>10, <1>4
            <4>12. sendDone + ((i + d) - L) = wire[i].off + d
                <5>1. wire[i].off \in 1..Size
                    BY <4>2 DEF Units
                <5>2. sendDone \in Nat /\ i \in Nat /\ d \in Nat /\ wire[i].off \in Nat
                    BY <5>1, <1>1, <1>3 DEF TypeOK
                <5>3. L \in Nat
                    BY <1>1, <1>3
                <5>4. \A o, s, j, e, l \in Nat :
                          o + (l - j) + 1 = s + 1 => s + ((j + e) - l) = o + e
                    OBVIOUS
                <5>5. QED BY <5>2, <5>3, <5>4, <4>9
            <4>13. QED BY <4>2, <4>9, <4>11, <4>12
        <3>3. CASE i > L
            <4>1. /\ i - L \in 1..k /\ (i + d) - L \in 1..k
                  /\ L + (i - L) = i /\ L + ((i + d) - L) = i + d
                BY <3>3, <2>2, <1>1, <1>3, <1>4
            <4>2. /\ wire'[i] = Unit(sent + 1, sendDone + (i - L))
                  /\ wire'[i + d] = Unit(sent + 1, sendDone + ((i + d) - L))
                BY <4>1, <1>4
            <4>3. sendDone + ((i + d) - L) = (sendDone + (i - L)) + d
                BY <1>1, <1>3, <1>4 DEF TypeOK
            <4>4. QED BY <4>2, <4>3 DEF Unit
        <3>4. QED BY <3>1, <3>2, <3>3, <1>1, <1>3, <1>4
    <2>3. ASSUME NEW i \in 1..(Len(wire') - 1), wire'[i].off = Size
          PROVE  wire'[i + 1] = Succ(wire'[i])
        <3>1. CASE i < L
            <4>1. i \in 1..L /\ i + 1 \in 1..L /\ i \in 1..(L - 1)
                BY <3>1, <1>1, <1>3, <1>4
            <4>2. wire'[i] = wire[i] /\ wire'[i + 1] = wire[i + 1]
                BY <4>1, <1>4
            <4>3. QED BY <4>1, <4>2, <2>1, <2>3 DEF Chain
        <3>2. CASE i = L
            <4>1. i \in 1..L /\ 1 \in 1..k /\ wire # <<>>
                BY <3>2, <1>1, <1>3
            <4>2. wire'[i] = wire[i] /\ wire'[i + 1] = Unit(sent + 1, sendDone + 1)
                BY <3>2, <4>1, <1>4
            <4>3. QED BY <3>2, <4>1, <4>2, <2>1 DEF Ends
        <3>3. CASE i > L
            <4>1. i - L \in 1..k /\ L + (i - L) = i /\ i - L < k
                BY <3>3, <1>1, <1>3, <1>4
            <4>2. wire'[i] = Unit(sent + 1, sendDone + (i - L))
                BY <4>1, <1>4
            <4>3. sendDone + (i - L) = Size
                BY <4>2, <2>3 DEF Unit
            <4>4. QED BY <4>1, <4>3, <1>1, <1>3 DEF TypeOK
        <3>4. QED BY <3>1, <3>2, <3>3, <1>1, <1>3, <1>4
    <2>4. Chain'
        BY <2>2, <2>3 DEF Chain
    <2>5. wire' # <<>>
        BY <1>1, <1>3, <1>4, EmptySeq
    <2>6. wire'[1] = Unit(Len(received) + 1, Len(readBuf) + 1)
        <3>1. CASE wire = <<>>
            <4>1. L = 0 /\ 1 \in 1..k /\ L + 1 = 1
                BY <3>1, <1>1
            <4>2. wire'[1] = Unit(sent + 1, sendDone + 1)
                BY <4>1, <1>4
            <4>3. QED BY <3>1, <4>2, <2>1, <1>8 DEF Ends
        <3>2. CASE wire # <<>>
            <4>1. 1 \in 1..L
                BY <3>2, <1>1, <1>3, EmptySeq DEF TypeOK
            <4>2. QED BY <3>2, <4>1, <1>4, <2>1 DEF Ends
        <3>3. QED BY <3>1, <3>2
    <2>7. Succ(wire'[Len(wire')]) = Unit(sent' + 1, sendDone' + 1)
        <3>1. wire'[Len(wire')] = Unit(sent + 1, sendDone + k)
            BY <1>1, <1>4
        <3>2. CASE sendDone + k = Size
            <4>1. sent' = sent + 1 /\ sendDone' = 0
                BY <3>2 DEF SendSome
            <4>2. QED BY <3>1, <3>2, <4>1 DEF Succ, Unit
        <3>3. CASE sendDone + k # Size
            <4>1. sent' = sent /\ sendDone' = sendDone + k
                BY <3>3 DEF SendSome
            <4>2. QED BY <3>1, <3>3, <4>1 DEF Succ, Unit
        <3>4. QED BY <3>2, <3>3
    <2>8. Ends'
        BY <2>5, <2>6, <2>7, <1>5, <1>8 DEF Ends
    <2>9. Behind'
        <3>1. ASSUME NEW i \in 1..Len(wire')
              PROVE  \/ wire'[i].msg <= sent'
                     \/ wire'[i].msg = sent' + 1 /\ wire'[i].off <= sendDone'
            <4>1. CASE i <= L
                <5>1. i \in 1..L
                    BY <4>1, <1>3
                <5>2. wire'[i] = wire[i] /\ wire[i] \in Units
                    BY <5>1, <1>1, <1>4, ElementOfSeq DEF TypeOK
                <5>3. wire[i].msg <= sent \/ (wire[i].msg = sent + 1 /\ wire[i].off <= sendDone)
                    BY <5>1, <1>9 DEF IInv, Behind
                <5>4. /\ sent \in Nat /\ sendDone \in Nat
                      /\ wire[i].msg \in Nat /\ wire[i].off \in Nat
                    BY <5>2, <1>1 DEF TypeOK, Units
                <5>5. \/ sent' = sent + 1
                      \/ sent' = sent /\ sendDone' = sendDone + k
                    BY DEF SendSome
                <5>6. QED BY <5>2, <5>3, <5>4, <5>5, <1>1
            <4>2. CASE ~(i <= L)
                <5>1. i - L \in 1..k /\ L + (i - L) = i
                    BY <4>2, <1>1, <1>3, <1>4
                <5>2. wire'[i] = Unit(sent + 1, sendDone + (i - L))
                    BY <5>1, <1>4
                <5>3. wire'[i].msg = sent + 1 /\ wire'[i].off = sendDone + (i - L)
                    BY <5>2 DEF Unit
                <5>4. sent \in Nat /\ sendDone \in Nat
                    BY <1>1 DEF TypeOK
                <5>5. \/ sent' = sent + 1
                      \/ sent' = sent /\ sendDone' = sendDone + k
                    BY DEF SendSome
                <5>6. QED BY <5>1, <5>3, <5>4, <5>5, <1>1, <1>3
            <4>3. QED BY <4>1, <4>2
        <3>2. QED BY <3>1 DEF Behind
    <2>10. QED BY <2>4, <2>8, <2>9
<1>10. Len(received') <= sent'
    <2>1. Len(received) \in Nat /\ sent \in Nat /\ Len(received) <= sent
        BY <1>1, LenProperties DEF IInv, TypeOK
    <2>2. sent' = sent + 1 \/ sent' = sent
        BY DEF SendSome
    <2>3. QED BY <1>5, <2>1, <2>2
<1>11. QED BY <1>5, <1>6, <1>7, <1>8, <1>9, <1>10 DEF IInv

\* A read() that gives any part of a message takes it from an aligned stream,
\* and a complete buffer is the next message.
LEMMA ReadSomeInv ==
    ASSUME IInv, NEW k \in 1..Size, ReadSome(k)
    PROVE  IInv'
<1> DEFINE L == Len(wire)
           R == Len(readBuf)
           n == Len(received)
           Got == readBuf \o SubSeq(wire, 1, k)
<1>1. TypeOK /\ k \in Nat /\ k >= 1 /\ Size \in Nat /\ Cap \in Nat /\ R + k <= Size /\ k <= L
    BY SocketIoAssumption DEF IInv, ReadSome
<1>2. L \in Nat /\ R \in Nat /\ n \in Nat
    BY <1>1, LenProperties DEF TypeOK
<1>3. readerOpen /\ readerOpen' /\ senderOpen' = senderOpen /\ sent' = sent
      /\ sendDone' = sendDone /\ sendResult' = sendResult
    BY <1>1 DEF ReadSome, sendVars, TypeOK
<1>4. Chain /\ Ends /\ Behind
    BY <1>3 DEF IInv
<1>5. wire # <<>> /\ k \in 1..L
    BY <1>1, <1>2
<1>6. readResult # "zero"
    BY <1>4, <1>5 DEF Ends
<1>7. /\ SubSeq(wire, 1, k) \in Seq(Units)
      /\ Len(SubSeq(wire, 1, k)) = k
      /\ \A i \in 1..k : SubSeq(wire, 1, k)[i] = wire[i]
      /\ wire' \in Seq(Units)
      /\ Len(wire') = L - k
      /\ \A i \in 1..(L - k) : wire'[i] = wire[k + i]
    <2>1. wire \in Seq(Units) /\ wire' = SubSeq(wire, k + 1, Len(wire))
        BY <1>1 DEF TypeOK, ReadSome
    <2>2. QED BY <2>1, <1>5, SplitProperties
<1>8. \A i \in 1..k : wire[i] = Unit(n + 1, R + i)
    <2> TAKE i \in 1..k
    <2>1. wire[1] = Unit(n + 1, R + 1)
        BY <1>4, <1>5 DEF Ends
    <2>2. wire[1].msg = n + 1 /\ wire[1].off = R + 1
        BY <2>1 DEF Unit
    <2>3. 1 \in 1..L /\ i - 1 \in 0..Size /\ 1 + (i - 1) = i /\ (R + 1) + (i - 1) = R + i
        BY <1>1, <1>2
    <2>4. 1 + (i - 1) <= L /\ wire[1].off + (i - 1) <= Size
        BY <2>2, <2>3, <1>1, <1>2
    <2>5. wire[1 + (i - 1)] = Unit(wire[1].msg, wire[1].off + (i - 1))
        BY <2>3, <2>4, <1>4 DEF Chain
    <2>6. QED BY <2>2, <2>3, <2>5
<1>9. /\ Got \in Seq(Units)
      /\ Len(Got) = R + k
      /\ \A i \in 1..(R + k) : Got[i] = Unit(n + 1, i)
    <2>1. readBuf \in Seq(Units)
        BY <1>1 DEF TypeOK
    <2>2. /\ Got \in Seq(Units)
          /\ Len(Got) = R + k
          /\ \A i \in 1..(R + k) : Got[i] = IF i <= R THEN readBuf[i] ELSE SubSeq(wire, 1, k)[i - R]
        BY <2>1, <1>7, ConcatProperties
    <2>3. ASSUME NEW i \in 1..(R + k) PROVE Got[i] = Unit(n + 1, i)
        <3>1. CASE i <= R
            <4>1. i \in 1..R
                BY <3>1, <1>2
            <4>2. readBuf[i] = Unit(n + 1, i)
                BY <4>1 DEF IInv
            <4>3. QED BY <3>1, <4>2, <2>2
        <3>2. CASE ~(i <= R)
            <4>1. i - R \in 1..k /\ R + (i - R) = i
                BY <3>2, <1>1, <1>2
            <4>2. Got[i] = wire[i - R]
                BY <3>2, <4>1, <2>2, <1>7
            <4>3. wire[i - R] = Unit(n + 1, R + (i - R))
                BY <4>1, <1>8
            <4>4. QED BY <4>1, <4>2, <4>3
        <3>3. QED BY <3>1, <3>2
    <2>4. QED BY <2>2, <2>3
<1>10. Chain'
    <2>1. ASSUME NEW i \in 1..Len(wire'), NEW d \in 0..Size,
                 i + d <= Len(wire'), wire'[i].off + d <= Size
          PROVE  wire'[i + d] = Unit(wire'[i].msg, wire'[i].off + d)
        <3>1. /\ i \in 1..(L - k) /\ i + d \in 1..(L - k) /\ k + i \in 1..L
              /\ k + (i + d) = (k + i) + d /\ (k + i) + d <= L
            BY <2>1, <1>1, <1>2, <1>7
        <3>2. wire'[i] = wire[k + i] /\ wire'[i + d] = wire[(k + i) + d]
            BY <3>1, <1>7
        <3>3. wire[(k + i) + d] = Unit(wire[k + i].msg, wire[k + i].off + d)
            BY <3>1, <3>2, <2>1, <1>4 DEF Chain
        <3>4. QED BY <3>2, <3>3
    <2>2. ASSUME NEW i \in 1..(Len(wire') - 1), wire'[i].off = Size
          PROVE  wire'[i + 1] = Succ(wire'[i])
        <3>1. /\ i \in 1..(L - k) /\ i + 1 \in 1..(L - k) /\ k + i \in 1..(L - 1)
              /\ k + (i + 1) = (k + i) + 1
            BY <2>2, <1>1, <1>2, <1>7
        <3>2. wire'[i] = wire[k + i] /\ wire'[i + 1] = wire[(k + i) + 1]
            BY <3>1, <1>7
        <3>3. QED BY <3>1, <3>2, <2>2, <1>4 DEF Chain
    <2>3. QED BY <2>1, <2>2 DEF Chain
\* the unit that the reader will read next, if it is already in the kernel
<1>11. ASSUME k < L
       PROVE  wire[k + 1] = IF R + k = Size THEN Unit(n + 2, 1) ELSE Unit(n + 1, R + k + 1)
    <2>1. k \in 1..(L - 1) /\ k \in 1..L /\ k \in 1..k /\ k + 1 <= L
        BY <1>11, <1>1, <1>2
    <2>2. wire[k] = Unit(n + 1, R + k)
        BY <2>1, <1>8
    <2>3. CASE R + k = Size
        <3>1. wire[k].off = Size /\ wire[k].msg = n + 1
            BY <2>2, <2>3 DEF Unit
        <3>2. wire[k + 1] = Succ(wire[k])
            BY <3>1, <2>1, <1>4 DEF Chain
        <3>3. (n + 1) + 1 = n + 2
            BY <1>2
        <3>4. QED BY <2>3, <3>1, <3>2, <3>3 DEF Succ
    <2>4. CASE R + k # Size
        <3>1. wire[k].off = R + k /\ wire[k].msg = n + 1
            BY <2>2 DEF Unit
        <3>2. 1 \in 0..Size /\ wire[k].off + 1 <= Size
            BY <3>1, <2>4, <1>1, <1>2
        <3>3. wire[k + 1] = Unit(wire[k].msg, wire[k].off + 1)
            BY <3>2, <2>1, <1>4 DEF Chain
        <3>4. QED BY <2>4, <3>1, <3>3
    <2>5. QED BY <2>3, <2>4
<1>12. ASSUME k = L
       PROVE  Unit(sent + 1, sendDone + 1) = IF R + k = Size THEN Unit(n + 2, 1)
                                                             ELSE Unit(n + 1, R + k + 1)
    <2>1. wire[L] = Unit(n + 1, R + k)
        BY <1>12, <1>5, <1>8
    <2>2. Succ(wire[L]) = Unit(sent + 1, sendDone + 1)
        BY <1>4, <1>5 DEF Ends
    <2>3. (n + 1) + 1 = n + 2
        BY <1>2
    <2>4. QED BY <2>1, <2>2, <2>3 DEF Succ, Unit
<1>13. ASSUME k < L PROVE wire' # <<>> /\ wire'[1] = wire[k + 1] /\ wire'[Len(wire')] = wire[L]
    <2>1. 1 \in 1..(L - k) /\ L - k \in 1..(L - k) /\ k + (L - k) = L
        BY <1>13, <1>1, <1>2
    <2>2. wire'[1] = wire[k + 1] /\ wire'[L - k] = wire[L]
        <3>1. wire'[1] = wire[k + 1] /\ wire'[L - k] = wire[k + (L - k)]
            BY <2>1, <1>7
        <3>2. QED BY <2>1, <3>1
    <2>3. wire' # <<>>
        BY <1>13, <1>1, <1>2, <1>7, EmptySeq
    <2>4. QED BY <2>2, <2>3, <1>7
<1>14. ASSUME k = L PROVE wire' = <<>>
    <2>1. Len(wire') = 0
        BY <1>14, <1>2, <1>7
    <2>2. QED BY <2>1, <1>7, EmptySeq
<1>19. Behind'
    <2>1. ASSUME NEW i \in 1..Len(wire')
          PROVE  \/ wire'[i].msg <= sent'
                 \/ wire'[i].msg = sent' + 1 /\ wire'[i].off <= sendDone'
        <3>1. i \in 1..(L - k) /\ k + i \in 1..L
            BY <1>1, <1>2, <1>7
        <3>2. QED BY <3>1, <1>3, <1>4, <1>7 DEF Behind
    <2>2. QED BY <2>1 DEF Behind
<1>15. Len(wire') <= Cap
    BY <1>1, <1>2, <1>7 DEF TypeOK
<1>16. CASE R + k = Size
    <2>1. /\ received' = Append(received, Got) /\ readBuf' = <<>> /\ readResult' = "size"
        BY <1>16 DEF ReadSome
    <2>2. /\ received' \in Seq(Seq(Units))
          /\ Len(received') = n + 1
          /\ \A i \in 1..n : received'[i] = received[i]
          /\ received'[n + 1] = Got
        <3>1. received \in Seq(Seq(Units))
            BY <1>1 DEF TypeOK
        <3>2. QED BY <3>1, <2>1, <1>9, AppendProperties
    <2>3. Got = Message(n + 1)
        <3>1. n + 1 \in Nat \ {0} /\ 0 \in Nat /\ 0 + Size <= Size
            BY <1>1, <1>2
        <3>2. /\ Message(n + 1) \in Seq(Units)
              /\ Len(Message(n + 1)) = Size
              /\ \A i \in 1..Size : Message(n + 1)[i] = Unit(n + 1, 0 + i)
            BY <3>1, <1>1, ChunkType DEF Message
        <3>3. \A i \in 1..Size : Message(n + 1)[i] = Unit(n + 1, i)
            BY <3>2, <1>1
        <3>4. Len(Got) = Len(Message(n + 1)) /\ \A i \in 1..Len(Got) : Got[i] = Message(n + 1)[i]
            BY <3>2, <3>3, <1>9, <1>16
        <3>5. QED BY <3>2, <3>4, <1>9, SeqEqual
    <2>4. Aligned'
        <3>1. ASSUME NEW i \in 1..Len(received') PROVE received'[i] = Message(i)
            <4>1. i \in 1..n \/ i = n + 1
                BY <2>2, <1>2
            <4>2. CASE i \in 1..n
                BY <4>2, <2>2 DEF IInv, Aligned
            <4>3. CASE i = n + 1
                BY <4>3, <2>2, <2>3
            <4>4. QED BY <4>1, <4>2, <4>3
        <3>2. QED BY <3>1 DEF Aligned
    <2>5. TypeOK'
        BY <1>1, <1>3, <1>7, <1>15, <2>1, <2>2, EmptySeq DEF TypeOK, Results
    <2>6. (n + 1) + 1 = n + 2 /\ Len(readBuf') = 0 /\ 0 + 1 = 1
        BY <1>2, <2>1
    <2>7. Ends'
        <3>1. CASE k < L
            BY <3>1, <1>3, <1>4, <1>5, <1>11, <1>13, <1>16, <2>1, <2>2, <2>6 DEF Ends
        <3>2. CASE k = L
            <4>1. wire' = <<>> /\ Unit(sent + 1, sendDone + 1) = Unit(n + 2, 1)
                BY <3>2, <1>12, <1>14, <1>16
            <4>2. sent + 1 = n + 2 /\ sendDone + 1 = 1
                BY <4>1 DEF Unit
            <4>3. sent = n + 1 /\ sendDone = 0
                BY <4>2, <1>1, <1>2 DEF TypeOK
            <4>4. QED BY <4>1, <4>3, <1>3, <2>1, <2>2, <2>6 DEF Ends
        <3>3. QED BY <3>1, <3>2, <1>1, <1>2
    <2>8. Len(received') <= sent'
        <3>1. wire[k].msg = n + 1 /\ wire[k].off = Size
            <4>1. k \in 1..k
                BY <1>1
            <4>2. wire[k] = Unit(n + 1, R + k)
                BY <4>1, <1>8
            <4>3. QED BY <4>2, <1>16 DEF Unit
        <3>2. wire[k].msg <= sent \/ wire[k].off <= sendDone
            BY <1>4, <1>5 DEF Behind
        <3>3. sendDone < Size
            BY <1>1 DEF TypeOK
        <3>4. sendDone \in Nat
            BY <1>1 DEF TypeOK
        <3>5. QED BY <1>1, <1>3, <2>2, <3>1, <3>2, <3>3, <3>4
    <2>9. QED BY <1>3, <1>10, <1>19, <2>1, <2>4, <2>5, <2>6, <2>7, <2>8 DEF IInv
<1>17. CASE R + k # Size
    <2>1. received' = received /\ readBuf' = Got /\ readResult' = readResult
        BY <1>17 DEF ReadSome
    <2>2. TypeOK'
        <3>1. Len(readBuf') < Size
            <4>1. Len(readBuf') = R + k
                BY <2>1, <1>9
            <4>2. R + k < Size
                BY <1>1, <1>2, <1>17
            <4>3. QED BY <4>1, <4>2
        <3>2. QED BY <1>1, <1>3, <1>7, <1>9, <1>15, <2>1, <3>1 DEF TypeOK
    <2>3. Aligned'
        BY <2>1 DEF IInv, Aligned
    <2>4. \A i \in 1..Len(readBuf') : readBuf'[i] = Unit(Len(received') + 1, i)
        BY <2>1, <1>9
    <2>5. Ends'
        <3>1. CASE k < L
            BY <3>1, <1>3, <1>4, <1>5, <1>6, <1>9, <1>11, <1>13, <1>17, <2>1 DEF Ends
        <3>2. CASE k = L
            <4>1. wire' = <<>> /\ Unit(sent + 1, sendDone + 1) = Unit(n + 1, R + k + 1)
                BY <3>2, <1>12, <1>14, <1>17
            <4>2. sent + 1 = n + 1 /\ sendDone + 1 = R + k + 1
                BY <4>1 DEF Unit
            <4>3. sent = n /\ sendDone = R + k
                <5>1. sent \in Nat /\ sendDone \in Nat
                    BY <1>1 DEF TypeOK
                <5>2. QED BY <4>2, <5>1, <1>1, <1>2
            <4>4. QED BY <4>1, <4>3, <1>3, <1>6, <1>9, <2>1 DEF Ends
        <3>3. QED BY <3>1, <3>2, <1>1, <1>2
    <2>6. QED BY <1>1, <1>3, <1>6, <1>10, <1>19, <2>1, <2>2, <2>3, <2>4, <2>5 DEF IInv
<1>18. QED BY <1>16, <1>17

\* The calls that transfer nothing, and the ends that are closed, leave the
\* stream as it is; what is dropped is dropped when nobody reads it.
LEMMA OtherInv ==
    ASSUME IInv, SendAgain \/ SendGone \/ ReadAgain \/ ReadEof \/ CloseSender \/ CloseReader
    PROVE  IInv'
<1>1. TypeOK /\ Size \in Nat /\ Size >= 1
    BY SocketIoAssumption DEF IInv
<1>2. CASE SendAgain
    <2>1. TypeOK'
        BY <1>1, <1>2 DEF TypeOK, SendAgain, readVars, Results
    <2>2. Aligned' /\ (Chain => Chain') /\ (Ends => Ends') /\ (Behind => Behind')
        BY <1>2 DEF IInv, Aligned, Chain, Ends, Behind, SendAgain, readVars
    <2>3. QED BY <1>2, <2>1, <2>2 DEF IInv, SendAgain, readVars
<1>3. CASE SendGone
    <2>1. TypeOK'
        BY <1>1, <1>3 DEF TypeOK, SendGone, readVars, Results
    <2>2. Aligned' /\ ~readerOpen'
        BY <1>3 DEF IInv, Aligned, SendGone, readVars
    <2>3. QED BY <1>3, <2>1, <2>2 DEF IInv, SendGone, readVars
<1>4. CASE ReadAgain
    <2>1. TypeOK'
        BY <1>1, <1>4 DEF TypeOK, ReadAgain, sendVars, Results
    <2>2. readResult # "zero" /\ readResult' # "zero"
        BY <1>4 DEF IInv, ReadAgain
    <2>3. Aligned' /\ (Chain => Chain')
        BY <1>4 DEF IInv, Aligned, Chain, ReadAgain
    <2>4. (Ends => Ends') /\ (Behind => Behind')
        BY <1>4, <2>2 DEF Ends, Behind, ReadAgain, sendVars
    <2>5. QED BY <1>4, <2>1, <2>2, <2>3, <2>4 DEF IInv, ReadAgain, sendVars
<1>5. CASE ReadEof
    <2>1. readBuf' = <<>> /\ Len(readBuf') = 0 /\ wire = <<>> /\ Len(received) = sent
        BY <1>5 DEF IInv, Ends, ReadEof
    <2>2. TypeOK'
        BY <1>1, <1>5, <2>1, EmptySeq DEF TypeOK, ReadEof, sendVars, Results
    <2>3. Aligned' /\ (Chain => Chain')
        BY <1>5 DEF IInv, Aligned, Chain, ReadEof
    <2>4. Ends' /\ Behind'
        BY <1>5, <2>1 DEF IInv, Ends, Behind, ReadEof, sendVars
    <2>5. QED BY <1>5, <2>1, <2>2, <2>3, <2>4 DEF IInv, ReadEof, sendVars
<1>6. CASE CloseSender
    <2>1. TypeOK'
        BY <1>1, <1>6 DEF TypeOK, CloseSender, sendVars, readVars
    <2>2. Aligned' /\ (Chain => Chain') /\ (Ends => Ends') /\ (Behind => Behind')
        BY <1>6 DEF IInv, Aligned, Chain, Ends, Behind, CloseSender, sendVars, readVars
    <2>3. QED BY <1>6, <2>1, <2>2 DEF IInv, CloseSender, sendVars, readVars
<1>7. CASE CloseReader
    <2>1. TypeOK'
        BY <1>1, <1>7 DEF TypeOK, CloseReader, sendVars, readVars
    <2>2. Aligned' /\ ~readerOpen'
        BY <1>7 DEF IInv, Aligned, CloseReader, readVars
    <2>3. QED BY <1>7, <2>1, <2>2 DEF IInv, CloseReader, sendVars, readVars
<1>8. QED BY <1>2, <1>3, <1>4, <1>5, <1>6, <1>7

\* Every step of the connection keeps the inductive invariant.
LEMMA NextInv == IInv /\ [Next]_vars => IInv'
<1> SUFFICES ASSUME IInv, [Next]_vars PROVE IInv'
    OBVIOUS
<1>1. ASSUME NEW k \in 1..Size, SendSome(k) PROVE IInv'
    BY <1>1, SendSomeInv
<1>2. ASSUME NEW k \in 1..Size, ReadSome(k) PROVE IInv'
    BY <1>2, ReadSomeInv
<1>3. CASE SendAgain \/ SendGone \/ ReadAgain \/ ReadEof \/ CloseSender \/ CloseReader
    BY <1>3, OtherInv
<1>4. CASE UNCHANGED vars
    <2>1. TypeOK' /\ Aligned' /\ (Chain => Chain') /\ (Ends => Ends') /\ (Behind => Behind')
        BY <1>4 DEF IInv, TypeOK, Aligned, Chain, Ends, Behind, vars, sendVars, readVars
    <2>2. QED BY <1>4, <2>1 DEF IInv, vars, sendVars, readVars
<1>5. QED BY <1>1, <1>2, <1>3, <1>4 DEF Next, Send, Read

\* The inductive invariant holds for every size, buffer and interleaving.
THEOREM Invariance == Spec => []IInv
<1>1. QED BY InitInv, NextInv, PTL DEF Spec

-----------------------------------------------------------------------------
(* What the two functions promise *)

\* The variables of socket_io.h's two loops keep their types and the kernel
\* buffer its bound.
THEOREM TypeCorrect == Spec => []TypeOK
<1>1. IInv => TypeOK
    BY DEF IInv
<1>2. QED BY <1>1, Invariance, PTL

\* Every buffer read_msg returns as complete is exactly one message, the next
\* one: a stream cut anywhere stays aligned on messages.
THEOREM AlignedHolds == Spec => []Aligned
<1>1. IInv => Aligned
    BY DEF IInv
<1>2. QED BY <1>1, Invariance, PTL

\* When read_msg returns 0 the reader has every message that was sent: a server
\* that then closes the socket loses nothing.
THEOREM ZeroMeansDrainedHolds == Spec => []ZeroMeansDrained
<1>1. IInv => ZeroMeansDrained
    BY DEF IInv, ZeroMeansDrained
<1>2. QED BY <1>1, Invariance, PTL

-----------------------------------------------------------------------------
(* The connection implements the channel of whole messages *)

\* The message numbers of the buffers that were received.
LEMMA DeliveredValue ==
    ASSUME IInv
    PROVE  /\ Len(received) \in Nat
           /\ [i \in 1..Len(received) |-> received[i][1].msg] \in Seq(Nat)
           /\ Len([i \in 1..Len(received) |-> received[i][1].msg]) = Len(received)
           /\ [i \in 1..Len(received) |-> received[i][1].msg] = [i \in 1..Len(received) |-> i]
<1>1. received \in Seq(Seq(Units)) /\ Len(received) \in Nat
    BY LenProperties DEF IInv, TypeOK
<1>2. ASSUME NEW i \in 1..Len(received) PROVE received[i][1].msg = i
    <2>1. received[i] = Message(i) /\ 1 \in 1..Size /\ 0 + 1 = 1
        BY SocketIoAssumption DEF IInv, Aligned
    <2>2. QED BY <2>1 DEF Message, Chunk, Unit
<1>3. [i \in 1..Len(received) |-> received[i][1].msg] = [i \in 1..Len(received) |-> i]
    BY <1>2
<1>4. [i \in 1..Len(received) |-> i] \in [1..Len(received) -> Nat]
    BY <1>1
<1>5. [i \in 1..Len(received) |-> i] \in Seq(Nat)
    BY <1>1, <1>4
<1>6. Len([i \in 1..Len(received) |-> i]) = Len(received)
    BY <1>1, <1>4, <1>5, LenProperties
<1>7. QED BY <1>1, <1>3, <1>5, <1>6

\* Every step of the connection is a step of the channel or changes nothing
\* that its users can see.
LEMMA StepImplements ==
    ASSUME IInv, IInv', [Next]_vars
    PROVE  [Chan!Next]_(Chan!chanVars)
<1> DEFINE del == [i \in 1..Len(received) |-> received[i][1].msg]
<1>1. /\ Len(received) \in Nat /\ del \in Seq(Nat) /\ Len(del) = Len(received)
      /\ del = [i \in 1..Len(received) |-> i]
    BY DeliveredValue
<1>2. /\ Len(received') \in Nat /\ del' \in Seq(Nat) /\ Len(del') = Len(received')
      /\ del' = [i \in 1..Len(received') |-> i]
    <2>1. received' \in Seq(Seq(Units)) /\ Len(received') \in Nat
        BY LenProperties DEF IInv, TypeOK
    <2>2. ASSUME NEW i \in 1..Len(received') PROVE received'[i][1].msg = i
        <3>1. received'[i] = Message(i) /\ 1 \in 1..Size /\ 0 + 1 = 1
            BY SocketIoAssumption DEF IInv, Aligned
        <3>2. QED BY <3>1 DEF Message, Chunk, Unit
    <2>3. del' = [i \in 1..Len(received') |-> i]
        BY <2>2
    <2>4. [i \in 1..Len(received') |-> i] \in [1..Len(received') -> Nat]
        BY <2>1
    <2>5. [i \in 1..Len(received') |-> i] \in Seq(Nat)
        BY <2>1, <2>4
    <2>6. Len([i \in 1..Len(received') |-> i]) = Len(received')
        BY <2>1, <2>4, <2>5, LenProperties
    <2>7. QED BY <2>1, <2>3, <2>5, <2>6
<1> HIDE DEF del
<1>3. ASSUME NEW k \in 1..Size, SendSome(k) PROVE Chan!Accept \/ UNCHANGED Chan!chanVars
    <2>1. /\ senderOpen /\ UNCHANGED <<received, readResult, senderOpen, readerOpen>>
          /\ sent' = sent + 1 \/ sent' = sent
        BY <1>3 DEF SendSome, CanSend, readVars
    <2>2. QED BY <2>1 DEF Chan!Accept, Chan!chanVars
<1>4. ASSUME NEW k \in 1..Size, ReadSome(k) PROVE Chan!Deliver \/ UNCHANGED Chan!chanVars
    <2>1. readerOpen /\ UNCHANGED <<sent, senderOpen, readerOpen>>
        BY <1>4 DEF ReadSome, sendVars
    <2>2. k <= Len(wire) /\ k \in Nat /\ k >= 1 /\ wire \in Seq(Units)
        BY <1>4, SocketIoAssumption DEF ReadSome, IInv, TypeOK
    <2>3. readResult # "zero"
        <3>1. wire # <<>>
            BY <2>2, EmptySeq
        <3>2. QED BY <2>1, <3>1 DEF IInv, Ends
    <2>4. CASE Len(readBuf) + k = Size
        <3>1. received' = Append(received, readBuf \o SubSeq(wire, 1, k)) /\ readResult' = "size"
            BY <1>4, <2>4 DEF ReadSome
        <3>2. Len(received') = Len(received) + 1
            <4>1. received \in Seq(Seq(Units)) /\ readBuf \in Seq(Units)
                BY DEF IInv, TypeOK
            <4>2. SubSeq(wire, 1, k) \in Seq(Units)
                BY <2>2, LenProperties, SplitProperties
            <4>3. readBuf \o SubSeq(wire, 1, k) \in Seq(Units)
                BY <4>1, <4>2, ConcatProperties
            <4>4. QED BY <3>1, <4>1, <4>3, AppendProperties
        <3>3. del' = Append(del, Len(del) + 1)
            <4>1. Len(del) + 1 \in Nat
                BY <1>1
            <4>2. /\ Append(del, Len(del) + 1) \in Seq(Nat)
                  /\ Len(Append(del, Len(del) + 1)) = Len(del) + 1
                  /\ \A i \in 1..Len(del) : Append(del, Len(del) + 1)[i] = del[i]
                  /\ Append(del, Len(del) + 1)[Len(del) + 1] = Len(del) + 1
                BY <1>1, <4>1, AppendProperties
            <4>3. ASSUME NEW i \in 1..Len(del') PROVE del'[i] = Append(del, Len(del) + 1)[i]
                <5>1. del'[i] = i
                    BY <1>2
                <5>2. i \in 1..Len(del) \/ i = Len(del) + 1
                    BY <1>1, <1>2, <3>2
                <5>3. CASE i \in 1..Len(del)
                    <6>1. del[i] = i
                        BY <5>3, <1>1
                    <6>2. QED BY <5>1, <5>3, <6>1, <4>2
                <5>4. CASE i = Len(del) + 1
                    BY <5>1, <5>4, <4>2
                <5>5. QED BY <5>2, <5>3, <5>4
            <4>4. Len(del') = Len(Append(del, Len(del) + 1))
                BY <1>1, <1>2, <3>2, <4>2
            <4>5. QED BY <1>2, <4>2, <4>3, <4>4, SeqEqual
        <3>4. Len(del) < sent
            <4>1. Len(received') <= sent' /\ sent \in Nat
                BY DEF IInv, TypeOK
            <4>2. QED BY <1>1, <3>2, <4>1, <2>1
        <3>5. QED BY <2>1, <2>3, <3>1, <3>3, <3>4 DEF Chan!Deliver, del
    <2>5. CASE Len(readBuf) + k # Size
        BY <1>4, <2>1, <2>5 DEF ReadSome, Chan!chanVars
    <2>6. QED BY <2>4, <2>5
<1>5. CASE SendAgain \/ SendGone
    BY <1>5 DEF SendAgain, SendGone, readVars, Chan!chanVars
<1>6. CASE ReadAgain
    <2>1. readResult # "zero" /\ readResult' # "zero"
        BY <1>6 DEF IInv, ReadAgain
    <2>2. QED BY <1>6, <2>1 DEF ReadAgain, sendVars, Chan!chanVars
<1>7. ASSUME ReadEof PROVE Chan!End
    <2>1. Len(received) = sent
        BY <1>7 DEF IInv, Ends, ReadEof
    <2>2. QED BY <1>1, <1>7, <2>1 DEF ReadEof, sendVars, Chan!End, del
<1>8. ASSUME CloseSender PROVE Chan!SenderGone
    BY <1>8 DEF CloseSender, sendVars, readVars, Chan!SenderGone
<1>9. ASSUME CloseReader PROVE Chan!ReaderGone
    BY <1>9 DEF CloseReader, sendVars, readVars, Chan!ReaderGone
<1>10. CASE UNCHANGED vars
    BY <1>10 DEF vars, sendVars, readVars, Chan!chanVars
<1>11. QED
    BY <1>3, <1>4, <1>5, <1>6, <1>7, <1>8, <1>9, <1>10 DEF Next, Send, Read, Chan!Next

\* send_msg and read_msg over a stream that cuts messages anywhere implement
\* the channel of whole messages: the models of the modules above may use whole
\* messages.
THEOREM Refinement == Spec => ImplementsChannel
<1>1. Init => Chan!Init
    <2> SUFFICES ASSUME Init PROVE Chan!Init
        OBVIOUS
    <2>1. IInv /\ received = <<>> /\ Len(received) = 0
        BY InitInv DEF Init
    <2>2. /\ [i \in 1..Len(received) |-> received[i][1].msg] \in Seq(Nat)
          /\ Len([i \in 1..Len(received) |-> received[i][1].msg]) = 0
        BY <2>1, DeliveredValue
    <2>3. [i \in 1..Len(received) |-> received[i][1].msg] = <<>>
        BY <2>2, EmptySeq
    <2>4. QED BY <2>3 DEF Init, Chan!Init
<1>2. IInv /\ IInv' /\ [Next]_vars => [Chan!Next]_(Chan!chanVars)
    BY StepImplements
<1>3. QED BY <1>1, <1>2, Invariance, PTL DEF Spec, ImplementsChannel, Chan!Spec
=============================================================================
