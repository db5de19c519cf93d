------------------------- MODULE QuasiStatic_proofs -------------------------
(***************************************************************************)
(* Proofs about QuasiStatic for any values, any number of changes and any  *)
(* buffer size.                                                            *)
(***************************************************************************)
EXTENDS QuasiStatic, SequenceTheorems, TLAPS

-----------------------------------------------------------------------------
(* The inductive invariant *)

SourceType ==
    /\ data \in Values /\ dataPrev \in Values /\ dataPush \in Values
    /\ queue \in Seq(Values) /\ inputs \in Seq(Values)
    /\ dataVld \in BOOLEAN

ChannelType ==
    /\ started \in BOOLEAN /\ linked \in BOOLEAN /\ rdy \in BOOLEAN /\ vld \in BOOLEAN
    /\ dataQ \in Values /\ pulled \in Values
    /\ chan \in Seq(Values)

SinkType == out \in Values /\ outputs \in Seq(Values)

\* data_rdy is low until the module has started, so nothing is retried before.
ReadyIfStarted == rdy => started

\* What the channel's two ends hold: the register of the pull module, and the
\* item the push module sends again.
Register == IF vld THEN <<pulled>> ELSE <<>>
Retry == IF started /\ ~rdy THEN <<dataQ>> ELSE <<>>

\* Concatenation, as an operator of its own: the provers need not look into it.
s ++ t == s \o t

\* The places of NoChangeLost, grouped by what a posedge of each side moves.
Path == (outputs ++ Register) ++ (((chan ++ Retry) ++ (Offered ++ queue)) ++ NotSampled)

IInv == SourceType /\ ChannelType /\ SinkType /\ ReadyIfStarted /\ Path = inputs

-----------------------------------------------------------------------------
(* Sequences of values *)

\* Where a path is split does not matter.
LEMMA Assoc ==
    ASSUME NEW s \in Seq(Values), NEW t \in Seq(Values), NEW u \in Seq(Values)
    PROVE  (s ++ t) ++ u = s ++ (t ++ u)
BY ConcatAssociative DEF ++

\* Two paths behind each other are a path.
LEMMA Joined ==
    ASSUME NEW s \in Seq(Values), NEW t \in Seq(Values)
    PROVE  s ++ t \in Seq(Values)
BY ConcatProperties DEF ++

\* An empty place adds nothing.
LEMMA WithNothing ==
    ASSUME NEW s \in Seq(Values)
    PROVE  s ++ <<>> = s /\ <<>> ++ s = s
BY ConcatEmptySeq DEF ++

\* A value that is appended goes behind the others.
LEMMA AtTheEnd ==
    ASSUME NEW s \in Seq(Values), NEW v \in Values
    PROVE  Append(s, v) = s ++ <<v>> /\ Append(s, v) \in Seq(Values)
BY AppendIsConcat, AppendProperties DEF ++

\* A path begins with its first value.
LEMMA AtTheFront ==
    ASSUME NEW s \in Seq(Values), s # <<>>
    PROVE  /\ Head(s) \in Values /\ Tail(s) \in Seq(Values)
           /\ <<Head(s)>> ++ Tail(s) = s
<1>1. Head(s) \in Values /\ Tail(s) \in Seq(Values)
    BY HeadTailProperties
<1>2. <<Head(s)>> \o Tail(s) = s
    OBVIOUS
<1>3. QED BY <1>1, <1>2 DEF ++

\* What is put in front of a path goes to the front of its first part.
LEMMA InFront ==
    ASSUME NEW b \in Seq(Values), NEW c \in Seq(Values), NEW d \in Seq(Values),
           NEW e \in Seq(Values), NEW g \in Seq(Values)
    PROVE  b ++ (((c ++ d) ++ e) ++ g) = (((b ++ c) ++ d) ++ e) ++ g
<1> DEFINE cd == c ++ d
           cde == cd ++ e
<1>1. cd \in Seq(Values) /\ (b ++ c) ++ d = b ++ cd
    BY Assoc, Joined
<1> HIDE DEF cd
<1>2. cde \in Seq(Values) /\ (b ++ cd) ++ e = b ++ cde
    BY <1>1, Assoc, Joined
<1> HIDE DEF cde
<1>3. (b ++ cde) ++ g = b ++ (cde ++ g)
    BY <1>2, Assoc
<1>4. QED BY <1>1, <1>2, <1>3 DEF cd, cde

-----------------------------------------------------------------------------
(* The push module *)

\* The change detection adds what was not sampled yet.
LEMMA SampledIs ==
    ASSUME SourceType
    PROVE  Sampled = queue ++ NotSampled /\ Sampled \in Seq(Values)
<1>1. queue \in Seq(Values) /\ data \in Values
    BY DEF SourceType
<1>2. Append(queue, data) = queue ++ <<data>> /\ Append(queue, data) \in Seq(Values)
    BY <1>1, AtTheEnd
<1>3. QED BY <1>1, <1>2, WithNothing DEF Sampled, NotSampled

\* What is offered stays until it is accepted; then the queue's head replaces it.
LEMMA OfferMoves ==
    ASSUME SourceType, ChannelType, Offer
    PROVE  /\ Offered' ++ queue' = (IF dataVld /\ rdy THEN <<>> ELSE Offered) ++ Sampled
           /\ dataVld' \in BOOLEAN /\ dataPush' \in Values /\ queue' \in Seq(Values)
<1>1. Sampled \in Seq(Values) /\ dataPush \in Values
    BY SampledIs DEF SourceType
<1>2. CASE dataVld /\ ~rdy
    BY <1>1, <1>2 DEF Offer, Offered, SourceType
<1>3. CASE ~(dataVld /\ ~rdy) /\ Sampled # <<>>
    <2>1. dataPush' = Head(Sampled) /\ queue' = Tail(Sampled) /\ dataVld' = TRUE
        BY <1>3 DEF Offer
    <2>2. Head(Sampled) \in Values /\ Tail(Sampled) \in Seq(Values)
        BY <1>1, <1>3, AtTheFront
    <2>3. <<Head(Sampled)>> ++ Tail(Sampled) = Sampled
        BY <1>1, <1>3, AtTheFront
    <2>4. (IF dataVld /\ rdy THEN <<>> ELSE Offered) = <<>>
        BY <1>3 DEF Offered, SourceType, ChannelType
    <2>5. <<>> ++ Sampled = Sampled
        BY <1>1, WithNothing
    <2>6. QED BY <2>1, <2>2, <2>3, <2>4, <2>5 DEF Offered
<1>4. CASE ~(dataVld /\ ~rdy) /\ Sampled = <<>>
    <2>1. dataVld' = FALSE /\ queue' = <<>> /\ dataPush' = dataPush
        BY <1>4 DEF Offer
    <2>2. (IF dataVld /\ rdy THEN <<>> ELSE Offered) = <<>>
        BY <1>4 DEF Offered, SourceType, ChannelType
    <2>3. QED BY <1>1, <1>4, <2>1, <2>2, WithNothing DEF Offered
<1>5. QED BY <1>2, <1>3, <1>4

\* What was accepted is on the connection or kept for the retry.
LEMMA PushMoves ==
    ASSUME SourceType, ChannelType, ReadyIfStarted, Channel!PushPosedge(dataVld, dataPush)
    PROVE  /\ chan' ++ Retry' = (chan ++ Retry) ++ (IF dataVld /\ rdy THEN <<dataPush>> ELSE <<>>)
           /\ ChannelType' /\ ReadyIfStarted'
           /\ vld' = vld /\ pulled' = pulled
<1>1. /\ chan \in Seq(Values) /\ dataQ \in Values /\ dataPush \in Values
      /\ UNCHANGED <<started, linked, vld, pulled>>
    BY DEF SourceType, ChannelType, Channel!PushPosedge, Channel!pullVars
<1>2. \A d \in Values : /\ Append(chan, d) = chan ++ <<d>> /\ Append(chan, d) \in Seq(Values)
                        /\ Append(chan, d) ++ <<>> = Append(chan, d)
                        /\ (chan ++ <<d>>) ++ <<>> = chan ++ <<d>>
                        /\ (chan ++ <<>>) ++ <<d>> = chan ++ <<d>>
    BY <1>1, AtTheEnd, WithNothing
<1>3. CASE Channel!PushTake(dataVld, dataPush)
    <2>1. /\ dataVld /\ rdy /\ started /\ dataQ' = dataPush
          /\ \/ chan' = Append(chan, dataPush) /\ rdy' = TRUE
             \/ chan' = chan /\ rdy' = FALSE
        BY <1>3 DEF Channel!PushTake, Channel!Push, ReadyIfStarted
    <2>2. Retry = <<>> /\ (rdy' = TRUE => Retry' = <<>>) /\ (rdy' = FALSE => Retry' = <<dataPush>>)
        BY <1>1, <2>1 DEF Retry
    <2>3. ChannelType' /\ ReadyIfStarted'
        BY <1>1, <1>2, <2>1 DEF ChannelType, ReadyIfStarted
    <2>4. QED BY <1>1, <1>2, <2>1, <2>2, <2>3
<1>4. CASE Channel!PushRetry
    <2>1. /\ started /\ ~rdy /\ dataQ' = dataQ
          /\ \/ chan' = Append(chan, dataQ) /\ rdy' = TRUE
             \/ chan' = chan /\ rdy' = FALSE
        BY <1>4 DEF Channel!PushRetry, Channel!Push
    <2>2. /\ Retry = <<dataQ>>
          /\ (rdy' = TRUE => Retry' = <<>>) /\ (rdy' = FALSE => Retry' = <<dataQ>>)
        BY <1>1, <2>1 DEF Retry
    <2>3. ChannelType' /\ ReadyIfStarted'
        BY <1>1, <1>2, <2>1 DEF ChannelType, ReadyIfStarted
    <2>4. QED BY <1>1, <1>2, <2>1, <2>2, <2>3
<1>5. CASE Channel!PushIdle(dataVld)
    <2>1. ~(dataVld /\ rdy) /\ UNCHANGED <<rdy, dataQ, chan>>
        BY <1>5 DEF Channel!PushIdle
    <2>2. Retry' = Retry /\ Retry \in Seq(Values)
        BY <1>1, <2>1 DEF Retry
    <2>3. ChannelType' /\ ReadyIfStarted'
        BY <1>1, <2>1 DEF ChannelType, ReadyIfStarted
    <2>4. chan ++ Retry \in Seq(Values)
        BY <1>1, <2>2, Joined
    <2>5. chan' ++ Retry' = (chan ++ Retry) ++ <<>>
        BY <2>1, <2>2, <2>4, WithNothing
    <2>6. QED BY <1>1, <2>1, <2>3, <2>5
<1>6. QED BY <1>3, <1>4, <1>5 DEF Channel!PushPosedge

\* The places on the way hold values.
LEMMA PlaceTypes ==
    ASSUME SourceType, ChannelType, SinkType
    PROVE  /\ outputs \in Seq(Values) /\ Register \in Seq(Values) /\ chan \in Seq(Values)
           /\ Retry \in Seq(Values) /\ Offered \in Seq(Values) /\ queue \in Seq(Values)
           /\ NotSampled \in Seq(Values)
BY DEF SourceType, ChannelType, SinkType, Register, Retry, Offered, NotSampled

\* What is in flight, by place.
LEMMA InFlightIs == Channel!InFlight = (Register \o chan) \o Retry
BY DEF Channel!InFlight, Register, Retry

\* The path is what NoChangeLost says it is.
LEMMA PathIs ==
    ASSUME SourceType, ChannelType, SinkType
    PROVE  Path = outputs \o Channel!InFlight \o Offered \o queue \o NotSampled
<1> DEFINE shown == outputs ++ Register
           sent == chan ++ Retry
           offered == sent ++ Offered
           queued == offered ++ queue
<1>1. /\ outputs \in Seq(Values) /\ Register \in Seq(Values) /\ chan \in Seq(Values)
      /\ Retry \in Seq(Values) /\ Offered \in Seq(Values) /\ queue \in Seq(Values)
      /\ NotSampled \in Seq(Values)
    BY PlaceTypes
<1>2. shown \in Seq(Values) /\ sent \in Seq(Values)
    BY <1>1, Joined
<1>3. outputs ++ ((Register ++ chan) ++ Retry) = shown ++ sent
    <2>1. (Register ++ chan) ++ Retry = Register ++ sent
        BY <1>1, Assoc
    <2> HIDE DEF sent
    <2>2. QED BY <1>1, <1>2, <2>1, Assoc
<1> HIDE DEF shown, sent
<1>4. queued = sent ++ (Offered ++ queue)
    BY <1>1, <1>2, Assoc
<1>5. (shown ++ sent) ++ Offered = shown ++ offered /\ offered \in Seq(Values)
    BY <1>1, <1>2, Assoc, Joined
<1> HIDE DEF offered
<1>6. (shown ++ offered) ++ queue = shown ++ queued /\ queued \in Seq(Values)
    BY <1>1, <1>2, <1>5, Assoc, Joined
<1> HIDE DEF queued
<1>7. (shown ++ queued) ++ NotSampled = shown ++ (queued ++ NotSampled)
    BY <1>1, <1>2, <1>6, Assoc
<1>8. Path = shown ++ (queued ++ NotSampled)
    BY <1>4 DEF Path, shown, sent
<1>9. Path = (((outputs ++ ((Register ++ chan) ++ Retry)) ++ Offered) ++ queue) ++ NotSampled
    BY <1>3, <1>5, <1>6, <1>7, <1>8
<1>10. QED BY <1>9, InFlightIs DEF ++

\* A posedge of the push module with the user's next value.
LEMMA SourcePosedgeInv ==
    ASSUME IInv, SourcePosedge
    PROVE  IInv'
<1>1. /\ dataPrev' = data /\ Offer /\ Channel!PushPosedge(dataVld, dataPush) /\ Drive
      /\ out' = out /\ outputs' = outputs
    BY DEF SourcePosedge, sinkVars
<1>2. SourceType /\ ChannelType /\ SinkType /\ ReadyIfStarted /\ Path = inputs
    BY DEF IInv
<1>3. /\ Offered' ++ queue' = (IF dataVld /\ rdy THEN <<>> ELSE Offered) ++ Sampled
      /\ dataVld' \in BOOLEAN /\ dataPush' \in Values /\ queue' \in Seq(Values)
    BY <1>1, <1>2, OfferMoves
<1>4. /\ chan' ++ Retry' = (chan ++ Retry) ++ (IF dataVld /\ rdy THEN <<dataPush>> ELSE <<>>)
      /\ ChannelType' /\ ReadyIfStarted'
      /\ vld' = vld /\ pulled' = pulled
    BY <1>1, <1>2, PushMoves
<1>5. data' \in Values /\ inputs' = inputs ++ NotSampled' /\ inputs' \in Seq(Values)
    <2>1. data' \in Values /\ inputs' = IF data' = data THEN inputs ELSE Append(inputs, data')
        BY <1>1 DEF Drive
    <2>2. inputs \in Seq(Values)
        BY <1>2 DEF SourceType
    <2>3. CASE data' = data
        BY <1>1, <2>1, <2>2, <2>3, WithNothing DEF NotSampled
    <2>4. CASE data' # data
        <3>1. Append(inputs, data') = inputs ++ <<data'>> /\ Append(inputs, data') \in Seq(Values)
            BY <2>1, <2>2, AtTheEnd
        <3>2. QED BY <1>1, <2>1, <2>4, <3>1 DEF NotSampled
    <2>5. QED BY <2>3, <2>4
<1>6. SourceType' /\ SinkType'
    BY <1>1, <1>2, <1>3, <1>5 DEF SourceType, SinkType
<1>7. Path' = inputs'
    <2> DEFINE front == outputs ++ Register
               kept == IF dataVld /\ rdy THEN <<>> ELSE Offered
               taken == IF dataVld /\ rdy THEN <<dataPush>> ELSE <<>>
    <2>1. /\ outputs \in Seq(Values) /\ Register \in Seq(Values) /\ chan \in Seq(Values)
          /\ Retry \in Seq(Values) /\ Offered \in Seq(Values) /\ queue \in Seq(Values)
          /\ NotSampled \in Seq(Values) /\ Sampled \in Seq(Values) /\ NotSampled' \in Seq(Values)
          /\ front \in Seq(Values) /\ kept \in Seq(Values) /\ taken \in Seq(Values)
        <3>1. /\ outputs \in Seq(Values) /\ Register \in Seq(Values) /\ chan \in Seq(Values)
              /\ Retry \in Seq(Values) /\ Offered \in Seq(Values) /\ queue \in Seq(Values)
              /\ NotSampled \in Seq(Values) /\ Sampled \in Seq(Values)
            BY <1>2, PlaceTypes, SampledIs
        <3>2. NotSampled' \in Seq(Values)
            BY <1>6 DEF SourceType, NotSampled
        <3>3. kept \in Seq(Values) /\ taken \in Seq(Values)
            BY <1>2, <3>1 DEF SourceType
        <3>4. front \in Seq(Values)
            BY <3>1, Joined
        <3>5. QED BY <3>1, <3>2, <3>3, <3>4
    <2>2. inputs = front ++ (((chan ++ Retry) ++ (Offered ++ queue)) ++ NotSampled)
        BY <1>2 DEF Path
    <2>3. Path' = front ++ (((chan' ++ Retry') ++ (Offered' ++ queue')) ++ NotSampled')
        BY <1>1, <1>4 DEF Path, Register
    <2>4. taken ++ kept = Offered
        <3>1. CASE dataVld /\ rdy
            <4>1. taken = Offered /\ kept = <<>>
                BY <3>1 DEF Offered
            <4>2. QED BY <2>1, <4>1, WithNothing
        <3>2. CASE ~(dataVld /\ rdy)
            <4>1. kept = Offered /\ taken = <<>>
                BY <3>2
            <4>2. QED BY <2>1, <4>1, WithNothing
        <3>3. QED BY <3>1, <3>2
    <2>5. Sampled = queue ++ NotSampled
        BY <1>2, SampledIs
    <2>6. chan' ++ Retry' = (chan ++ Retry) ++ taken /\ Offered' ++ queue' = kept ++ Sampled
        BY <1>3, <1>4
    <2> DEFINE way == chan ++ Retry
    <2>7. way \in Seq(Values)
        BY <2>1, Joined
    <2> HIDE DEF front, kept, taken, way
    <2> DEFINE rest == (way ++ (Offered ++ queue)) ++ NotSampled
    <2>8. (way ++ taken) ++ (kept ++ Sampled) = rest
        <3> DEFINE sent == way ++ taken
                   ahead == kept ++ queue
        <3>1. sent \in Seq(Values) /\ ahead \in Seq(Values)
            BY <2>1, <2>7, Joined
        <3>2. kept ++ (queue ++ NotSampled) = ahead ++ NotSampled
            BY <2>1, Assoc
        <3>3. taken ++ ahead = Offered ++ queue
            BY <2>1, <2>4, Assoc
        <3> HIDE DEF ahead
        <3>4. sent ++ ahead = way ++ (taken ++ ahead)
            BY <2>1, <2>7, <3>1, Assoc
        <3> HIDE DEF sent
        <3>5. sent ++ (ahead ++ NotSampled) = (sent ++ ahead) ++ NotSampled
            BY <2>1, <3>1, Assoc
        <3>6. QED BY <2>5, <3>2, <3>3, <3>4, <3>5 DEF sent
    <2>9. rest \in Seq(Values)
        <3> DEFINE on == way ++ (Offered ++ queue)
        <3>1. on \in Seq(Values)
            BY <2>1, <2>7, Joined
        <3> HIDE DEF on
        <3>2. on ++ NotSampled \in Seq(Values)
            BY <2>1, <3>1, Joined
        <3>3. QED BY <3>2 DEF on
    <2>10. inputs = front ++ rest /\ Path' = front ++ (rest ++ NotSampled')
        BY <2>2, <2>3, <2>6, <2>8 DEF way
    <2> HIDE DEF rest
    <2>11. front ++ (rest ++ NotSampled') = (front ++ rest) ++ NotSampled'
        BY <2>1, <2>9, Assoc
    <2>12. QED BY <1>5, <2>10, <2>11
<1>8. QED BY <1>4, <1>6, <1>7 DEF IInv

-----------------------------------------------------------------------------
(* The pull module *)

\* A posedge of the pull module: its output takes the register, which takes the
\* first message of the connection.
LEMMA SinkPosedgeInv ==
    ASSUME IInv, SinkPosedge
    PROVE  IInv'
<1>1. /\ Show /\ Channel!PullPosedge(TRUE)
      /\ UNCHANGED <<data, dataPrev, queue, dataVld, dataPush, inputs, started, rdy, dataQ, linked>>
    BY DEF SinkPosedge, sourceVars, Channel!PullPosedge, Channel!pushVars
<1>2. SourceType /\ ChannelType /\ SinkType /\ ReadyIfStarted /\ Path = inputs
    BY DEF IInv
<1>3. SourceType' /\ ReadyIfStarted'
    BY <1>1, <1>2 DEF SourceType, ReadyIfStarted
<1>4. Register' ++ chan' = chan /\ ChannelType'
    <2>1. chan \in Seq(Values)
        BY <1>2 DEF ChannelType
    <2>2. CASE Channel!PullOk(TRUE)
        <3>1. chan # <<>> /\ pulled' = Head(chan) /\ chan' = Tail(chan) /\ vld' = TRUE
            BY <2>2 DEF Channel!PullOk
        <3>2. /\ Head(chan) \in Values /\ Tail(chan) \in Seq(Values)
              /\ <<Head(chan)>> ++ Tail(chan) = chan
            BY <2>1, <3>1, AtTheFront
        <3>3. QED BY <1>1, <1>2, <3>1, <3>2 DEF ChannelType, Register
    <2>3. CASE Channel!PullNothing(TRUE)
        <3>1. vld' = FALSE /\ chan' = chan /\ pulled' = pulled
            BY <2>3 DEF Channel!PullNothing
        <3>2. QED BY <1>1, <1>2, <2>1, <3>1, WithNothing DEF ChannelType, Register
    <2>4. QED BY <1>1, <2>2, <2>3 DEF Channel!PullPosedge, Channel!PullHold
<1>5. outputs' = outputs ++ Register /\ SinkType'
    <2>1. outputs \in Seq(Values) /\ out \in Values /\ pulled \in Values
        BY <1>2 DEF SinkType, ChannelType
    <2>2. CASE vld
        <3>1. out' = pulled /\ outputs' = Append(outputs, pulled)
            BY <1>1, <2>2 DEF Show
        <3>2. Append(outputs, pulled) = outputs ++ <<pulled>> /\ Append(outputs, pulled) \in Seq(Values)
            BY <2>1, AtTheEnd
        <3>3. QED BY <2>1, <2>2, <3>1, <3>2 DEF SinkType, Register
    <2>3. CASE ~vld
        <3>1. out' = out /\ outputs' = outputs
            BY <1>1, <2>3 DEF Show
        <3>2. QED BY <2>1, <2>3, <3>1, WithNothing DEF SinkType, Register
    <2>4. QED BY <2>2, <2>3
<1>6. Path' = inputs'
    <2> DEFINE on == Offered ++ queue
    <2>1. /\ outputs' \in Seq(Values) /\ Register' \in Seq(Values) /\ chan' \in Seq(Values)
          /\ Retry \in Seq(Values) /\ on \in Seq(Values) /\ NotSampled \in Seq(Values)
        BY <1>2, <1>4, <1>5, PlaceTypes, Joined DEF ChannelType, SinkType, Register
    <2>2. Retry' = Retry /\ Offered' = Offered /\ queue' = queue /\ NotSampled' = NotSampled
        BY <1>1 DEF Retry, Offered, NotSampled
    <2>3. Path = outputs' ++ (((chan ++ Retry) ++ on) ++ NotSampled)
        BY <1>5 DEF Path
    <2>4. Path' = (outputs' ++ Register') ++ (((chan' ++ Retry) ++ on) ++ NotSampled)
        BY <2>2 DEF Path
    <2> HIDE DEF on
    <2>5. Register' ++ (((chan' ++ Retry) ++ on) ++ NotSampled)
              = ((chan ++ Retry) ++ on) ++ NotSampled
        BY <1>4, <2>1, InFront
    <2> DEFINE tail == ((chan' ++ Retry) ++ on) ++ NotSampled
    <2>6. tail \in Seq(Values)
        <3> DEFINE ahead == chan' ++ Retry
        <3>1. ahead \in Seq(Values)
            BY <2>1, Joined
        <3> HIDE DEF ahead
        <3>2. (ahead ++ on) ++ NotSampled \in Seq(Values)
            BY <2>1, <3>1, Joined
        <3>3. QED BY <3>2 DEF ahead
    <2> HIDE DEF tail
    <2>7. (outputs' ++ Register') ++ tail = outputs' ++ (Register' ++ tail)
        BY <2>1, <2>6, Assoc
    <2>8. QED BY <1>1, <1>2, <2>3, <2>4, <2>5, <2>7 DEF tail
<1>7. QED BY <1>3, <1>4, <1>5, <1>6 DEF IInv

-----------------------------------------------------------------------------
(* The remaining steps *)

\* The channel comes up: nothing was accepted before.
LEMMA ChannelUpInv ==
    ASSUME IInv, ChannelUp
    PROVE  IInv'
<1>1. UNCHANGED <<data, dataPrev, queue, dataVld, dataPush, inputs, out, outputs,
                  dataQ, chan, vld, pulled>>
    BY DEF ChannelUp, sourceVars, sinkVars, Channel!Start, Channel!Link, Channel!wireVars,
           Channel!pullVars, Channel!pushVars
<1>2. \/ ~started /\ started' = TRUE /\ rdy' = TRUE
      \/ UNCHANGED <<started, rdy>>
    BY DEF ChannelUp, Channel!Start, Channel!Link, Channel!wireVars, Channel!pushVars
<1>3. linked' \in {linked, TRUE}
    BY DEF ChannelUp, Channel!Start, Channel!Link
<1>4. SourceType' /\ SinkType'
    BY <1>1 DEF IInv, SourceType, SinkType
<1>5. ChannelType' /\ ReadyIfStarted'
    <2>1. dataQ' \in Values /\ pulled' \in Values /\ chan' \in Seq(Values)
        BY <1>1 DEF IInv, ChannelType
    <2>2. started' \in BOOLEAN /\ linked' \in BOOLEAN /\ rdy' \in BOOLEAN /\ vld' \in BOOLEAN
        BY <1>1, <1>2, <1>3 DEF IInv, ChannelType
    <2>3. ReadyIfStarted'
        BY <1>2 DEF IInv, ReadyIfStarted
    <2>4. QED BY <2>1, <2>2, <2>3 DEF ChannelType
<1>6. Path' = Path
    <2>1. Retry' = Retry
        BY <1>1, <1>2 DEF IInv, ReadyIfStarted, Retry
    <2>2. Register' = Register /\ Offered' = Offered /\ NotSampled' = NotSampled
        BY <1>1 DEF Register, Offered, NotSampled
    <2>3. QED BY <1>1, <2>1, <2>2 DEF Path
<1>7. QED BY <1>1, <1>4, <1>5, <1>6 DEF IInv

\* The first value is in the queue.
LEMMA InitInv == Init => IInv
<1> SUFFICES ASSUME Init PROVE IInv
    OBVIOUS
<1>1. /\ data \in Values /\ dataPrev = data /\ queue = <<data>> /\ inputs = <<data>>
      /\ dataVld = FALSE /\ dataPush = Zero /\ out = Zero /\ outputs = <<>>
      /\ started = FALSE /\ linked = FALSE /\ rdy = FALSE /\ vld = FALSE
      /\ dataQ = Zero /\ chan = <<>> /\ pulled = Zero
    BY DEF Init, Channel!ChannelInit
<1>2. SourceType /\ ChannelType /\ SinkType /\ ReadyIfStarted
    <2>1. Zero \in Values /\ <<>> \in Seq(Values) /\ <<data>> \in Seq(Values)
        BY <1>1, QuasiStaticAssumption
    <2>2. /\ dataVld \in BOOLEAN /\ started \in BOOLEAN /\ linked \in BOOLEAN
          /\ rdy \in BOOLEAN /\ vld \in BOOLEAN
        BY <1>1, Zenon
    <2>3. QED BY <1>1, <2>1, <2>2 DEF SourceType, ChannelType, SinkType, ReadyIfStarted
<1>3. Path = inputs
    <2>1. Register = <<>> /\ Retry = <<>> /\ Offered = <<>> /\ NotSampled = <<>>
        BY <1>1 DEF Register, Retry, Offered, NotSampled
    <2>2. <<>> \in Seq(Values) /\ <<data>> \in Seq(Values)
        BY <1>1
    <2>3. QED BY <1>1, <2>1, <2>2, WithNothing DEF Path
<1>4. QED BY <1>2, <1>3 DEF IInv

\* No posedge breaks it.
LEMMA NextInv == IInv /\ [Next]_vars => IInv'
<1> SUFFICES ASSUME IInv, [Next]_vars PROVE IInv'
    OBVIOUS
<1>1. CASE UNCHANGED vars
    <2>1. UNCHANGED <<data, dataPrev, queue, dataVld, dataPush, inputs, out, outputs,
                      started, linked, rdy, dataQ, chan, vld, pulled>>
        BY <1>1 DEF vars, sourceVars, channelVars, sinkVars
    <2>2. Path' = Path
        BY <2>1 DEF Path, Register, Retry, Offered, NotSampled
    <2>3. QED BY <2>1, <2>2 DEF IInv, SourceType, ChannelType, SinkType, ReadyIfStarted
<1>2. QED BY <1>1, SourcePosedgeInv, ChannelUpInv, SinkPosedgeInv DEF Next

-----------------------------------------------------------------------------
(* The theorems *)

\* The inductive invariant holds in every state of every run.
THEOREM Invariance == Spec => []IInv
BY InitInv, NextInv, PTL DEF Spec

\* No value of the signal is lost, repeated or reordered on its way through the
\* two modules, however often it changes and however small the buffer is.
THEOREM NoChangeLostHolds == Spec => []NoChangeLost
<1>1. IInv => NoChangeLost
    BY PathIs DEF IInv, NoChangeLost
<1>2. QED BY <1>1, Invariance, PTL
=============================================================================
