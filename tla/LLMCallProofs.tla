---------------------------- MODULE LLMCallProofs ----------------------------
(***************************************************************************)
(* What holds of an LLM call for every capacity of the channel and every   *)
(* length of a stream.  StageInv says what each stage of the pump has done *)
(* with the body and the channel; ReportInv that a broken Anthropic stream *)
(* has an error as the last of its chunks once the pump is past it.        *)
(***************************************************************************)
EXTENDS LLMCall, SequenceTheorems, TLAPS

EndsInError == parsed # <<>> /\ parsed[Len(parsed)] = "err"

StageInv ==
  /\ call # "returned" => pump = "off" /\ body = "none"
  /\ pump = "off" => body # "open" /\ consumer = "none"
  /\ pump \in {"scan", "send", "report", "close_body"} => body = "open"
  /\ pump \in {"close_channel", "ended"} => body = "closed"
  /\ closed <=> pump = "ended"
  /\ pump \in {"send", "report"} => pending # <<>>
  /\ consumer = "ended" => closed /\ channel = <<>>

ReportInv ==
  backend = "anthropic" =>
    /\ pump = "report" => pending = <<"err">> /\ EndsInError
    /\ source = "broken" /\ pump \in {"close_body", "close_channel", "ended"} => EndsInError

CallInv == TypeOK /\ StreamIsFaithful /\ StageInv /\ ReportInv

----------------------------------------------------------------------------
LEMMA ChunksAreChunks ==
    ASSUME NEW e
    PROVE  Chunks(e) \in Seq(ChunkKinds)
<1>1. /\ <<>> \in Seq(ChunkKinds) /\ <<"text">> \in Seq(ChunkKinds)
      /\ <<"done">> \in Seq(ChunkKinds) /\ <<"text", "done">> \in Seq(ChunkKinds)
  BY DEF ChunkKinds
<1>2. Chunks(e) \in {<<>>, <<"text">>, <<"done">>, <<"text", "done">>}
  BY DEF Chunks, AnthropicChunks, OpenAIChunks
<1> QED
  BY <1>1, <1>2

\* A sequence is its head followed by its tail.
LEMMA HeadAndTail ==
    ASSUME NEW S, NEW s \in Seq(S), s # <<>>
    PROVE  /\ Head(s) \in S /\ Tail(s) \in Seq(S)
           /\ Len(Tail(s)) = Len(s) - 1
           /\ s = <<Head(s)>> \o Tail(s)
<1>1. Head(s) \in S /\ Tail(s) \in Seq(S) /\ Len(Tail(s)) = Len(s) - 1
  BY HeadTailProperties
<1>2. Len(s) \in Nat \ {0}
  BY EmptySeq
<1>3. s = SubSeq(s, 1, Len(s))
  BY SubSeqFull
<1>4. SubSeq(s, 1, Len(s)) = <<s[1]>> \o SubSeq(s, 2, Len(s))
  BY <1>2, SubSeqRecursiveFirst
<1>5. Tail(s) = SubSeq(s, 2, Len(s)) /\ Head(s) = s[1]
  BY TailIsSubSeq
<1> QED
  BY <1>1, <1>3, <1>4, <1>5

\* Moving one chunk over a boundary changes nothing of the whole.
LEMMA MoveChunk ==
    ASSUME NEW S, NEW a \in Seq(S), NEW b \in Seq(S), b # <<>>
    PROVE  Append(a, Head(b)) \o Tail(b) = a \o b
<1>1. Head(b) \in S /\ Tail(b) \in Seq(S) /\ b = <<Head(b)>> \o Tail(b)
  BY HeadAndTail
<1>2. Append(a, Head(b)) = a \o <<Head(b)>>
  BY <1>1, AppendIsConcat
<1>3. <<Head(b)>> \in Seq(S)
  BY <1>1
<1> QED
  BY <1>1, <1>2, <1>3, ConcatAssociative

LEMMA InitEstablishes == Init => CallInv
<1> SUFFICES ASSUME Init PROVE CallInv
  OBVIOUS
<1>1. <<>> \in Seq(ChunkKinds) /\ Len(<<>>) = 0
  BY EmptySeq
<1>2. TypeOK
  <2>1. /\ pending \in Seq(ChunkKinds) /\ parsed \in Seq(ChunkKinds)
        /\ received \in Seq(ChunkKinds) /\ channel \in Seq(ChunkKinds)
        /\ pending = <<>>
    BY <1>1 DEF Init
  <2>2. Len(channel) <= Capacity /\ events \in 0 .. MaxEvents
    BY <1>1, CapacityAssumption DEF Init
  <2> QED
    BY <2>1, <2>2 DEF Init, TypeOK
<1>3. StreamIsFaithful
  BY <1>1, ConcatEmptySeq DEF Init, StreamIsFaithful
<1> QED
  BY <1>2, <1>3 DEF Init, CallInv, StageInv, ReportInv

----------------------------------------------------------------------------
\* The part of a call that runs in the caller's goroutine, and the world.
LEMMA CallerPreserves ==
    ASSUME CallInv,
           \/ \E k \in {"chat", "embed", "stream"}, m \in Models : Call(k, m)
           \/ DoFails \/ BadStatus \/ Decode
    PROVE  CallInv'
<1> USE DEF CallInv
<1>0. UNCHANGED <<backend, ctxDone, streamVars>> /\ call # "returned"
  BY DEF Call, Refused, DoFails, BadStatus, Decode
<1>1. /\ call' \in {"sending", "returned"} /\ body' \in {body, "closed"}
      /\ kind' \in {"none", "chat", "embed", "stream"}
      /\ err' \in {"none", "invalid_request", "unknown_provider", "timeout",
                   "transport", "bad_status", "decode"}
      /\ (call' # "returned" => body' = body)
  <2>1. ASSUME NEW k \in {"chat", "embed", "stream"}, NEW m \in Models, Call(k, m)
        PROVE  <1>1!1 /\ <1>1!2 /\ <1>1!3 /\ <1>1!4
    <3>1. /\ Resolve(k, m) \in {"none", "invalid_request", "unknown_provider"}
          /\ Build(k) \subseteq {"none", "invalid_request"}
      BY DEF Resolve, ResolveChat, ResolveEmbed, Lookup, Build, AnthropicBuild, OpenAIBuild
    <3> QED
      BY <2>1, <3>1 DEF Call, Refused, TypeOK
  <2>2. CASE DoFails \/ BadStatus \/ Decode
    BY <2>2 DEF DoFails, BadStatus, Decode, TypeOK, OpenAIEmbed, AnthropicChat, OpenAIChat
  <2> QED
    BY <2>1, <2>2
<1>2. TypeOK'
  BY <1>0, <1>1 DEF TypeOK, streamVars
<1>3. StreamIsFaithful'
  BY <1>0 DEF StreamIsFaithful, streamVars
<1>4. StageInv'
  BY <1>0, <1>1 DEF StageInv, streamVars
<1>5. ReportInv'
  BY <1>0 DEF ReportInv, EndsInError, streamVars
<1> QED
  BY <1>2, <1>3, <1>4, <1>5

LEMMA StartPumpPreserves == CallInv /\ StartPump => CallInv'
<1> SUFFICES ASSUME CallInv, StartPump PROVE CallInv'
  OBVIOUS
<1> USE DEF CallInv, StartPump
<1>0. call # "returned" /\ pump = "off" /\ ~closed
  BY DEF StageInv
<1>1. TypeOK'
  BY <1>0 DEF TypeOK
<1>2. StreamIsFaithful'
  BY DEF StreamIsFaithful
<1>3. StageInv'
  BY <1>0 DEF StageInv
<1>4. ReportInv'
  BY DEF ReportInv, EndsInError
<1> QED
  BY <1>1, <1>2, <1>3, <1>4

LEMMA SourcePreserves == CallInv /\ (Cancel \/ SourceEnds) => CallInv'
<1> SUFFICES ASSUME CallInv, Cancel \/ SourceEnds PROVE CallInv'
  OBVIOUS
<1> USE DEF CallInv
<1>0. /\ UNCHANGED <<backend, call, kind, err, body, events, pump, pending,
                     channel, closed, consumer, parsed, received>>
      /\ ctxDone' \in BOOLEAN /\ source' \in {"events", "eof", "broken"}
      /\ pump \notin {"scan", "send"} => source' = source
  BY DEF Cancel, SourceEnds, Reading, TypeOK
<1>1. TypeOK'
  BY <1>0 DEF TypeOK
<1>2. StreamIsFaithful'
  BY <1>0 DEF StreamIsFaithful
<1>3. StageInv'
  BY <1>0 DEF StageInv
<1>4. ReportInv'
  BY <1>0 DEF ReportInv, EndsInError
<1> QED
  BY <1>1, <1>2, <1>3, <1>4

----------------------------------------------------------------------------
LEMMA ScanEventPreserves ==
    ASSUME CallInv, NEW e \in Events, ScanEvent(e)
    PROVE  CallInv'
<1> USE DEF CallInv, ScanEvent
<1>0. pending = <<>> /\ pump = "scan" /\ source = "events"
  BY DEF TypeOK
<1>1. Chunks(e) \in Seq(ChunkKinds) /\ pending' = Chunks(e)
      /\ parsed' = parsed \o Chunks(e) /\ parsed' \in Seq(ChunkKinds)
  BY ChunksAreChunks, ConcatProperties DEF TypeOK
<1>2. TypeOK'
  BY <1>1, CapacityAssumption DEF TypeOK
<1>3. StreamIsFaithful'
  <2>1. received \o channel \in Seq(ChunkKinds)
    BY ConcatProperties DEF TypeOK
  <2>2. parsed = received \o channel
    BY <1>0, <2>1, ConcatEmptySeq DEF StreamIsFaithful
  <2> QED
    BY <1>1, <2>2 DEF StreamIsFaithful
<1>4. StageInv'
  BY <1>0, <1>1 DEF StageInv, TypeOK
<1>5. ReportInv'
  BY <1>0 DEF ReportInv
<1> QED
  BY <1>2, <1>3, <1>4, <1>5

LEMMA ScanDonePreserves == CallInv /\ ScanDone => CallInv'
<1> SUFFICES ASSUME CallInv, ScanDone PROVE CallInv'
  OBVIOUS
<1> USE DEF CallInv, ScanDone
<1>1. TypeOK'
  BY CapacityAssumption DEF TypeOK
<1>2. StreamIsFaithful' /\ StageInv' /\ ReportInv'
  BY DEF StreamIsFaithful, StageInv, ReportInv
<1> QED
  BY <1>1, <1>2

\* The scan is over: the report, if there is one, becomes the last chunk.
LEMMA ScanEndsPreserves == CallInv /\ ScanEnds => CallInv'
<1> SUFFICES ASSUME CallInv, ScanEnds PROVE CallInv'
  OBVIOUS
<1> USE DEF CallInv
<1>0. /\ pump = "scan" /\ pending = <<>>
      /\ UNCHANGED <<backend, call, kind, err, ctxDone, body, source, events,
                     channel, closed, consumer, received>>
  BY DEF ScanEnds, TypeOK
<1>1. CASE /\ pump' = "report" /\ pending' = <<"err">> /\ parsed' = Append(parsed, "err")
  <2>1. "err" \in ChunkKinds /\ pending' \in Seq(ChunkKinds) /\ pending' # <<>>
    BY <1>1 DEF ChunkKinds
  <2>2. parsed' \in Seq(ChunkKinds) /\ parsed' # <<>> /\ parsed'[Len(parsed')] = "err"
    BY <1>1, <2>1, AppendProperties DEF TypeOK
  <2>3. StreamIsFaithful'
    <3>1. received \o channel \in Seq(ChunkKinds)
      BY ConcatProperties DEF TypeOK
    <3>2. parsed = received \o channel
      BY <1>0, <3>1, ConcatEmptySeq DEF StreamIsFaithful
    <3>3. parsed' = (received \o channel) \o <<"err">>
      BY <1>1, <2>1, <3>1, <3>2, AppendIsConcat
    <3> QED
      BY <1>0, <1>1, <3>3 DEF StreamIsFaithful
  <2>4. TypeOK'
    BY <1>0, <1>1, <2>1, <2>2 DEF TypeOK
  <2>5. StageInv'
    BY <1>0, <1>1, <2>1 DEF StageInv
  <2>6. ReportInv'
    BY <1>1, <2>2 DEF ReportInv, EndsInError
  <2> QED
    BY <2>3, <2>4, <2>5, <2>6
<1>2. CASE pump' = "close_body" /\ (source = "eof" \/ backend = "openai") /\ UNCHANGED <<pending, parsed>>
  BY <1>0, <1>2 DEF TypeOK, StreamIsFaithful, StageInv, ReportInv
<1> QED
  BY <1>1, <1>2 DEF ScanEnds

\* A chunk moves from the event in hand into the channel.
LEMMA SendPreserves == CallInv /\ Send => CallInv'
<1> SUFFICES ASSUME CallInv, Send PROVE CallInv'
  OBVIOUS
<1> USE DEF CallInv
<1>0. /\ pump \in {"send", "report"} /\ pending # <<>> /\ pending \in Seq(ChunkKinds)
      /\ UNCHANGED <<backend, call, kind, err, ctxDone, body, source, events,
                     closed, consumer, parsed, received>>
      /\ channel' = Append(channel, Head(pending)) /\ pending' = Tail(pending)
      /\ pump' = AfterSend
  BY DEF Send, TypeOK, StageInv
<1>1. /\ Head(pending) \in ChunkKinds /\ pending' \in Seq(ChunkKinds)
      /\ Len(pending) \in Nat /\ Len(pending') = Len(pending) - 1
  BY <1>0, HeadAndTail, LenProperties
<1>2. /\ channel' \in Seq(ChunkKinds) /\ Len(channel') = Len(channel) + 1
      /\ Len(channel) \in Nat /\ Len(channel') <= Capacity
  BY <1>0, <1>1, AppendProperties, LenProperties, CapacityAssumption DEF TypeOK, Send
<1>3. /\ Len(pending) > 1 => pump' = pump /\ pending' # <<>>
      /\ ~(Len(pending) > 1) => /\ pending' = <<>>
                                /\ pump' = IF pump = "send" THEN "scan" ELSE "close_body"
  <2>1. Len(pending') = 0 <=> pending' = <<>>
    BY <1>1, EmptySeq
  <2>2. Len(pending) # 0
    BY <1>0, EmptySeq
  <2> QED
    BY <1>0, <1>1, <2>1, <2>2 DEF AfterSend
<1>4. TypeOK'
  BY <1>0, <1>1, <1>2, <1>3 DEF TypeOK
<1>5. StreamIsFaithful'
  <2>1. channel \in Seq(ChunkKinds) /\ received \in Seq(ChunkKinds)
    BY DEF TypeOK
  <2>2. channel' \o pending' = channel \o pending
    BY <1>0, <2>1, MoveChunk
  <2>3. (received \o channel') \o pending' = received \o (channel' \o pending')
    BY <1>1, <1>2, <2>1, ConcatAssociative
  <2>4. (received \o channel) \o pending = received \o (channel \o pending)
    BY <1>0, <2>1, ConcatAssociative
  <2> QED
    BY <1>0, <2>2, <2>3, <2>4 DEF StreamIsFaithful
<1>6. StageInv'
  BY <1>0, <1>3 DEF StageInv
<1>7. ReportInv'
  <2>1. CASE pump = "report" /\ backend = "anthropic"
    <3>1. Len(pending) = 1
      BY <2>1 DEF ReportInv
    <3> QED
      BY <1>0, <1>3, <2>1, <3>1 DEF ReportInv, EndsInError
  <2>2. CASE pump = "send" \/ backend # "anthropic"
    BY <1>0, <1>3, <2>2 DEF ReportInv, EndsInError
  <2> QED
    BY <1>0, <2>1, <2>2
<1> QED
  BY <1>4, <1>5, <1>6, <1>7

LEMMA ClosePreserves == CallInv /\ (CloseBody \/ CloseChannel) => CallInv'
<1> SUFFICES ASSUME CallInv, CloseBody \/ CloseChannel PROVE CallInv'
  OBVIOUS
<1> USE DEF CallInv, CloseBody, CloseChannel
<1>1. TypeOK'
  BY DEF TypeOK
<1>2. StreamIsFaithful'
  BY DEF StreamIsFaithful
<1>3. StageInv'
  BY DEF StageInv
<1>4. ReportInv'
  BY DEF ReportInv, EndsInError
<1> QED
  BY <1>1, <1>2, <1>3, <1>4

\* A chunk moves from the channel to the consumer.
LEMMA ReceivePreserves == CallInv /\ Receive => CallInv'
<1> SUFFICES ASSUME CallInv, Receive PROVE CallInv'
  OBVIOUS
<1> USE DEF CallInv
<1>0. /\ channel # <<>> /\ channel \in Seq(ChunkKinds) /\ consumer = "reading"
      /\ received \in Seq(ChunkKinds) /\ pending \in Seq(ChunkKinds)
      /\ UNCHANGED <<backend, call, kind, err, ctxDone, body, source, events, pump,
                     pending, closed, consumer, parsed>>
      /\ received' = Append(received, Head(channel)) /\ channel' = Tail(channel)
  BY DEF Receive, TypeOK
<1>1. /\ Head(channel) \in ChunkKinds /\ channel' \in Seq(ChunkKinds)
      /\ Len(channel) \in Nat /\ Len(channel') = Len(channel) - 1
  BY <1>0, HeadAndTail, LenProperties
<1>2. received' \in Seq(ChunkKinds)
  BY <1>0, <1>1, AppendProperties
<1>3. TypeOK'
  BY <1>0, <1>1, <1>2, CapacityAssumption DEF TypeOK
<1>4. StreamIsFaithful'
  BY <1>0, MoveChunk DEF StreamIsFaithful
<1>5. StageInv'
  BY <1>0 DEF StageInv
<1>6. ReportInv'
  BY <1>0 DEF ReportInv, EndsInError
<1> QED
  BY <1>3, <1>4, <1>5, <1>6

LEMMA ConsumerPreserves == CallInv /\ (SeeClosed \/ Leave) => CallInv'
<1> SUFFICES ASSUME CallInv, SeeClosed \/ Leave PROVE CallInv'
  OBVIOUS
<1> USE DEF CallInv, SeeClosed, Leave
<1>1. TypeOK'
  BY DEF TypeOK
<1>2. StreamIsFaithful'
  BY DEF StreamIsFaithful
<1>3. StageInv'
  BY DEF StageInv
<1>4. ReportInv'
  BY DEF ReportInv, EndsInError
<1> QED
  BY <1>1, <1>2, <1>3, <1>4

LEMMA NextPreserves == CallInv /\ [Next]_vars => CallInv'
<1> SUFFICES ASSUME CallInv, [Next]_vars PROVE CallInv'
  OBVIOUS
<1>1. CASE UNCHANGED vars
  BY <1>1 DEF vars, CallInv, TypeOK, StreamIsFaithful, StageInv, ReportInv, EndsInError
<1>2. CASE Next
  <2>1. ASSUME \/ \E k \in {"chat", "embed", "stream"}, m \in Models : Call(k, m)
               \/ DoFails \/ BadStatus \/ Decode
        PROVE  CallInv'
    BY <2>1, CallerPreserves
  <2>2. CASE Pump
    BY <2>2, ScanEventPreserves, ScanDonePreserves, ScanEndsPreserves, SendPreserves,
       ClosePreserves DEF Pump
  <2>3. CASE Consume
    BY <2>3, ReceivePreserves, ConsumerPreserves DEF Consume
  <2>4. CASE Over
    BY <2>4, <1>1 DEF Over
  <2> QED
    BY <1>2, <2>1, <2>2, <2>3, <2>4, StartPumpPreserves, SourcePreserves,
       ConsumerPreserves DEF Next
<1> QED
  BY <1>1, <1>2

LEMMA CallAlways == Spec => []CallInv
BY InitEstablishes, NextPreserves, PTL DEF Spec

----------------------------------------------------------------------------
\* The state of a call and its stream is well typed, and the channel never
\* holds more than its capacity, whatever that is.
THEOREM CallTypeCorrect == Spec => []TypeOK
BY CallAlways, PTL DEF CallInv

\* What was parsed is what was read, is in the channel or is in hand, in order,
\* for every capacity and every length of a stream.
THEOREM StreamFaithful == Spec => []StreamIsFaithful
BY CallAlways, PTL DEF CallInv

\* A body stays open only while a pump is there that will close it.
THEOREM BodyReleased == Spec => []BodyIsReleased
<1>1. CallInv => BodyIsReleased
  BY DEF CallInv, StageInv, BodyIsReleased
<1> QED
  BY <1>1, CallAlways, PTL

\* A broken Anthropic stream ends in an error for the consumer that reads on.
THEOREM AnthropicReports == Spec => []AnthropicReportsBreak
<1>1. CallInv => AnthropicReportsBreak
  <2> SUFFICES ASSUME CallInv, backend = "anthropic", consumer = "ended", source = "broken"
               PROVE  received # <<>> /\ received[Len(received)] = "err"
    BY DEF AnthropicReportsBreak, BreakIsReported
  <2>1. pump = "ended" /\ channel = <<>> /\ pending = <<>>
    BY DEF CallInv, StageInv, TypeOK
  <2>2. received = parsed
    BY <2>1, ConcatEmptySeq DEF CallInv, StreamIsFaithful, TypeOK
  <2> QED
    BY <2>1, <2>2 DEF CallInv, ReportInv, EndsInError
<1> QED
  BY <1>1, CallAlways, PTL

=============================================================================
