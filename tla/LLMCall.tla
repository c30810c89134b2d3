------------------------------ MODULE LLMCall ------------------------------
(***************************************************************************)
(* One call of the llm integration (src/integration/llm): Chat, Embed or   *)
(* ChatStream of a Handle, routed to a backend by the prefix of the model. *)
(* A stream is a goroutine (the pump) that reads server-sent events from   *)
(* the response body and sends chunks into a buffered channel, and a       *)
(* consumer that reads the channel.                                        *)
(***************************************************************************)
EXTENDS Naturals, Sequences

CONSTANTS DefaultChat,   \* the default chat model of the configuration
          DefaultEmbed,  \* the default embedding model
          Capacity,      \* room in the channel (16)
          MaxEvents      \* bound: the events a response holds

ASSUME CapacityAssumption == Capacity \in Nat \ {0} /\ MaxEvents \in Nat

\* A model name as SplitModel and the table of backends see it.
Models == {"empty", "no_prefix", "unknown_prefix", "known_prefix"}

ASSUME DefaultsAssumption == DefaultChat \in Models /\ DefaultEmbed \in Models

VARIABLES
  backend,    \* the one the model names: "anthropic" or "openai" (compatible)
  call,       \* "idle", "sending" (client.Do), "returned"
  kind,       \* which of the three calls it is
  err,        \* kind of the error it returned, "none" if none
  ctxDone,    \* the caller's context is cancelled
  body,       \* response body: "none", "open", "closed"
  source,     \* what the body yields: "events", "eof", "broken"
  events,     \* how many events the pump has read
  pump,       \* where the pump goroutine is
  pending,    \* chunks of the event in hand that are not sent yet
  channel,    \* the buffer of the channel
  closed,     \* the channel is closed
  consumer,   \* "none", "reading", "left" (no longer reads), "ended"
  parsed,     \* chunks the pump has made of the events, in order (history)
  received    \* chunks the consumer has read (history)

vars == <<backend, call, kind, err, ctxDone, body, source, events, pump,
          pending, channel, closed, consumer, parsed, received>>

streamVars == <<source, events, pump, pending, channel, closed, consumer,
                parsed, received>>

Init ==
  /\ backend \in {"anthropic", "openai"}
  /\ call = "idle"
  /\ kind = "none"
  /\ err = "none"
  /\ ctxDone = FALSE
  /\ body = "none"
  /\ source = "events"
  /\ events = 0
  /\ pump = "off"
  /\ pending = <<>>
  /\ channel = <<>>
  /\ closed = FALSE
  /\ consumer = "none"
  /\ parsed = <<>>
  /\ received = <<>>
----------------------------------------------------------------------------
\* The error of looking a model up in the table of backends.
Lookup(model) ==
  CASE model \in {"empty", "no_prefix"} -> "invalid_request"
    [] model = "unknown_prefix"         -> "unknown_provider"
    [] OTHER                            -> "none"

ResolveChat(model) == Lookup(IF model = "empty" THEN DefaultChat ELSE model)

ResolveEmbed(model) == Lookup(IF model = "empty" THEN DefaultEmbed ELSE model)

Resolve(k, model) ==
  IF k = "embed" THEN ResolveEmbed(model) ELSE ResolveChat(model)

\* The errors of building the HTTP request; Anthropic has no embeddings.
AnthropicBuild(k) == IF k = "embed" THEN {"invalid_request"}
                                    ELSE {"none", "invalid_request"}

OpenAIBuild(k) == {"none", "invalid_request"}

Build(k) == IF backend = "anthropic" THEN AnthropicBuild(k) ELSE OpenAIBuild(k)

Refused(k, error) ==
  /\ call' = "returned"
  /\ kind' = k
  /\ err' = error
  /\ UNCHANGED <<backend, ctxDone, body, streamVars>>

\* Handle.Chat, Handle.ChatStream, Handle.Embed up to client.Do.
Call(k, model) ==
  /\ call = "idle"
  /\ \/ /\ k = "embed"                      \* texts is empty
        /\ Refused(k, "invalid_request")
     \/ /\ Resolve(k, model) # "none"
        /\ Refused(k, Resolve(k, model))
     \/ /\ Resolve(k, model) = "none"
        /\ \E b \in Build(k) :
             \/ b # "none" /\ Refused(k, b)
             \/ /\ b = "none"
                /\ call' = "sending"
                /\ kind' = k
                /\ UNCHANGED <<backend, err, ctxDone, body, streamVars>>

\* client.Do fails: the client's timeout or the context, or the transport.
DoFails ==
  /\ call = "sending"
  /\ call' = "returned"
  /\ err' \in {"timeout", "transport"}
  /\ UNCHANGED <<backend, kind, ctxDone, body, streamVars>>

\* The status is not 2xx: the body is read for the message, and closed.
BadStatus ==
  /\ call = "sending"
  /\ call' = "returned"
  /\ err' = "bad_status"
  /\ body' = "closed"
  /\ UNCHANGED <<backend, kind, ctxDone, streamVars>>

\* Chat and Embed read and decode the whole body and close it.  A chat
\* without choices is an error of the compatible API too.
AnthropicChat == {"none", "decode"}

OpenAIChat == {"none", "decode"}

OpenAIEmbed == {"none", "decode"}

Decode ==
  /\ call = "sending"
  /\ kind \in {"chat", "embed"}
  /\ call' = "returned"
  /\ err' \in CASE kind = "embed"        -> OpenAIEmbed
                [] backend = "anthropic" -> AnthropicChat
                [] OTHER                 -> OpenAIChat
  /\ body' = "closed"
  /\ UNCHANGED <<backend, kind, ctxDone, streamVars>>

\* ChatStream makes the channel, starts the pump and returns.
StartPump ==
  /\ call = "sending"
  /\ kind = "stream"
  /\ call' = "returned"
  /\ body' = "open"
  /\ source' = IF ctxDone THEN "broken" ELSE "events"
  /\ pump' = "scan"
  /\ consumer' = "reading"
  /\ UNCHANGED <<backend, kind, err, ctxDone, events, pending, channel, closed,
                 parsed, received>>
----------------------------------------------------------------------------
\* The pump still reads the body.
Reading == pump \in {"scan", "send"}

\* The caller cancels; reads of the body then fail.
Cancel ==
  /\ call # "idle"
  /\ ~ctxDone
  /\ ctxDone' = TRUE
  /\ source' = IF Reading /\ source = "events" THEN "broken" ELSE source
  /\ UNCHANGED <<backend, call, kind, err, body, events, pump, pending,
                 channel, closed, consumer, parsed, received>>

\* Mutant: the client is built without a timeout.
SourceStays == FALSE

\* The response ends, the connection breaks, or the client's timeout, which
\* covers the body too, passes.
SourceEnds ==
  /\ Reading
  /\ source = "events"
  /\ source' \in {"eof", "broken"}
  /\ UNCHANGED <<backend, call, kind, err, ctxDone, body, events, pump,
                 pending, channel, closed, consumer, parsed, received>>

\* The chunks an event is turned into.  "noise" is everything that yields
\* none: other lines, JSON that does not parse, other types, empty deltas.
AnthropicChunks(event) ==
  CASE event = "text" -> <<"text">>
    [] event = "stop" -> <<"done">>
    [] OTHER          -> <<>>

\* One event of the compatible API can hold a delta and a finish reason.
OpenAIChunks(event) ==
  CASE event = "text"      -> <<"text">>
    [] event = "stop"      -> <<"done">>
    [] event = "text_stop" -> <<"text", "done">>
    [] OTHER               -> <<>>

Chunks(event) == IF backend = "anthropic" THEN AnthropicChunks(event)
                                          ELSE OpenAIChunks(event)

\* scanner.Scan yields a line.
ScanEvent(event) ==
  /\ pump = "scan"
  /\ source = "events"
  /\ events < MaxEvents
  /\ events' = events + 1
  /\ pending' = Chunks(event)
  /\ parsed' = parsed \o Chunks(event)
  /\ pump' = IF Chunks(event) = <<>> THEN "scan" ELSE "send"
  /\ UNCHANGED <<backend, call, kind, err, ctxDone, body, source, channel,
                 closed, consumer, received>>

\* data: [DONE]
ScanDone ==
  /\ pump = "scan"
  /\ source = "events"
  /\ events < MaxEvents
  /\ events' = events + 1
  /\ pump' = "close_body"
  /\ UNCHANGED <<backend, call, kind, err, ctxDone, body, source, pending,
                 channel, closed, consumer, parsed, received>>

\* Mutant: no pump asks scanner.Err.
ScanEndsSilently ==
  /\ pump = "scan"
  /\ source # "events"
  /\ pump' = "close_body"
  /\ UNCHANGED <<backend, call, kind, err, ctxDone, body, source, events,
                 pending, channel, closed, consumer, parsed, received>>

\* scanner.Scan is false.  Only the Anthropic pump asks scanner.Err.
ScanEnds ==
  /\ pump = "scan"
  /\ source # "events"
  /\ \/ /\ source = "broken"
        /\ backend = "anthropic"
        /\ pump' = "report"
        /\ pending' = <<"err">>
        /\ parsed' = Append(parsed, "err")
     \/ /\ source = "eof" \/ backend = "openai"
        /\ pump' = "close_body"
        /\ UNCHANGED <<pending, parsed>>
  /\ UNCHANGED <<backend, call, kind, err, ctxDone, body, source, events,
                 channel, closed, consumer, received>>

\* Mutant: the rest of an event's chunks is forgotten.
AfterSendOnce == IF pump = "send" THEN "scan" ELSE "close_body"

\* The pump sends the next chunk of the event, or goes on.
AfterSend == IF Len(pending) > 1 THEN pump
             ELSE IF pump = "send" THEN "scan" ELSE "close_body"

\* Mutant: a send that does not block drops the chunk when the buffer is full.
SendOrDrop ==
  /\ pump \in {"send", "report"}
  /\ channel' = IF Len(channel) < Capacity THEN Append(channel, Head(pending))
                                           ELSE channel
  /\ pending' = Tail(pending)
  /\ pump' = AfterSend
  /\ UNCHANGED <<backend, call, kind, err, ctxDone, body, source, events,
                 closed, consumer, parsed, received>>

\* out <- chunk blocks while the buffer is full, whatever the context does.
Send ==
  /\ pump \in {"send", "report"}
  /\ Len(channel) < Capacity
  /\ channel' = Append(channel, Head(pending))
  /\ pending' = Tail(pending)
  /\ pump' = AfterSend
  /\ UNCHANGED <<backend, call, kind, err, ctxDone, body, source, events,
                 closed, consumer, parsed, received>>

\* Mutant: the defers in the other order.
CloseChannelFirst ==
  /\ pump = "close_body"
  /\ closed' = TRUE
  /\ pump' = "close_channel"
  /\ UNCHANGED <<backend, call, kind, err, ctxDone, body, source, events,
                 pending, channel, consumer, parsed, received>>

\* The deferred calls: the body first, then the channel.
CloseBody ==
  /\ pump = "close_body"
  /\ body' = "closed"
  /\ pump' = "close_channel"
  /\ UNCHANGED <<backend, call, kind, err, ctxDone, source, events, pending,
                 channel, closed, consumer, parsed, received>>

CloseChannel ==
  /\ pump = "close_channel"
  /\ closed' = TRUE
  /\ pump' = "ended"
  /\ UNCHANGED <<backend, call, kind, err, ctxDone, body, source, events,
                 pending, channel, consumer, parsed, received>>
----------------------------------------------------------------------------
Receive ==
  /\ consumer = "reading"
  /\ channel # <<>>
  /\ received' = Append(received, Head(channel))
  /\ channel' = Tail(channel)
  /\ UNCHANGED <<backend, call, kind, err, ctxDone, body, source, events, pump,
                 pending, closed, consumer, parsed>>

\* The range loop over the channel ends.
SeeClosed ==
  /\ consumer = "reading"
  /\ channel = <<>>
  /\ closed
  /\ consumer' = "ended"
  /\ UNCHANGED <<backend, call, kind, err, ctxDone, body, source, events, pump,
                 pending, channel, closed, parsed, received>>

\* The consumer has what it wanted, or its own caller has gone.
Leave ==
  /\ consumer = "reading"
  /\ consumer' = "left"
  /\ UNCHANGED <<backend, call, kind, err, ctxDone, body, source, events, pump,
                 pending, channel, closed, parsed, received>>

Events == {"noise", "text", "stop", "text_stop"}

Pump == \/ \E e \in Events : ScanEvent(e)
        \/ ScanDone \/ ScanEnds \/ Send \/ CloseBody \/ CloseChannel

Consume == Receive \/ SeeClosed

\* The call is over and nothing is left that could move.
Over ==
  /\ call = "returned"
  /\ ctxDone
  /\ err # "none" \/ kind # "stream" \/ consumer \in {"ended", "left"}
  /\ UNCHANGED vars

Next ==
  \/ \E k \in {"chat", "embed", "stream"}, m \in Models : Call(k, m)
  \/ DoFails \/ BadStatus \/ Decode \/ StartPump
  \/ Cancel \/ SourceEnds
  \/ Pump
  \/ Consume \/ Leave
  \/ Over

\* The pump runs; the client's timeout, always positive, ends the source; a
\* consumer that has not left keeps reading.
Fairness == WF_vars(Pump) /\ WF_vars(SourceEnds) /\ WF_vars(Consume)

Spec == Init /\ [][Next]_vars /\ Fairness
----------------------------------------------------------------------------
(***************************************************************************)
(* Properties                                                              *)
(***************************************************************************)
ChunkKinds == {"text", "done", "err"}

\* The variables have the types of the Go values they stand for; the channel
\* never holds more than its capacity, and the pump leaves an event only
\* when all its chunks are sent.
TypeOK ==
  /\ backend \in {"anthropic", "openai"}
  /\ call \in {"idle", "sending", "returned"}
  /\ kind \in {"none", "chat", "embed", "stream"}
  /\ err \in {"none", "invalid_request", "unknown_provider", "timeout",
              "transport", "bad_status", "decode"}
  /\ ctxDone \in BOOLEAN
  /\ body \in {"none", "open", "closed"}
  /\ source \in {"events", "eof", "broken"}
  /\ events \in 0 .. MaxEvents
  /\ pump \in {"off", "scan", "send", "report", "close_body", "close_channel",
               "ended"}
  /\ pending \in Seq(ChunkKinds)
  /\ pump \notin {"send", "report"} => pending = <<>>
  /\ channel \in Seq(ChunkKinds) /\ Len(channel) <= Capacity
  /\ closed \in BOOLEAN
  /\ consumer \in {"none", "reading", "left", "ended"}
  /\ parsed \in Seq(ChunkKinds)
  /\ received \in Seq(ChunkKinds)

\* What the consumer reads is what the events said, in order and without a
\* gap, also when the buffer is full or the stream is cut off: text is
\* delayed, never lost, and an error report never overtakes it.
StreamIsFaithful == received \o channel \o pending = parsed

\* A response body stays open only while a pump is there to close it, on
\* every error path; and when the consumer sees the channel end, the
\* connection has been given back.
BodyIsReleased ==
  /\ body = "open" => pump \notin {"off", "close_channel", "ended"}
  /\ closed => body = "closed"

\* A stream that broke off does not look like one that was completed: the
\* consumer that reads to the end of the channel finds an error at its end.
\* (StreamChunk.Err: "when non-nil, is a transport / decode failure".)
BreakIsReported ==
  consumer = "ended" /\ source = "broken" =>
    received # <<>> /\ received[Len(received)] = "err"

\* The Anthropic pump, which asks scanner.Err, keeps to that in every
\* interleaving of the break with a full channel and a cancelled context.
AnthropicReportsBreak == backend = "anthropic" => BreakIsReported

\* "The channel always closes" (Backend.ChatStream, Handle.ChatStream).
AlwaysCloses == (pump = "scan") ~> closed

\* It does for a consumer that reads on, whatever the source does.
ClosesForReaders == (pump = "scan") ~> (closed \/ consumer = "left")
=============================================================================
