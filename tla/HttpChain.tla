------------------------------ MODULE HttpChain ------------------------------
(***************************************************************************)
(* One request through the middlewares that production.Serve mounts, in    *)
(* their order: Recover, AccessLog, CORS, (Compress, BodyLimit,) Timeout,  *)
(* HTTPMetrics; then, as an application mounts them on a route, the jwt    *)
(* middleware, the idempotency middleware with its recorder, and a handler *)
(* that may do anything with its ResponseWriter.                           *)
(*                                                                         *)
(* With a handler timeout the inner part runs in a goroutine of its own    *)
(* (http.TimeoutHandler) and writes into a buffer; the serving goroutine   *)
(* waits for it, for its panic or for the context.  Without one there is   *)
(* one goroutine and no buffer.                                            *)
(***************************************************************************)
EXTENDS JwtVerify, Integers, Sequences

CONSTANT MaxOps   \* bound: calls of the handler on its writer

ASSUME MaxOpsAssumption == MaxOps \in Nat

Unset == 0 - 1   \* no status

VARIABLES
  timeoutOn,  \* configuration: handler_timeout_ms > 0
  mode,       \* configuration: the verifier
  preflight,  \* the method is OPTIONS
  auth,       \* the Authorization header
  expired,    \* exp has passed
  serve,      \* where the serving goroutine is
  handler,    \* where the inner part is
  ctxDone,    \* the request's context: "no", "deadline", "gone" (client)
  cut,        \* the TimeoutHandler has answered: later writes fail
  ops,        \* calls the handler has made
  header,     \* values of the application's header in the handler's header map
  net,        \* the response on the connection
  buffer,     \* the TimeoutHandler's buffer
  sw,         \* status in the access log's statusWriter
  met,        \* status in the metrics' statusWriter
  rec,        \* the recorder of the idempotency middleware
  stored,     \* what it stored in Redis, Empty for nothing
  counted,    \* the status label of the metrics, or Unset
  route,      \* whose request chi's routing context describes: "own" or "other"
  label,      \* whose route the metrics counted
  logged,     \* the status in the access log, or Unset
  recovered,  \* Recover caught a panic
  refusal,    \* why the jwt middleware refused, or "none"
  rewrote     \* history: WriteHeader was called when the answer had begun

config == <<timeoutOn, mode, preflight, auth>>
inner  == <<handler, ops, header, met, rec, stored, counted, label, refusal, rewrote>>
outer  == <<serve, sw, logged, recovered>>

vars == <<config, expired, ctxDone, cut, net, buffer, route, inner, outer>>

Codes == {200, 201, 404}

Pieces == {"chunk", "problem", "timeout"}

Empty == [status |-> 0, headers |-> 0, body |-> <<>>]

Init ==
  /\ timeoutOn \in BOOLEAN /\ mode \in Modes
  /\ preflight \in BOOLEAN /\ auth \in Authorizations
  /\ expired = FALSE
  /\ serve = "arrived" /\ handler = "off"
  /\ ctxDone = "no" /\ cut = FALSE
  /\ ops = 0 /\ header = 0
  /\ net = Empty /\ buffer = Empty /\ rec = Empty
  /\ sw = 0 /\ met = 0
  /\ stored = Empty /\ counted = Unset /\ logged = Unset
  /\ route = "own" /\ label = "none"
  /\ recovered = FALSE /\ refusal = "none" /\ rewrote = FALSE
----------------------------------------------------------------------------
(* Response writers *)

\* Mutant: the comparison of Timeout is the wrong way round.
NotBuffered == ~timeoutOn

\* Timeout: a positive duration mounts http.TimeoutHandler.
Buffered == timeoutOn

\* net/http and the timeoutWriter: the first WriteHeader counts; a Write
\* before it makes it 200.
Started(r, code, h) == IF r.status # 0 THEN r ELSE [r EXCEPT !.status = code, !.headers = h]

Written(r, piece, h) == [Started(r, 200, h) EXCEPT !.body = Append(@, piece)]

\* Mutant: Write does not set the status.
SwWriteKeeps(status) == status

\* statusWriter: the last WriteHeader is noted, and 200 for a Write before any.
SwHeader(status, code) == code

SwWrite(status) == IF status = 0 THEN 200 ELSE status

\* recorder: as statusWriter, and WriteHeader copies the first value of every
\* header there is at that moment.
RecHeader(code) ==
  [rec EXCEPT !.status = code, !.headers = IF header > 0 THEN 1 ELSE @]

\* Mutant: Write sets the status and does not keep the bytes.
RecWriteStatusOnly(piece) == [rec EXCEPT !.status = SwWrite(@)]

\* Mutant: Write keeps the bytes and leaves the status to WriteHeader.
RecWriteBodyOnly(piece) == [rec EXCEPT !.body = Append(@, piece)]

RecWrite(piece) == [rec EXCEPT !.status = SwWrite(@), !.body = Append(@, piece)]

\* What is below the metrics' writer: the buffer, or the access log's writer
\* and the connection.
HeaderBelow(code) ==
  IF Buffered
  THEN /\ buffer' = IF cut THEN buffer ELSE Started(buffer, code, 0)
       /\ UNCHANGED <<net, sw>>
  ELSE /\ sw' = SwHeader(sw, code)
       /\ net' = Started(net, code, header)
       /\ UNCHANGED buffer

WriteBelow(piece) ==
  IF Buffered
  THEN /\ buffer' = IF cut THEN buffer ELSE Written(buffer, piece, 0)
       /\ UNCHANGED <<net, sw>>
  ELSE /\ sw' = SwWrite(sw)
       /\ net' = Written(net, piece, header)
       /\ UNCHANGED buffer

\* ApiError.WriteJSON on the writer below the metrics.
ProblemBelow(code) ==
  IF Buffered
  THEN /\ buffer' = IF cut THEN buffer ELSE Written(Started(buffer, code, 0), "problem", 0)
       /\ UNCHANGED <<net, sw>>
  ELSE /\ sw' = code
       /\ net' = Written(Started(net, code, header), "problem", header)
       /\ UNCHANGED buffer
----------------------------------------------------------------------------
(* The serving goroutine *)

\* Up to CORS, which answers a preflight itself, or on to the inner part.
Arrive ==
  /\ serve = "arrived"
  /\ \/ /\ preflight
        /\ sw' = SwHeader(sw, 204)
        /\ net' = Started(net, 204, 0)
        /\ serve' = "logging"
        /\ UNCHANGED handler
     \/ /\ ~preflight
        /\ handler' = "verify"
        /\ serve' = IF Buffered THEN "waiting" ELSE "inside"
        /\ UNCHANGED <<sw, net>>
  /\ UNCHANGED <<config, route, expired, ctxDone, cut, buffer, ops, header, met, rec, stored,
                 counted, label, refusal, rewrote, logged, recovered>>

\* TimeoutHandler's select, first case: the handler's panic goes on here.
Repanic ==
  /\ serve = "waiting" /\ handler = "panicked"
  /\ serve' = "unwinding"
  /\ UNCHANGED <<config, route, expired, ctxDone, cut, net, buffer, inner, sw, logged, recovered>>

\* Second case: done.  Headers, status and buffer go to the connection.
Flush ==
  /\ serve = "waiting" /\ handler = "ended"
  /\ LET code == IF buffer.status = 0 THEN 200 ELSE buffer.status
     IN  /\ sw' = SwHeader(sw, code)
         /\ net' = [status |-> code, headers |-> header, body |-> buffer.body]
  /\ serve' = "logging"
  /\ UNCHANGED <<config, route, expired, ctxDone, cut, buffer, inner, logged, recovered>>

\* Third case: the context is done; 503, and the handler is left behind.
CutOff ==
  /\ serve = "waiting" /\ ctxDone # "no"
  /\ sw' = SwHeader(sw, 503)
  /\ net' = [status |-> 503, headers |-> 0,
             body |-> IF ctxDone = "deadline" THEN <<"timeout">> ELSE <<>>]
  /\ cut' = TRUE
  /\ serve' = "logging"
  /\ UNCHANGED <<config, route, expired, ctxDone, buffer, inner, logged, recovered>>

\* Mutant: the panic is logged and not answered.
RecoverLogsOnly ==
  /\ serve = "unwinding"
  /\ recovered' = TRUE
  /\ serve' = "finishing"
  /\ UNCHANGED <<config, route, expired, ctxDone, cut, net, buffer, inner, sw, logged>>

\* Recover: a panic passes AccessLog by and is answered on the connection,
\* after what has been sent on it already.
Recover ==
  /\ serve = "unwinding"
  /\ LET h == IF Buffered THEN 0 ELSE header
     IN  net' = Written(Started(net, 500, h), "problem", h)
  /\ recovered' = TRUE
  /\ serve' = "finishing"
  /\ UNCHANGED <<config, route, expired, ctxDone, cut, buffer, inner, sw, logged>>

AccessLog ==
  /\ serve = "logging"
  /\ logged' = sw
  /\ serve' = "finishing"
  /\ UNCHANGED <<config, route, expired, ctxDone, cut, net, buffer, inner, sw, recovered>>

\* net/http ends the response.
Finish ==
  /\ serve = "finishing"
  /\ net' = Started(net, 200, IF Buffered THEN 0 ELSE header)
  /\ serve' = "done"
  /\ UNCHANGED <<config, route, expired, ctxDone, cut, buffer, inner, sw, logged, recovered>>

\* The TimeoutHandler's timer.
Deadline ==
  /\ serve = "waiting" /\ ctxDone = "no"
  /\ ctxDone' = "deadline"
  /\ UNCHANGED <<config, route, expired, cut, net, buffer, inner, outer>>

\* The client closes the connection.
ClientGone ==
  /\ serve \in {"waiting", "inside"} /\ ctxDone = "no"
  /\ ctxDone' = "gone"
  /\ UNCHANGED <<config, route, expired, cut, net, buffer, inner, outer>>
\* The router has returned: its routing context goes back to a pool, and the
\* next request makes it its own.
Reuse ==
  /\ serve = "done" /\ route = "own"
  /\ handler \notin {"off", "ended", "panicked"}
  /\ route' = "other"
  /\ UNCHANGED <<config, expired, ctxDone, cut, net, buffer, inner, outer>>
----------------------------------------------------------------------------
(* The inner part *)

\* The inner part is over; without a buffer the serving goroutine goes on.
Resume(next) == serve' = IF Buffered THEN serve ELSE next

Refuse(reason) ==
  /\ refusal' = reason
  /\ met' = SwWrite(SwHeader(met, 401))
  /\ ProblemBelow(401)
  /\ handler' = "counting"
  /\ UNCHANGED <<config, route, expired, ctxDone, cut, ops, header, rec, stored, counted, label,
                 rewrote, serve, logged, recovered>>

\* jwt.Middleware up to jwt.Parse.
Verify ==
  /\ handler = "verify"
  /\ \/ ~HasBearer(auth) /\ Refuse("missing")
     \/ /\ HasBearer(auth)
        /\ \/ ~Parses(mode, auth, expired) /\ Refuse("signature")
           \/ /\ Parses(mode, auth, expired)
              /\ handler' = "validate"
              /\ UNCHANGED <<config, route, expired, ctxDone, cut, net, buffer, outer, ops, header,
                             met, rec, stored, counted, label, refusal, rewrote>>

\* The rest of parseAndValidate.
Validate ==
  /\ handler = "validate"
  /\ \/ ClaimsError(auth, expired) # "none" /\ Refuse(ClaimsError(auth, expired))
     \/ /\ ClaimsError(auth, expired) = "none"
        /\ handler' = "run"
        /\ UNCHANGED <<config, route, expired, ctxDone, cut, net, buffer, outer, ops, header,
                       met, rec, stored, counted, label, refusal, rewrote>>

TokenExpires ==
  /\ ~expired /\ HasBearer(auth)
  /\ serve = "arrived" \/ handler \in {"verify", "validate"}
  /\ expired' = TRUE
  /\ UNCHANGED <<config, route, ctxDone, cut, net, buffer, inner, outer>>

Operation == handler = "run" /\ ops < MaxOps /\ ops' = ops + 1

AddHeader ==
  /\ Operation
  /\ header < 2
  /\ header' = header + 1
  /\ UNCHANGED <<config, route, expired, ctxDone, cut, net, buffer, outer, handler,
                 met, rec, stored, counted, label, refusal, rewrote>>

WriteHeader(code) ==
  /\ Operation
  /\ rec' = RecHeader(code)
  /\ met' = SwHeader(met, code)
  /\ HeaderBelow(code)
  /\ rewrote' = (rewrote \/ rec.status # 0)
  /\ UNCHANGED <<config, route, expired, ctxDone, cut, handler, header, stored, counted, label,
                 refusal, serve, logged, recovered>>

Write ==
  /\ Operation
  /\ rec' = RecWrite("chunk")
  /\ met' = SwWrite(met)
  /\ WriteBelow("chunk")
  /\ UNCHANGED <<config, route, expired, ctxDone, cut, handler, header, stored, counted, label,
                 refusal, rewrote, serve, logged, recovered>>

\* The handler panics: past the recorder and the metrics.
Panic ==
  /\ handler = "run"
  /\ handler' = "panicked"
  /\ Resume("unwinding")
  /\ UNCHANGED <<config, route, expired, ctxDone, cut, net, buffer, sw, logged, recovered, ops,
                 header, met, rec, stored, counted, label, refusal, rewrote>>

IsSuccess(status) == status >= 200 /\ status < 300

\* The handler returns to the idempotency middleware.
Return ==
  /\ handler = "run"
  /\ handler' = IF IsSuccess(rec.status) THEN "storing" ELSE "counting"
  /\ UNCHANGED <<config, route, expired, ctxDone, cut, net, buffer, outer, ops, header,
                 met, rec, stored, counted, label, refusal, rewrote>>

\* put uses the request's context: once that is done the command fails, unless
\* it was under way already.  Redis itself is up.
Put ==
  /\ handler = "storing"
  /\ stored' \in IF ctxDone = "no" THEN {rec} ELSE {rec, Empty}
  /\ handler' = "counting"
  /\ UNCHANGED <<config, route, expired, ctxDone, cut, net, buffer, outer, ops, header,
                 met, rec, counted, label, refusal, rewrote>>

\* HTTPMetrics after next.ServeHTTP.
Count ==
  /\ handler = "counting"
  /\ counted' = IF met = 0 THEN 200 ELSE met
  /\ label' = route
  /\ handler' = "ended"
  /\ Resume("logging")
  /\ UNCHANGED <<config, route, expired, ctxDone, cut, net, buffer, sw, logged, recovered, ops,
                 header, met, rec, stored, refusal, rewrote>>
----------------------------------------------------------------------------
Serving == Arrive \/ Repanic \/ Flush \/ CutOff \/ Recover \/ AccessLog \/ Finish

Handling ==
  \/ Verify \/ Validate
  \/ AddHeader \/ Write \/ Panic \/ Return \/ Put \/ Count
  \/ \E code \in Codes : WriteHeader(code)

Over == serve = "done" /\ handler \in {"off", "ended", "panicked"} /\ UNCHANGED vars

Next == Serving \/ Handling \/ Deadline \/ ClientGone \/ TokenExpires \/ Reuse \/ Over

\* The serving goroutine runs and the timer of a TimeoutHandler fires.  Nothing
\* is assumed of the handler, which may never return.
Fairness == WF_vars(Serving) /\ WF_vars(Deadline)

Spec == Init /\ [][Next]_vars /\ Fairness
----------------------------------------------------------------------------
(* Properties *)

Responses == [status : Nat, headers : 0 .. 2, body : Seq(Pieces)]

TypeOK ==
  /\ timeoutOn \in BOOLEAN /\ mode \in Modes /\ preflight \in BOOLEAN
  /\ auth \in Authorizations /\ expired \in BOOLEAN
  /\ serve \in {"arrived", "waiting", "inside", "unwinding", "logging", "finishing", "done"}
  /\ handler \in {"off", "verify", "validate", "run", "storing", "counting", "ended", "panicked"}
  /\ serve = "waiting" => timeoutOn
  /\ ctxDone \in {"no", "deadline", "gone"} /\ cut \in BOOLEAN
  /\ ops \in 0 .. MaxOps /\ header \in 0 .. 2
  /\ net \in Responses /\ buffer \in Responses /\ rec \in Responses
  /\ sw \in Nat /\ met \in Nat
  /\ stored \in Responses
  /\ counted \in Nat \cup {Unset} /\ logged \in Nat \cup {Unset}
  /\ route \in {"own", "other"} /\ label \in {"none", "own", "other"}
  /\ recovered \in BOOLEAN /\ rewrote \in BOOLEAN
  /\ refusal \in {"none", "missing", "signature", "expired", "audience", "issuer"}

Done == serve = "done"

\* With a handler timeout the client never gets a part of an answer: it gets
\* all that a handler wrote that returned, or a problem, or the 503 with the
\* timeout's own text and none of the handler's, whatever the order of the
\* handler's writes, its panic and the deadline.
AnswerIsWhole ==
  Done /\ timeoutOn =>
    \/ net.body = <<"problem">> /\ net.status \in {401, 500}
    \/ net.status = 503 /\ net.body = IF ctxDone = "deadline" THEN <<"timeout">> ELSE <<>>
    \/ preflight /\ net.status = 204 /\ net.body = <<>>
    \/ handler = "ended" /\ net.body = buffer.body /\ net.body = rec.body

\* "any panic becomes application/problem+json 500" - it does when nothing of
\* the answer had been sent, which is always so with a handler timeout.
PanicBecomes500 ==
  Done /\ recovered /\ (timeoutOn \/ rec.status = 0) =>
    net.status = 500 /\ net.body = <<"problem">>

\* What the client gets, under panics and deadlines.
AnswerIsRight == AnswerIsWhole /\ PanicBecomes500

\* The access log tells the status the client got, for preflights, refusals
\* and timeouts too.  Two exceptions, both without a handler timeout: 0 stands
\* for the 200 of a handler that wrote nothing, and a late WriteHeader is
\* logged although the client got the first status.  A panic is in no access log.
LogIsTrue ==
  Done => \/ recovered /\ logged = Unset
          \/ ~recovered /\ logged = net.status
          \/ ~timeoutOn /\ logged = 0 /\ rec.status = 0 /\ net.status = 200
          \/ ~timeoutOn /\ rewrote /\ logged = rec.status

\* Every handler that returned is counted, with the status that the client got
\* unless the context ended first or the handler called WriteHeader too late.
CountIsTrue ==
  /\ handler = "ended" => counted # Unset
  /\ Done /\ counted # Unset /\ ctxDone = "no" /\ ~rewrote => counted = net.status

\* A request is counted under another one's route only if it outlived its own
\* answer: HTTPMetrics reads the routing context after the handler, inside the
\* timeout, and by then the router may have given it away.
RouteIsOwn == label = "other" => Done /\ net.status = 503

\* What is recorded of a request, for those who read logs and dashboards.
RecordsAreTrue == LogIsTrue /\ CountIsTrue /\ RouteIsOwn

\* A replay has the body of the answer it stands for, if that answer was sent,
\* and its status unless the handler called WriteHeader too late: the recorder
\* keeps the last status, the client got the first, so that even a failure may
\* be replayed as a success.  Of the headers it has those that there were at
\* WriteHeader, one value of each; a handler that never calls it is replayed
\* without any.
ReplayIsOriginal ==
  Done /\ stored # Empty /\ ctxDone = "no" =>
    /\ stored.body = net.body
    /\ stored.status = net.status \/ rewrote
    /\ stored.headers <= 1 /\ (stored.headers <= net.headers \/ rewrote)

\* A handler returned and the client got what it wrote.
ServedByHandler == Done /\ handler = "ended" /\ refusal = "none" /\ ~cut

\* A client that was told of a success finds it again when it retries with its
\* key, and nothing executes a second time, but for three reasons: the context
\* ended before put, the handler wrote nothing (the client gets an implicit
\* 200 and the recorder has no status), or a late WriteHeader made the recorder
\* believe in a failure.  The other way round, a client that was told of a
\* failure does not find a success unless WriteHeader was late.
SuccessIsKept ==
  ServedByHandler =>
    /\ IsSuccess(net.status) /\ stored = Empty =>
         \/ ctxDone # "no"
         \/ rec.status = 0 /\ net.body = <<>>
         \/ rewrote /\ ~IsSuccess(rec.status)
    /\ ~IsSuccess(net.status) /\ stored # Empty => rewrote

\* A handler behind the jwt middleware runs only for a genuine token that had
\* not expired when it was checked.
OnlyGenuineIsServed ==
  handler \in {"run", "storing", "panicked"} \/ ops > 0 =>
    HasBearer(auth) /\ Genuine(mode, auth) /\ ~expired

\* A genuine token is refused only when it has expired or has its audience in
\* an array; ErrExpired is seen only by a token that expires between the
\* library's look at the clock and the second one.
RefusalHasReason ==
  refusal # "none" =>
    \/ ~HasBearer(auth) /\ refusal = "missing"
    \/ HasBearer(auth) /\ ~Genuine(mode, auth)
    \/ expired /\ refusal \in {"signature", "expired"}
    \/ auth.aud = "list" /\ refusal = "audience"

\* What the verifiers say of a token, against the standard.
VerdictIsRight == OnlyGenuineIsServed /\ RefusalHasReason

\* With a handler timeout every request is answered, though its handler may
\* never return.
AnswersInTime == timeoutOn ~> Done
=============================================================================
