-------------------------- MODULE HttpChainProofs --------------------------
(***************************************************************************)
(* What holds of a request in the middleware chain for every token, every  *)
(* sequence of calls of the handler on its writer, of any length, and      *)
(* every moment of a panic, a deadline and a client that leaves.           *)
(*                                                                         *)
(* Two goroutines write down the same answer in different places: the      *)
(* recorder, the metrics' writer, and either the timeout's buffer or the   *)
(* connection with the access log's writer.  ChainInv says how far these   *)
(* copies agree at each stage, and who may still change them.              *)
(***************************************************************************)
EXTENDS HttpChain, SequenceTheorems, TLAPS

Inside == handler \in {"verify", "validate", "run", "storing", "counting"}

Answered == serve \in {"logging", "finishing", "done"}

\* Where the two programs can be at the same time.
StageInv ==
  /\ handler = "off" <=> serve = "arrived" \/ preflight
  /\ preflight => serve = "arrived" \/ Answered
  /\ serve = "arrived" => net = Empty /\ sw = 0
  /\ ~timeoutOn /\ Inside => serve = "inside"
  /\ serve = "inside" => ~timeoutOn /\ Inside
  /\ serve = "unwinding" => handler = "panicked"
  /\ handler = "panicked" /\ Answered => recovered \/ cut
  /\ recovered => handler = "panicked" /\ ~cut /\ serve \in {"finishing", "done"}
  /\ Answered => preflight \/ recovered \/ cut \/ handler = "ended"
  /\ ~timeoutOn /\ handler = "ended" => Answered
  /\ cut => timeoutOn /\ ~preflight /\ ctxDone # "no" /\ Answered

\* Before the handler runs there is nothing to agree about.
FreshInv ==
  handler \in {"off", "verify", "validate"} =>
    /\ rec = Empty /\ buffer = Empty /\ met = 0 /\ header = 0 /\ ops = 0
    /\ refusal = "none" /\ ~rewrote
    /\ serve = "inside" => net = Empty /\ sw = 0

\* What the jwt middleware let through or refused.
TokenInv ==
  /\ handler = "validate" => HasBearer(auth) /\ Parses(mode, auth, FALSE)
  /\ handler \in {"run", "storing", "panicked"} => refusal = "none"
  /\ handler \in {"run", "storing", "counting", "ended", "panicked"} /\ refusal = "none" =>
       HasBearer(auth) /\ Genuine(mode, auth) /\ ~expired
  /\ ops > 0 => handler # "off" /\ refusal = "none"
  /\ RefusalHasReason

\* The recorder and the metrics' writer note the same status.
RecorderInv ==
  /\ refusal # "none" => rec = Empty /\ met = 401 /\ ~rewrote
  /\ refusal = "none" => met = rec.status
  /\ rec.status = 0 => rec = Empty
  /\ rec.headers <= header /\ rec.headers <= 1
  /\ rewrote => rec.status # 0

\* What a response has become of the handler's calls or of the refusal, up to
\* the status of a late WriteHeader.
Mirrors(r) ==
  IF refusal = "none"
  THEN /\ r.body = rec.body /\ (r.status = 0 <=> rec.status = 0)
       /\ ~rewrote => r.status = rec.status
  ELSE r.status = 401 /\ r.body = <<"problem">>

\* As long as nobody else answers, it is the handler's answer that is in the
\* buffer, or on the connection.
WriterInv ==
  /\ timeoutOn /\ ~cut => Mirrors(buffer)
  /\ ~timeoutOn /\ ~preflight /\ ~recovered /\ serve # "done" =>
       /\ Mirrors(net) /\ sw = met
       /\ net.status = 0 => net = Empty
       /\ ~rewrote => rec.headers <= net.headers

OrOK(status) == IF status = 0 THEN 200 ELSE status

Problem(status) == net.status = status /\ net.body = <<"problem">>

\* What is on the connection when somebody has answered.
AnswerInv ==
  /\ serve \in {"waiting", "unwinding"} /\ timeoutOn => net = Empty /\ ~cut
  /\ preflight /\ Answered => net.status = 204 /\ sw = 204
  /\ cut => net.status = 503 /\ sw = 503
  /\ recovered /\ (timeoutOn \/ rec.status = 0) => Problem(500)
  /\ Answered /\ timeoutOn /\ ~preflight /\ ~cut /\ ~recovered =>
       /\ net.status = OrOK(buffer.status) /\ net.body = buffer.body
       /\ net.headers = header /\ sw = net.status
  /\ Done /\ ~timeoutOn /\ ~preflight /\ ~recovered =>
       /\ IF refusal = "none"
          THEN /\ net.body = rec.body /\ (rec.status = 0 => net.status = 200)
               /\ ~rewrote => net.status = OrOK(rec.status)
          ELSE Problem(401)
       /\ sw = met
       /\ rec.status # 0 /\ ~rewrote => rec.headers <= net.headers

\* What the access log and the metrics have written down.
RecordInv ==
  /\ ~recovered /\ serve \in {"finishing", "done"} => logged = sw
  /\ recovered \/ serve \notin {"finishing", "done"} => logged = Unset
  /\ handler = "ended" => counted = OrOK(met)
  /\ handler # "ended" => counted = Unset
  /\ label = "other" => route = "other"
  /\ route = "other" => Done /\ cut

\* What is in Redis.
StoreInv ==
  /\ handler = "storing" => IsSuccess(rec.status)
  /\ stored # Empty => stored = rec /\ IsSuccess(rec.status) /\ handler \in {"counting", "ended"}
  /\ handler \in {"counting", "ended"} /\ IsSuccess(rec.status) /\ stored = Empty =>
       ctxDone # "no"

ChainInv ==
  /\ TypeOK /\ StageInv /\ FreshInv /\ TokenInv /\ RecorderInv
  /\ WriterInv /\ AnswerInv /\ RecordInv /\ StoreInv
----------------------------------------------------------------------------
(* Responses *)

LEMMA EmptyFacts ==
  /\ Empty \in Responses
  /\ Empty.status = 0 /\ Empty.headers = 0 /\ Empty.body = <<>>
BY EmptySeq DEF Empty, Responses

\* A response is made of three fields and nothing else.
LEMMA ResponseFacts ==
  ASSUME NEW r \in Responses
  PROVE  /\ r.status \in Nat /\ r.headers \in 0 .. 2 /\ r.body \in Seq(Pieces)
         /\ r = [status |-> r.status, headers |-> r.headers, body |-> r.body]
BY DEF Responses

LEMMA BodyReplaced ==
  ASSUME NEW r \in Responses, NEW body
  PROVE  [r EXCEPT !.body = body] =
           [status |-> r.status, headers |-> r.headers, body |-> body]
BY DEF Responses

\* The first status counts.
LEMMA StartedIs ==
  ASSUME NEW r \in Responses, NEW code, NEW h
  PROVE  /\ r.status # 0 => Started(r, code, h) = r
         /\ r.status = 0 =>
              Started(r, code, h) = [status |-> code, headers |-> h, body |-> r.body]
BY DEF Started, Responses

\* A Write keeps the status that there is, or makes it 200, and adds its bytes.
LEMMA WrittenIs ==
  ASSUME NEW r \in Responses, NEW piece, NEW h
  PROVE  Written(r, piece, h) =
           [status  |-> IF r.status # 0 THEN r.status ELSE 200,
            headers |-> IF r.status # 0 THEN r.headers ELSE h,
            body    |-> Append(r.body, piece)]
<1>1. CASE r.status # 0
  BY <1>1, BodyReplaced DEF Written, Started
<1>2. CASE r.status = 0
  <2> DEFINE s == [status |-> 200, headers |-> h, body |-> r.body]
  <2>1. Started(r, 200, h) = s
    BY <1>2, StartedIs
  <2>2. Written(r, piece, h) = [s EXCEPT !.body = Append(s.body, piece)]
    BY <2>1 DEF Written
  <2> QED
    BY <1>2, <2>2
<1> QED
  BY <1>1, <1>2

----------------------------------------------------------------------------
LEMMA InitEstablishes == Init => ChainInv
<1> SUFFICES ASSUME Init PROVE ChainInv
  OBVIOUS
<1> USE EmptyFacts DEF Init
<1>1. TypeOK
  <2>1. 0 \in 0 .. MaxOps /\ 0 \in 0 .. 2 /\ 0 \in Nat
    BY MaxOpsAssumption
  <2> QED
    BY <2>1, Zenon DEF TypeOK
<1>2. StageInv /\ FreshInv
  BY DEF StageInv, FreshInv, Inside, Answered
<1>3. TokenInv
  BY DEF TokenInv, RefusalHasReason
<1>4. RecorderInv
  BY DEF RecorderInv
<1>5. WriterInv
  BY DEF WriterInv, Mirrors
<1>6. AnswerInv
  BY DEF AnswerInv, Answered, Done
<1>7. RecordInv /\ StoreInv
  BY DEF RecordInv, StoreInv, IsSuccess
<1> QED
  BY <1>1, <1>2, <1>3, <1>4, <1>5, <1>6, <1>7 DEF ChainInv

----------------------------------------------------------------------------
\* What the inner part knows does not change as long as it does not move.
LEMMA InnerUntouched ==
  ASSUME ChainInv, UNCHANGED <<mode, auth, expired, buffer>>,
         UNCHANGED <<handler, ops, header, met, rec, refusal, rewrote>>,
         serve' = "inside" => UNCHANGED <<serve, net, sw>>
  PROVE  FreshInv' /\ TokenInv' /\ RecorderInv'
<1>1. FreshInv'
  BY DEF ChainInv, FreshInv
<1>2. TokenInv'
  BY Zenon DEF ChainInv, TokenInv, RefusalHasReason
<1>3. RecorderInv'
  BY DEF ChainInv, RecorderInv
<1> QED
  BY <1>1, <1>2, <1>3

----------------------------------------------------------------------------
(* The serving goroutine *)

LEMMA ArrivePreserves == ChainInv /\ Arrive => ChainInv'
<1> SUFFICES ASSUME ChainInv, Arrive PROVE ChainInv'
  OBVIOUS
<1> USE DEF ChainInv
<1>1. /\ serve = "arrived" /\ handler = "off" /\ net = Empty /\ sw = 0
      /\ UNCHANGED <<timeoutOn, mode, preflight, auth, route, expired, ctxDone, cut, buffer, ops,
                     header, met, rec, stored, counted, label, refusal, rewrote, logged,
                     recovered>>
  BY DEF Arrive, StageInv, config
<1>2. /\ preflight => /\ net' = [status |-> 204, headers |-> 0, body |-> <<>>]
                      /\ sw' = 204 /\ serve' = "logging" /\ handler' = "off"
      /\ ~preflight => /\ net' = Empty /\ sw' = 0 /\ handler' = "verify"
                       /\ serve' = IF timeoutOn THEN "waiting" ELSE "inside"
  BY <1>1, StartedIs, EmptyFacts DEF Arrive, SwHeader, Buffered
<1>3. TypeOK'
  <2>1. net' \in Responses
    BY <1>2, EmptySeq, EmptyFacts DEF Responses
  <2>2. sw' \in Nat
    BY <1>2
  <2> QED
    BY <1>1, <1>2, <2>1, <2>2 DEF TypeOK
<1>4. StageInv'
  BY <1>1, <1>2 DEF StageInv, Inside, Answered
<1>5. FreshInv' /\ TokenInv' /\ RecorderInv'
  BY <1>1, <1>2 DEF FreshInv, TokenInv, RecorderInv, RefusalHasReason
<1>6. WriterInv' /\ AnswerInv'
  BY <1>1, <1>2, EmptyFacts
     DEF WriterInv, AnswerInv, Mirrors, FreshInv, StageInv, Answered, Done, Problem
<1>7. RecordInv' /\ StoreInv'
  BY <1>1, <1>2 DEF RecordInv, StoreInv, Done, StageInv
<1> QED
  BY <1>3, <1>4, <1>5, <1>6, <1>7

LEMMA RepanicPreserves == ChainInv /\ Repanic => ChainInv'
<1> SUFFICES ASSUME ChainInv, Repanic PROVE ChainInv'
  OBVIOUS
<1> USE DEF ChainInv
<1>1. /\ serve = "waiting" /\ handler = "panicked" /\ serve' = "unwinding"
      /\ UNCHANGED <<timeoutOn, mode, preflight, auth, route, expired, ctxDone, cut, net, buffer,
                     handler, ops, header, met, rec, stored, counted, label, refusal, rewrote,
                     sw, logged, recovered>>
  BY DEF Repanic, config, inner
<1>2. TypeOK' /\ StageInv'
  BY <1>1 DEF TypeOK, StageInv, Inside, Answered
<1>3. FreshInv' /\ TokenInv' /\ RecorderInv'
  BY <1>1, InnerUntouched
<1>4. WriterInv' /\ AnswerInv'
  BY <1>1 DEF WriterInv, AnswerInv, Mirrors, StageInv, TypeOK, Answered, Done
<1>5. RecordInv' /\ StoreInv'
  BY <1>1 DEF RecordInv, StoreInv, Done
<1> QED
  BY <1>2, <1>3, <1>4, <1>5

LEMMA FlushPreserves == ChainInv /\ Flush => ChainInv'
<1> SUFFICES ASSUME ChainInv, Flush PROVE ChainInv'
  OBVIOUS
<1> USE DEF ChainInv
<1>1. /\ serve = "waiting" /\ handler = "ended" /\ serve' = "logging"
      /\ net' = [status |-> OrOK(buffer.status), headers |-> header, body |-> buffer.body]
      /\ sw' = OrOK(buffer.status)
      /\ UNCHANGED <<timeoutOn, mode, preflight, auth, route, expired, ctxDone, cut, buffer,
                     handler, ops, header, met, rec, stored, counted, label, refusal, rewrote,
                     logged, recovered>>
  BY DEF Flush, config, inner, SwHeader, OrOK
<1>2. TypeOK'
  BY <1>1, ResponseFacts DEF TypeOK, Responses, OrOK
<1>3. StageInv'
  BY <1>1 DEF TypeOK, StageInv, Inside, Answered
<1>4. FreshInv' /\ TokenInv' /\ RecorderInv'
  BY <1>1, InnerUntouched
<1>5. WriterInv' /\ AnswerInv'
  BY <1>1 DEF WriterInv, AnswerInv, Mirrors, StageInv, TypeOK, Answered, Done
<1>6. RecordInv' /\ StoreInv'
  BY <1>1 DEF RecordInv, StoreInv, Done
<1> QED
  BY <1>2, <1>3, <1>4, <1>5, <1>6

LEMMA CutOffPreserves == ChainInv /\ CutOff => ChainInv'
<1> SUFFICES ASSUME ChainInv, CutOff PROVE ChainInv'
  OBVIOUS
<1> USE DEF ChainInv
<1>1. /\ serve = "waiting" /\ ctxDone # "no" /\ serve' = "logging" /\ cut' = TRUE
      /\ sw' = 503
      /\ UNCHANGED <<timeoutOn, mode, preflight, auth, route, expired, ctxDone, buffer,
                     handler, ops, header, met, rec, stored, counted, label, refusal, rewrote,
                     logged, recovered>>
  BY DEF CutOff, config, inner, SwHeader
<1>2. net' \in Responses /\ net'.status = 503
  <2>1. <<"timeout">> \in Seq(Pieces) /\ <<>> \in Seq(Pieces)
    BY DEF Pieces
  <2> QED
    BY <2>1 DEF CutOff, Responses
<1>3. TypeOK'
  BY <1>1, <1>2 DEF TypeOK
<1>4. StageInv'
  BY <1>1 DEF TypeOK, StageInv, Inside, Answered
<1>5. FreshInv' /\ TokenInv' /\ RecorderInv'
  BY <1>1, InnerUntouched
<1>6. WriterInv'
  BY <1>1 DEF WriterInv, Mirrors, TypeOK
<1>7. AnswerInv'
  BY <1>1, <1>2 DEF AnswerInv, StageInv, TypeOK, Answered, Done
<1>8. RecordInv' /\ StoreInv'
  BY <1>1 DEF RecordInv, StoreInv, Done
<1> QED
  BY <1>3, <1>4, <1>5, <1>6, <1>7, <1>8

LEMMA RecoverPreserves == ChainInv /\ Recover => ChainInv'
<1> SUFFICES ASSUME ChainInv, Recover PROVE ChainInv'
  OBVIOUS
<1> USE DEF ChainInv
<1>1. /\ serve = "unwinding" /\ handler = "panicked"
      /\ serve' = "finishing" /\ recovered' = TRUE
      /\ UNCHANGED <<timeoutOn, mode, preflight, auth, route, expired, ctxDone, cut, buffer,
                     handler, ops, header, met, rec, stored, counted, label, refusal, rewrote,
                     sw, logged>>
  BY DEF Recover, config, inner, StageInv
<1>2. /\ net' \in Responses
      /\ net = Empty => net'.status = 500 /\ net'.body = <<"problem">>
  <2>0. PICK h \in 0 .. 2 : net' = Written(Started(net, 500, h), "problem", h)
    BY DEF Recover, Buffered, TypeOK
  <2>1. PICK r : r = Started(net, 500, h) /\ net' = Written(r, "problem", h)
    BY <2>0
  <2>2. /\ r \in Responses /\ r.body = net.body
        /\ net = Empty => r.status = 500
    <3>1. CASE net.status # 0
      BY <2>1, <3>1, StartedIs, EmptyFacts DEF TypeOK
    <3>2. CASE net.status = 0
      <4>1. r = [status |-> 500, headers |-> h, body |-> net.body]
        BY <2>1, <3>2, StartedIs DEF TypeOK
      <4>2. net.body \in Seq(Pieces)
        BY ResponseFacts DEF TypeOK
      <4> QED
        BY <4>1, <4>2 DEF Responses
    <3> QED
      BY <3>1, <3>2
  <2>3. net' = [status  |-> IF r.status # 0 THEN r.status ELSE 200,
                headers |-> IF r.status # 0 THEN r.headers ELSE h,
                body    |-> Append(r.body, "problem")]
    BY <2>1, <2>2, WrittenIs
  <2>4. Append(r.body, "problem") \in Seq(Pieces)
    BY <2>2, ResponseFacts, AppendProperties DEF Pieces
  <2>5. net' \in Responses
    BY <2>2, <2>3, <2>4, ResponseFacts DEF Responses
  <2>6. ASSUME net = Empty PROVE net'.status = 500 /\ net'.body = <<"problem">>
    <3>1. r.status = 500 /\ r.body = <<>>
      BY <2>2, <2>6, EmptyFacts
    <3> QED
      BY <2>3, <3>1
  <2> QED
    BY <2>5, <2>6
<1>3. ~preflight /\ ~cut /\ (timeoutOn => net = Empty)
  BY <1>1 DEF StageInv, AnswerInv, Answered
<1>4. ~timeoutOn /\ rec.status = 0 => net = Empty
  BY <1>1, <1>3 DEF StageInv, WriterInv, Mirrors, TypeOK, TokenInv
<1>5. TypeOK' /\ StageInv'
  BY <1>1, <1>2, <1>3 DEF TypeOK, StageInv, Inside, Answered
<1>6. FreshInv' /\ TokenInv' /\ RecorderInv'
  BY <1>1, InnerUntouched
<1>7. WriterInv' /\ AnswerInv'
  BY <1>1, <1>2, <1>3, <1>4
     DEF WriterInv, AnswerInv, Mirrors, StageInv, Answered, Done, Problem
<1>8. RecordInv' /\ StoreInv'
  BY <1>1 DEF RecordInv, StoreInv, Done
<1> QED
  BY <1>5, <1>6, <1>7, <1>8

LEMMA AccessLogPreserves == ChainInv /\ AccessLog => ChainInv'
<1> SUFFICES ASSUME ChainInv, AccessLog PROVE ChainInv'
  OBVIOUS
<1> USE DEF ChainInv
<1>1. /\ serve = "logging" /\ serve' = "finishing" /\ logged' = sw
      /\ UNCHANGED <<timeoutOn, mode, preflight, auth, route, expired, ctxDone, cut, net, buffer,
                     handler, ops, header, met, rec, stored, counted, label, refusal, rewrote,
                     sw, recovered>>
  BY DEF AccessLog, config, inner
<1>2. TypeOK' /\ StageInv'
  BY <1>1 DEF TypeOK, StageInv, Inside, Answered
<1>3. FreshInv' /\ TokenInv' /\ RecorderInv'
  BY <1>1, InnerUntouched
<1>4. WriterInv' /\ AnswerInv'
  BY <1>1 DEF WriterInv, AnswerInv, Mirrors, StageInv, TypeOK, Answered, Done, Problem
<1>5. RecordInv' /\ StoreInv'
  BY <1>1 DEF RecordInv, StoreInv, StageInv, Done
<1> QED
  BY <1>2, <1>3, <1>4, <1>5

LEMMA FinishPreserves == ChainInv /\ Finish => ChainInv'
<1> SUFFICES ASSUME ChainInv, Finish PROVE ChainInv'
  OBVIOUS
<1> USE DEF ChainInv
<1>1. /\ serve = "finishing" /\ serve' = "done"
      /\ UNCHANGED <<timeoutOn, mode, preflight, auth, route, expired, ctxDone, cut, buffer,
                     handler, ops, header, met, rec, stored, counted, label, refusal, rewrote,
                     sw, logged, recovered>>
  BY DEF Finish, config, inner
<1>2. /\ net' \in Responses
      /\ net.status # 0 => net' = net
      /\ net.status = 0 => net'.status = 200 /\ net'.body = net.body
  <2>1. PICK h \in 0 .. 2 : net' = Started(net, 200, h)
    BY DEF Finish, Buffered, TypeOK
  <2>2. CASE net.status # 0
    BY <2>1, <2>2, StartedIs DEF TypeOK
  <2>3. CASE net.status = 0
    <3>1. net' = [status |-> 200, headers |-> h, body |-> net.body]
      BY <2>1, <2>3, StartedIs DEF TypeOK
    <3>2. net.body \in Seq(Pieces)
      BY ResponseFacts DEF TypeOK
    <3> QED
      BY <2>3, <3>1, <3>2 DEF Responses
  <2> QED
    BY <2>2, <2>3
<1>3. TypeOK' /\ StageInv'
  BY <1>1, <1>2 DEF TypeOK, StageInv, Inside, Answered
<1>4. FreshInv' /\ TokenInv' /\ RecorderInv'
  BY <1>1, InnerUntouched
<1>5. WriterInv'
  BY <1>1 DEF WriterInv, Mirrors
<1>6. AnswerInv'
  <2>1. timeoutOn \/ preflight \/ (recovered /\ rec.status = 0) => net.status # 0 /\ net' = net
    BY <1>1, <1>2 DEF AnswerInv, StageInv, Answered, OrOK, Problem
  <2>2. CASE timeoutOn \/ preflight \/ recovered
    <3>1. CASE net' = net
      BY <1>1, <2>2, <3>1 DEF AnswerInv, Answered, Done, OrOK, Problem
    <3>2. CASE ~timeoutOn /\ ~preflight /\ recovered /\ rec.status # 0
      BY <1>1, <3>2 DEF AnswerInv, StageInv, Done
    <3> QED
      BY <2>1, <2>2, <3>1, <3>2
  <2>3. CASE ~timeoutOn /\ ~preflight /\ ~recovered
    <3>1. /\ Mirrors(net) /\ sw = met
          /\ net.status = 0 => net = Empty
          /\ ~rewrote => rec.headers <= net.headers
      BY <1>1, <2>3 DEF WriterInv
    <3>2. rec.status # 0 /\ refusal = "none" => net' = net
      BY <3>1, <1>2 DEF Mirrors
    <3>3. /\ refusal = "none" => /\ net'.body = rec.body
                                 /\ rec.status = 0 => net'.status = 200
                                 /\ ~rewrote => net'.status = OrOK(rec.status)
          /\ refusal # "none" => net'.status = 401 /\ net'.body = <<"problem">>
      BY <1>2, <3>1 DEF Mirrors, OrOK
    <3>4. rec.status # 0 => refusal = "none"
      BY EmptyFacts DEF RecorderInv
    <3> QED
      BY <1>1, <2>3, <3>1, <3>2, <3>3, <3>4 DEF AnswerInv, StageInv, Done, OrOK, Problem
  <2> QED
    BY <2>2, <2>3 DEF TypeOK
<1>7. RecordInv' /\ StoreInv'
  BY <1>1 DEF RecordInv, StoreInv, StageInv, Done
<1> QED
  BY <1>3, <1>4, <1>5, <1>6, <1>7
----------------------------------------------------------------------------
(* Around it *)

LEMMA ContextEndsPreserves == ChainInv /\ (Deadline \/ ClientGone) => ChainInv'
<1> SUFFICES ASSUME ChainInv, Deadline \/ ClientGone PROVE ChainInv'
  OBVIOUS
<1> USE DEF ChainInv
<1>1. /\ ctxDone' \in {"deadline", "gone"}
      /\ UNCHANGED <<timeoutOn, mode, preflight, auth, route, expired, cut, net, buffer,
                     handler, ops, header, met, rec, stored, counted, label, refusal, rewrote,
                     serve, sw, logged, recovered>>
  BY DEF Deadline, ClientGone, config, inner, outer
<1>2. TypeOK' /\ StageInv'
  BY <1>1 DEF TypeOK, StageInv, Inside, Answered
<1>3. FreshInv' /\ TokenInv' /\ RecorderInv'
  BY <1>1, InnerUntouched
<1>4. WriterInv' /\ AnswerInv'
  BY <1>1 DEF WriterInv, AnswerInv, Mirrors, Answered, Done, Problem
<1>5. RecordInv' /\ StoreInv'
  BY <1>1 DEF RecordInv, StoreInv, Done
<1> QED
  BY <1>2, <1>3, <1>4, <1>5

LEMMA ReusePreserves == ChainInv /\ Reuse => ChainInv'
<1> SUFFICES ASSUME ChainInv, Reuse PROVE ChainInv'
  OBVIOUS
<1> USE DEF ChainInv
<1>1. /\ serve = "done" /\ handler \notin {"off", "ended", "panicked"} /\ route' = "other"
      /\ UNCHANGED <<timeoutOn, mode, preflight, auth, ctxDone, expired, cut, net, buffer,
                     handler, ops, header, met, rec, stored, counted, label, refusal, rewrote,
                     serve, sw, logged, recovered>>
  BY DEF Reuse, config, inner, outer
<1>2. cut
  BY <1>1 DEF StageInv, Answered
<1>3. TypeOK' /\ StageInv'
  BY <1>1 DEF TypeOK, StageInv, Inside, Answered
<1>4. FreshInv' /\ TokenInv' /\ RecorderInv'
  BY <1>1, InnerUntouched
<1>5. WriterInv' /\ AnswerInv'
  BY <1>1 DEF WriterInv, AnswerInv, Mirrors, Answered, Done, Problem
<1>6. RecordInv' /\ StoreInv'
  BY <1>1, <1>2 DEF RecordInv, StoreInv, Done
<1> QED
  BY <1>3, <1>4, <1>5, <1>6

LEMMA TokenExpiresPreserves == ChainInv /\ TokenExpires => ChainInv'
<1> SUFFICES ASSUME ChainInv, TokenExpires PROVE ChainInv'
  OBVIOUS
<1> USE DEF ChainInv
<1>1. /\ handler \in {"off", "verify", "validate"} /\ expired' = TRUE
      /\ UNCHANGED <<timeoutOn, mode, preflight, auth, ctxDone, route, cut, net, buffer,
                     handler, ops, header, met, rec, stored, counted, label, refusal, rewrote,
                     serve, sw, logged, recovered>>
  BY DEF TokenExpires, StageInv, config, inner, outer
<1>2. TypeOK' /\ StageInv'
  BY <1>1 DEF TypeOK, StageInv, Inside, Answered
<1>3. FreshInv' /\ TokenInv' /\ RecorderInv'
  BY <1>1 DEF FreshInv, TokenInv, RecorderInv, RefusalHasReason
<1>4. WriterInv' /\ AnswerInv'
  BY <1>1 DEF WriterInv, AnswerInv, Mirrors, Answered, Done, Problem
<1>5. RecordInv' /\ StoreInv'
  BY <1>1 DEF RecordInv, StoreInv, Done
<1> QED
  BY <1>2, <1>3, <1>4, <1>5
----------------------------------------------------------------------------
(* The inner part *)

\* An answer of the jwt middleware: nothing has been written before it.
LEMMA RefusePreserves ==
  ASSUME ChainInv, handler \in {"verify", "validate"},
         NEW reason \in {"missing", "signature", "expired", "audience", "issuer"},
         Refuse(reason), RefusalHasReason'
  PROVE  ChainInv'
<1> USE DEF ChainInv
<1>1. /\ rec = Empty /\ buffer = Empty /\ met = 0 /\ header = 0 /\ ops = 0
      /\ refusal = "none" /\ ~rewrote /\ stored = Empty /\ ~recovered /\ ~preflight
      /\ serve = "inside" => net = Empty /\ sw = 0
      /\ ~timeoutOn => serve = "inside"
  BY DEF FreshInv, StageInv, StoreInv, Inside
<1>2. /\ refusal' = reason /\ met' = 401 /\ handler' = "counting"
      /\ UNCHANGED <<timeoutOn, mode, preflight, auth, route, expired, ctxDone, cut, ops, header,
                     rec, stored, counted, label, rewrote, serve, logged, recovered>>
  BY <1>1 DEF Refuse, SwWrite, SwHeader, config
<1>3. ASSUME NEW h \in 0 .. 2
      PROVE  Written(Started(Empty, 401, h), "problem", h) =
               [status |-> 401, headers |-> h, body |-> <<"problem">>]
  <2>1. PICK s : s = Started(Empty, 401, h)
    OBVIOUS
  <2>2. s = [status |-> 401, headers |-> h, body |-> <<>>]
    BY <2>1, StartedIs, EmptyFacts
  <2>3. s \in Responses
    BY <2>2, EmptySeq DEF Responses
  <2>4. Written(s, "problem", h) =
          [status  |-> IF s.status # 0 THEN s.status ELSE 200,
           headers |-> IF s.status # 0 THEN s.headers ELSE h,
           body    |-> Append(s.body, "problem")]
    BY <2>3, WrittenIs
  <2>5. Append(<<>>, "problem") = <<"problem">>
    OBVIOUS
  <2>6. Written(s, "problem", h) = [status |-> 401, headers |-> h, body |-> <<"problem">>]
    BY <2>2, <2>4, <2>5
  <2> QED
    BY <2>1, <2>6
<1>4. /\ timeoutOn => /\ UNCHANGED <<net, sw>>
                      /\ buffer' = IF cut THEN buffer
                                   ELSE [status |-> 401, headers |-> 0, body |-> <<"problem">>]
      /\ ~timeoutOn => /\ UNCHANGED buffer
                       /\ sw' = 401
                       /\ net' = [status |-> 401, headers |-> 0, body |-> <<"problem">>]
  BY <1>1, <1>3 DEF Refuse, ProblemBelow, Buffered
<1>5. TypeOK'
  <2>1. [status |-> 401, headers |-> 0, body |-> <<"problem">>] \in Responses
    BY DEF Responses, Pieces
  <2>2. net' \in Responses /\ buffer' \in Responses /\ sw' \in Nat /\ met' \in Nat
    BY <1>2, <1>4, <2>1 DEF TypeOK
  <2> QED
    BY <1>2, <2>2 DEF TypeOK
<1>6. StageInv'
  BY <1>1, <1>2, <1>4 DEF StageInv, Inside, Answered
<1>7. FreshInv' /\ RecorderInv'
  BY <1>1, <1>2, EmptyFacts DEF FreshInv, RecorderInv
<1>8. TokenInv'
  BY <1>1, <1>2 DEF TokenInv
<1>9. WriterInv'
  BY <1>1, <1>2, <1>4, EmptyFacts DEF WriterInv, Mirrors
<1>10. AnswerInv'
  BY <1>1, <1>2, <1>4 DEF AnswerInv, StageInv, Answered, Done
<1>11. RecordInv' /\ StoreInv'
  BY <1>1, <1>2, <1>4, EmptyFacts DEF RecordInv, StoreInv, StageInv, Done, IsSuccess
<1> QED
  BY <1>5, <1>6, <1>7, <1>8, <1>9, <1>10, <1>11

\* The library refuses only what is not genuine or has expired.
LEMMA ParsesFacts ==
  ASSUME mode \in Modes
  PROVE  /\ Parses(mode, auth, expired) => ~expired /\ Parses(mode, auth, FALSE)
         /\ ~Parses(mode, auth, expired) => expired \/ ~Genuine(mode, auth)
         /\ Parses(mode, auth, FALSE) /\ AudienceOk(auth) /\ IssuerOk(auth) =>
              Genuine(mode, auth)
<1> USE DEF Parses, SignatureHolds, KeyFound, HmacKeyFound, JwksKeyFound
<1>1. Parses(mode, auth, expired) => ~expired /\ Parses(mode, auth, FALSE)
  OBVIOUS
<1>2. ~Parses(mode, auth, expired) => expired \/ ~Genuine(mode, auth)
  BY DEF Genuine, Modes
<1>3. Parses(mode, auth, FALSE) /\ AudienceOk(auth) /\ IssuerOk(auth) => Genuine(mode, auth)
  BY DEF Genuine, AudienceOk, IssuerOk, Modes
<1> QED
  BY <1>1, <1>2, <1>3

\* And so does the rest of parseAndValidate, but for an audience in an array.
LEMMA ClaimsFacts ==
  ASSUME expired \in BOOLEAN
  PROVE  /\ ClaimsError(auth, expired) \in {"none", "expired", "audience", "issuer"}
         /\ ClaimsError(auth, expired) = "none" =>
              ~expired /\ AudienceOk(auth) /\ IssuerOk(auth)
         /\ ClaimsError(auth, expired) = "expired" => expired
         /\ ClaimsError(auth, expired) = "audience" => ~AudienceOk(auth)
         /\ ClaimsError(auth, expired) = "issuer" => ~IssuerOk(auth)
<1>1. CASE expired
  BY <1>1 DEF ClaimsError
<1>2. CASE ~expired /\ ~AudienceOk(auth)
  BY <1>2 DEF ClaimsError
<1>3. CASE ~expired /\ AudienceOk(auth) /\ ~IssuerOk(auth)
  BY <1>3 DEF ClaimsError
<1>4. CASE ~expired /\ AudienceOk(auth) /\ IssuerOk(auth)
  BY <1>4 DEF ClaimsError
<1> QED
  BY <1>1, <1>2, <1>3, <1>4

LEMMA VerifyPreserves == ChainInv /\ Verify => ChainInv'
<1> SUFFICES ASSUME ChainInv, Verify PROVE ChainInv'
  OBVIOUS
<1> USE DEF ChainInv
<1>1. handler = "verify" /\ UNCHANGED <<mode, auth, expired>>
  BY DEF Verify, Refuse, config
<1>2. CASE ~HasBearer(auth) /\ Refuse("missing")
  <2>1. RefusalHasReason'
    BY <1>1, <1>2 DEF RefusalHasReason, Refuse, HasBearer
  <2> QED
    BY <1>1, <1>2, <2>1, RefusePreserves
<1>3. CASE HasBearer(auth) /\ ~Parses(mode, auth, expired) /\ Refuse("signature")
  <2>1. expired \/ ~Genuine(mode, auth)
    BY <1>3, ParsesFacts DEF TypeOK
  <2>2. RefusalHasReason'
    BY <1>1, <1>3, <2>1 DEF RefusalHasReason, Refuse
  <2> QED
    BY <1>1, <1>3, <2>2, RefusePreserves
<1>4. CASE HasBearer(auth) /\ Parses(mode, auth, expired)
           /\ handler' = "validate"
           /\ UNCHANGED <<config, route, expired, ctxDone, cut, net, buffer, outer, ops, header,
                          met, rec, stored, counted, label, refusal, rewrote>>
  <2>1. UNCHANGED <<timeoutOn, mode, preflight, auth, route, expired, ctxDone, cut, net, buffer,
                    ops, header, met, rec, stored, counted, label, refusal, rewrote,
                    serve, sw, logged, recovered>>
    BY <1>4 DEF config, outer
  <2>2. TypeOK' /\ StageInv'
    BY <1>1, <1>4, <2>1 DEF TypeOK, StageInv, Inside, Answered
  <2>3. FreshInv' /\ RecorderInv'
    BY <1>1, <1>4, <2>1 DEF FreshInv, RecorderInv
  <2>4. TokenInv'
    <3>1. HasBearer(auth) /\ Parses(mode, auth, FALSE) /\ refusal = "none" /\ ops = 0
      BY <1>1, <1>4, ParsesFacts DEF FreshInv, TypeOK
    <3> QED
      BY <1>1, <1>4, <2>1, <3>1 DEF TokenInv, RefusalHasReason
  <2>5. WriterInv' /\ AnswerInv'
    BY <1>1, <1>4, <2>1
       DEF WriterInv, AnswerInv, Mirrors, StageInv, Answered, Done, OrOK, Problem
  <2>6. RecordInv' /\ StoreInv'
    BY <1>1, <1>4, <2>1 DEF RecordInv, StoreInv, StageInv, Done, OrOK, IsSuccess
  <2> QED
    BY <2>2, <2>3, <2>4, <2>5, <2>6
<1> QED
  BY <1>1, <1>2, <1>3, <1>4 DEF Verify

LEMMA ValidatePreserves == ChainInv /\ Validate => ChainInv'
<1> SUFFICES ASSUME ChainInv, Validate PROVE ChainInv'
  OBVIOUS
<1> USE DEF ChainInv
<1>1. /\ handler = "validate" /\ HasBearer(auth) /\ Parses(mode, auth, FALSE)
      /\ UNCHANGED <<mode, auth, expired>>
  BY DEF Validate, Refuse, config, TokenInv
<1>2. expired \in BOOLEAN /\ mode \in Modes /\ auth \in Authorizations
  BY DEF TypeOK
<1>3. ASSUME ClaimsError(auth, expired) # "none", Refuse(ClaimsError(auth, expired))
      PROVE  ChainInv'
  <2>1. PICK reason \in {"expired", "audience", "issuer"} :
           reason = ClaimsError(auth, expired)
    BY <1>2, <1>3, ClaimsFacts
  <2>2. Refuse(reason) /\ refusal' = reason
    BY <1>3, <2>1 DEF Refuse
  <2>3. \/ reason = "expired" /\ expired
        \/ reason = "audience" /\ auth.aud = "list"
        \/ ~Genuine(mode, auth)
    <3>1. CASE reason = "expired"
      BY <1>2, <2>1, <3>1, ClaimsFacts
    <3>2. CASE reason = "audience"
      <4>1. ~AudienceOk(auth)
        BY <1>2, <2>1, <3>2, ClaimsFacts
      <4> QED
        BY <3>2, <4>1 DEF AudienceOk, Genuine
    <3>3. CASE reason = "issuer"
      <4>1. ~IssuerOk(auth)
        BY <1>2, <2>1, <3>3, ClaimsFacts
      <4> QED
        BY <4>1 DEF IssuerOk, Genuine
    <3> QED
      BY <3>1, <3>2, <3>3
  <2>4. RefusalHasReason'
    BY <1>1, <2>2, <2>3 DEF RefusalHasReason
  <2> QED
    BY <1>1, <2>2, <2>4, RefusePreserves
<1>4. ASSUME ClaimsError(auth, expired) = "none", handler' = "run",
             UNCHANGED <<config, route, expired, ctxDone, cut, net, buffer, outer, ops, header,
                         met, rec, stored, counted, label, refusal, rewrote>>
      PROVE  ChainInv'
  <2>1. UNCHANGED <<timeoutOn, mode, preflight, auth, route, expired, ctxDone, cut, net, buffer,
                    ops, header, met, rec, stored, counted, label, refusal, rewrote,
                    serve, sw, logged, recovered>>
    BY <1>4 DEF config, outer
  <2>2. TypeOK' /\ StageInv'
    BY <1>1, <1>4, <2>1 DEF TypeOK, StageInv, Inside, Answered
  <2>3. FreshInv' /\ RecorderInv'
    BY <1>1, <1>4, <2>1 DEF FreshInv, RecorderInv
  <2>4. TokenInv'
    <3>1. refusal = "none" /\ ops = 0
      BY <1>1 DEF FreshInv
    <3>2. Genuine(mode, auth) /\ ~expired
      BY <1>1, <1>2, <1>4, ClaimsFacts, ParsesFacts
    <3> QED
      BY <1>1, <1>4, <2>1, <3>1, <3>2 DEF TokenInv, RefusalHasReason
  <2>5. WriterInv' /\ AnswerInv'
    BY <1>1, <1>4, <2>1
       DEF WriterInv, AnswerInv, Mirrors, StageInv, Answered, Done, OrOK, Problem
  <2>6. RecordInv' /\ StoreInv'
    BY <1>1, <1>4, <2>1 DEF RecordInv, StoreInv, StageInv, Done, OrOK, IsSuccess
  <2> QED
    BY <2>2, <2>3, <2>4, <2>5, <2>6
<1> QED
  BY <1>3, <1>4 DEF Validate

----------------------------------------------------------------------------
\* What a handler that is running knows: it was let through, and its answer
\* is still on the way, unless it was cut off.
LEMMA RunningFacts ==
  ASSUME ChainInv, handler = "run"
  PROVE  /\ HasBearer(auth) /\ Genuine(mode, auth) /\ ~expired
         /\ refusal = "none" /\ ~preflight /\ ~recovered /\ stored = Empty /\ met = rec.status
         /\ timeoutOn => cut \/ serve = "waiting"
         /\ ~timeoutOn => ~cut /\ serve = "inside"
<1> USE DEF ChainInv
<1>1. HasBearer(auth) /\ Genuine(mode, auth) /\ ~expired /\ refusal = "none"
  BY DEF TokenInv
<1>2. /\ ~preflight /\ ~recovered /\ stored = Empty /\ met = rec.status
      /\ ~timeoutOn => ~cut /\ serve = "inside"
  BY <1>1 DEF StageInv, StoreInv, RecorderInv, Inside
<1>3. timeoutOn => cut \/ serve = "waiting"
  BY <1>2 DEF StageInv, Answered, TypeOK
<1> QED
  BY <1>1, <1>2, <1>3

LEMMA AddHeaderPreserves == ChainInv /\ AddHeader => ChainInv'
<1> SUFFICES ASSUME ChainInv, AddHeader PROVE ChainInv'
  OBVIOUS
<1> USE DEF ChainInv
<1>1. /\ handler = "run" /\ ops < MaxOps /\ ops' = ops + 1
      /\ header < 2 /\ header' = header + 1
      /\ UNCHANGED <<timeoutOn, mode, preflight, auth, route, expired, ctxDone, cut, net, buffer,
                     handler, met, rec, stored, counted, label, refusal, rewrote,
                     serve, sw, logged, recovered>>
  BY DEF AddHeader, Operation, config, outer
<1>2. TypeOK'
  BY <1>1, MaxOpsAssumption DEF TypeOK
<1>3. StageInv' /\ FreshInv'
  BY <1>1 DEF StageInv, FreshInv, Inside, Answered
<1>4. TokenInv'
  BY <1>1, RunningFacts DEF TokenInv, RefusalHasReason
<1>5. RecorderInv'
  <2>1. rec.headers \in Nat /\ header \in Nat
    BY ResponseFacts DEF TypeOK
  <2>2. rec.headers <= header' /\ rec.headers <= 1
    BY <1>1, <2>1 DEF RecorderInv
  <2>3. rec' = rec /\ met' = met /\ refusal' = refusal /\ rewrote' = rewrote
    BY <1>1
  <2> QED
    BY <2>2, <2>3, Zenon DEF RecorderInv
<1>6. WriterInv'
  BY <1>1 DEF WriterInv, Mirrors
<1>7. AnswerInv'
  BY <1>1, RunningFacts DEF AnswerInv, Answered, Done, OrOK, Problem
<1>8. RecordInv' /\ StoreInv'
  BY <1>1 DEF RecordInv, StoreInv, Done, OrOK, IsSuccess
<1> QED
  BY <1>2, <1>3, <1>4, <1>5, <1>6, <1>7, <1>8

\* The response that a handler's call writes to, the timeout's buffer or the
\* connection, and what the call makes of it.
Below == IF timeoutOn THEN buffer ELSE net

LEMMA BelowFacts ==
  ASSUME ChainInv, handler = "run", ~cut
  PROVE  /\ Below \in Responses /\ Below.body = rec.body
         /\ Below.status = 0 <=> rec.status = 0
         /\ ~rewrote => Below.status = rec.status
         /\ ~timeoutOn /\ ~rewrote => rec.headers <= Below.headers
<1>1. refusal = "none" /\ ~preflight /\ ~recovered /\ (~timeoutOn => serve = "inside")
  BY RunningFacts
<1> QED
  BY <1>1 DEF ChainInv, TypeOK, WriterInv, Mirrors, Below

\* A call of the handler on its writer.  Whatever it writes, the recorder, the
\* metrics and the response below still agree if they agree on this call.
LEMMA CallPreserves ==
  ASSUME ChainInv, Operation, NEW b \in Responses,
         UNCHANGED <<timeoutOn, mode, preflight, auth, route, expired, ctxDone, cut, handler,
                     header, stored, counted, label, refusal, serve, logged, recovered>>,
         rec' \in Responses, rec'.status # 0, rec'.headers <= header, rec'.headers <= 1,
         met' = rec'.status, rewrote' \in BOOLEAN,
         timeoutOn => UNCHANGED <<net, sw>> /\ buffer' = IF cut THEN buffer ELSE b,
         ~timeoutOn => UNCHANGED buffer /\ net' = b /\ sw' = rec'.status,
         b.status # 0,
         ~cut => b.body = rec'.body /\ (~rewrote' => b.status = rec'.status),
         ~timeoutOn /\ ~rewrote' => rec'.headers <= b.headers
  PROVE  ChainInv'
<1> USE DEF ChainInv
<1>1. /\ handler = "run" /\ ops < MaxOps /\ ops' = ops + 1
      /\ refusal = "none" /\ ~preflight /\ ~recovered /\ stored = Empty
      /\ timeoutOn => cut \/ serve = "waiting"
      /\ ~timeoutOn => ~cut /\ serve = "inside"
  BY RunningFacts DEF Operation
<1>2. net' \in Responses /\ buffer' \in Responses /\ sw' \in Nat /\ met' \in Nat
  BY ResponseFacts DEF TypeOK
<1>3. TypeOK'
  BY <1>1, <1>2, MaxOpsAssumption DEF TypeOK
<1>4. StageInv' /\ FreshInv'
  BY <1>1 DEF StageInv, FreshInv, Inside, Answered
<1>5. TokenInv'
  BY <1>1, RunningFacts DEF TokenInv, RefusalHasReason
<1>6. RecorderInv'
  BY <1>1 DEF RecorderInv
<1>7. WriterInv'
  BY <1>1 DEF WriterInv, Mirrors
<1>8. AnswerInv'
  BY <1>1 DEF AnswerInv, Answered, Done, OrOK, Problem
<1>9. RecordInv' /\ StoreInv'
  BY <1>1 DEF RecordInv, StoreInv, Done
<1> QED
  BY <1>3, <1>4, <1>5, <1>6, <1>7, <1>8, <1>9

LEMMA WriteHeaderPreserves ==
  ASSUME ChainInv, NEW code \in Codes, WriteHeader(code)
  PROVE  ChainInv'
<1> USE DEF ChainInv
<1>1. /\ Operation /\ handler = "run"
      /\ UNCHANGED <<timeoutOn, mode, preflight, auth, route, expired, ctxDone, cut, handler,
                     header, stored, counted, label, refusal, serve, logged, recovered>>
      /\ met' = code /\ rewrote' = (rewrote \/ rec.status # 0)
      /\ rec' = [rec EXCEPT !.status = code, !.headers = IF header > 0 THEN 1 ELSE @]
  BY DEF WriteHeader, Operation, RecHeader, SwHeader, config
<1>2. code \in Nat /\ code # 0
  BY DEF Codes
<1>3. rec' = [status |-> code, headers |-> IF header > 0 THEN 1 ELSE rec.headers,
              body |-> rec.body]
  BY <1>1 DEF TypeOK, Responses
<1>4. /\ rec' \in Responses /\ rec'.status = code /\ rec'.body = rec.body
      /\ rec'.headers <= header /\ rec'.headers <= 1
  <2>1. rec.body \in Seq(Pieces) /\ rec.headers \in 0 .. 2 /\ header \in 0 .. 2
    BY ResponseFacts DEF TypeOK
  <2>2. rec.headers <= header /\ rec.headers <= 1
    BY DEF RecorderInv
  <2> QED
    BY <1>2, <1>3, <2>1, <2>2 DEF Responses
<1>5. PICK h \in 0 .. 2 :
        /\ timeoutOn => UNCHANGED <<net, sw>> /\ buffer' = IF cut THEN buffer
                                                           ELSE Started(buffer, code, h)
        /\ ~timeoutOn => /\ UNCHANGED buffer /\ net' = Started(net, code, h) /\ sw' = code
                         /\ h = header
  BY DEF WriteHeader, HeaderBelow, Buffered, SwHeader, TypeOK
<1>6. PICK b : b = Started(Below, code, h)
  OBVIOUS
<1>7. Below \in Responses
  BY DEF Below, TypeOK
<1>8. /\ Below.status # 0 => b = Below
      /\ Below.status = 0 => b = [status |-> code, headers |-> h, body |-> Below.body]
  BY <1>6, <1>7, StartedIs
<1>9. b \in Responses /\ b.status # 0 /\ b.body = Below.body
  BY <1>2, <1>7, <1>8, ResponseFacts DEF Responses
<1>10. /\ timeoutOn => UNCHANGED <<net, sw>> /\ buffer' = IF cut THEN buffer ELSE b
       /\ ~timeoutOn => UNCHANGED buffer /\ net' = b /\ sw' = code
  BY <1>5, <1>6 DEF Below
<1>11. ~cut => b.body = rec'.body /\ (~rewrote' => b.status = rec'.status)
  <2> SUFFICES ASSUME ~cut PROVE b.body = rec'.body /\ (~rewrote' => b.status = rec'.status)
    OBVIOUS
  <2>1. Below.body = rec.body /\ (Below.status = 0 <=> rec.status = 0)
    BY <1>1, BelowFacts
  <2>2. ASSUME ~rewrote' PROVE b.status = code
    <3>1. Below.status = 0
      BY <1>1, <2>1, <2>2
    <3> QED
      BY <1>8, <3>1
  <2> QED
    BY <1>4, <1>9, <2>1, <2>2
<1>12. ~timeoutOn /\ ~rewrote' => rec'.headers <= b.headers
  <2> SUFFICES ASSUME ~timeoutOn, ~rewrote' PROVE rec'.headers <= b.headers
    OBVIOUS
  <2>1. rec.status = 0 /\ ~cut
    BY <1>1, RunningFacts
  <2>2. b.headers = header
    BY <1>1, <1>5, <1>8, <2>1, BelowFacts
  <2> QED
    BY <1>4, <2>2
<1>13. rewrote' \in BOOLEAN
  BY <1>1
<1> QED
  BY <1>1, <1>2, <1>4, <1>9, <1>10, <1>11, <1>12, <1>13, CallPreserves

LEMMA WritePreserves == ChainInv /\ Write => ChainInv'
<1> SUFFICES ASSUME ChainInv, Write PROVE ChainInv'
  OBVIOUS
<1> USE DEF ChainInv
<1>1. /\ Operation /\ handler = "run"
      /\ UNCHANGED <<timeoutOn, mode, preflight, auth, route, expired, ctxDone, cut, handler,
                     header, stored, counted, label, refusal, rewrote, serve, logged,
                     recovered>>
      /\ met' = OrOK(met) /\ met = rec.status
      /\ rec' = [rec EXCEPT !.status = OrOK(rec.status), !.body = Append(rec.body, "chunk")]
  BY RunningFacts DEF Write, Operation, RecWrite, SwWrite, OrOK, config
<1>2. rec' = [status |-> OrOK(rec.status), headers |-> rec.headers,
              body |-> Append(rec.body, "chunk")]
  BY <1>1 DEF TypeOK, Responses
<1>3. /\ rec' \in Responses /\ rec'.status = OrOK(rec.status) /\ rec'.status # 0
      /\ rec'.body = Append(rec.body, "chunk")
      /\ rec'.headers = rec.headers /\ rec.headers <= header /\ rec.headers <= 1
  <2>1. rec.status \in Nat /\ rec.body \in Seq(Pieces) /\ rec.headers \in 0 .. 2
    BY ResponseFacts DEF TypeOK
  <2>2. Append(rec.body, "chunk") \in Seq(Pieces)
    BY <2>1, AppendProperties DEF Pieces
  <2>3. rec.headers <= header /\ rec.headers <= 1
    BY DEF RecorderInv
  <2> QED
    BY <1>2, <2>1, <2>2, <2>3 DEF Responses, OrOK
<1>4. PICK h \in 0 .. 2 :
        /\ timeoutOn => UNCHANGED <<net, sw>> /\ buffer' = IF cut THEN buffer
                                                           ELSE Written(buffer, "chunk", h)
        /\ ~timeoutOn => /\ UNCHANGED buffer /\ net' = Written(net, "chunk", h)
                         /\ sw' = OrOK(sw) /\ h = header
  BY DEF Write, WriteBelow, Buffered, SwWrite, OrOK, TypeOK
<1>5. PICK b : b = Written(Below, "chunk", h)
  OBVIOUS
<1>6. Below \in Responses
  BY DEF Below, TypeOK
<1>7. b = [status  |-> IF Below.status # 0 THEN Below.status ELSE 200,
           headers |-> IF Below.status # 0 THEN Below.headers ELSE h,
           body    |-> Append(Below.body, "chunk")]
  BY <1>5, <1>6, WrittenIs
<1>8. /\ b \in Responses /\ b.status # 0 /\ b.status = OrOK(Below.status)
      /\ b.body = Append(Below.body, "chunk")
      /\ b.headers = IF Below.status # 0 THEN Below.headers ELSE h
  <2>1. Below.status \in Nat /\ Below.body \in Seq(Pieces) /\ Below.headers \in 0 .. 2
    BY <1>6, ResponseFacts
  <2>2. Append(Below.body, "chunk") \in Seq(Pieces)
    BY <2>1, AppendProperties DEF Pieces
  <2> QED
    BY <1>7, <2>1, <2>2 DEF Responses, OrOK
<1>9. /\ timeoutOn => UNCHANGED <<net, sw>> /\ buffer' = IF cut THEN buffer ELSE b
      /\ ~timeoutOn => UNCHANGED buffer /\ net' = b /\ sw' = rec'.status
  <2>1. ~timeoutOn => sw = met
    BY <1>1, RunningFacts DEF WriterInv
  <2> QED
    BY <1>1, <1>3, <1>4, <1>5, <2>1 DEF Below
<1>10. ~cut => b.body = rec'.body /\ (~rewrote' => b.status = rec'.status)
  BY <1>1, <1>3, <1>8, BelowFacts
<1>11. ~timeoutOn /\ ~rewrote' => rec'.headers <= b.headers
  <2> SUFFICES ASSUME ~timeoutOn, ~rewrote' PROVE rec'.headers <= b.headers
    OBVIOUS
  <2>1. ~cut /\ ~rewrote
    BY <1>1, RunningFacts
  <2>2. CASE Below.status # 0
    BY <1>1, <1>3, <1>8, <2>1, <2>2, BelowFacts
  <2>3. CASE Below.status = 0
    BY <1>3, <1>4, <1>8, <2>3
  <2> QED
    BY <2>2, <2>3
<1>12. rewrote' \in BOOLEAN /\ met' = rec'.status
  BY <1>1, <1>3 DEF TypeOK
<1> QED
  BY <1>1, <1>3, <1>8, <1>9, <1>10, <1>11, <1>12, CallPreserves

LEMMA PanicPreserves == ChainInv /\ Panic => ChainInv'
<1> SUFFICES ASSUME ChainInv, Panic PROVE ChainInv'
  OBVIOUS
<1> USE DEF ChainInv
<1>1. /\ handler = "run" /\ handler' = "panicked"
      /\ serve' = IF timeoutOn THEN serve ELSE "unwinding"
      /\ UNCHANGED <<timeoutOn, mode, preflight, auth, route, expired, ctxDone, cut, net, buffer,
                     sw, logged, recovered, ops, header, met, rec, stored, counted, label,
                     refusal, rewrote>>
  BY DEF Panic, Resume, Buffered, config
<1>2. /\ HasBearer(auth) /\ Genuine(mode, auth) /\ ~expired
      /\ refusal = "none" /\ ~preflight /\ ~recovered /\ stored = Empty
      /\ timeoutOn => cut \/ serve = "waiting"
      /\ ~timeoutOn => ~cut /\ serve = "inside"
  BY <1>1, RunningFacts
<1>3. TypeOK'
  BY <1>1 DEF TypeOK
<1>4. StageInv' /\ FreshInv'
  BY <1>1, <1>2 DEF StageInv, FreshInv, Inside, Answered
<1>5. TokenInv'
  BY <1>1, <1>2 DEF TokenInv, RefusalHasReason
<1>6. RecorderInv' /\ WriterInv'
  BY <1>1, <1>2 DEF RecorderInv, WriterInv, Mirrors
<1>7. AnswerInv'
  BY <1>1, <1>2 DEF AnswerInv, Answered, Done
<1>8. RecordInv' /\ StoreInv'
  BY <1>1, <1>2 DEF RecordInv, StoreInv, Done
<1> QED
  BY <1>3, <1>4, <1>5, <1>6, <1>7, <1>8

LEMMA ReturnPreserves == ChainInv /\ Return => ChainInv'
<1> SUFFICES ASSUME ChainInv, Return PROVE ChainInv'
  OBVIOUS
<1> USE DEF ChainInv
<1>1. /\ handler = "run"
      /\ IsSuccess(rec.status) => handler' = "storing"
      /\ ~IsSuccess(rec.status) => handler' = "counting"
      /\ UNCHANGED <<timeoutOn, mode, preflight, auth, route, expired, ctxDone, cut, net, buffer,
                     ops, header, met, rec, stored, counted, label, refusal, rewrote,
                     serve, sw, logged, recovered>>
  BY DEF Return, config, outer
<1>2. /\ HasBearer(auth) /\ Genuine(mode, auth) /\ ~expired
      /\ refusal = "none" /\ ~preflight /\ ~recovered /\ stored = Empty
      /\ timeoutOn => cut \/ serve = "waiting"
      /\ ~timeoutOn => ~cut /\ serve = "inside"
  BY <1>1, RunningFacts
<1>3. handler' \in {"storing", "counting"}
  BY <1>1
<1>4. TypeOK'
  BY <1>1, <1>3 DEF TypeOK
<1>5. StageInv' /\ FreshInv'
  BY <1>1, <1>2, <1>3 DEF StageInv, FreshInv, Inside, Answered
<1>6. TokenInv'
  BY <1>1, <1>2, <1>3 DEF TokenInv, RefusalHasReason
<1>7. RecorderInv' /\ WriterInv'
  BY <1>1, <1>2 DEF RecorderInv, WriterInv, Mirrors
<1>8. AnswerInv'
  BY <1>1, <1>2, <1>3 DEF AnswerInv, Answered, Done
<1>9. RecordInv' /\ StoreInv'
  BY <1>1, <1>2, <1>3 DEF RecordInv, StoreInv, Done, IsSuccess
<1> QED
  BY <1>4, <1>5, <1>6, <1>7, <1>8, <1>9

LEMMA PutPreserves == ChainInv /\ Put => ChainInv'
<1> SUFFICES ASSUME ChainInv, Put PROVE ChainInv'
  OBVIOUS
<1> USE DEF ChainInv
<1>1. /\ handler = "storing" /\ handler' = "counting"
      /\ stored' = rec \/ (stored' = Empty /\ ctxDone # "no")
      /\ UNCHANGED <<timeoutOn, mode, preflight, auth, route, expired, ctxDone, cut, net, buffer,
                     ops, header, met, rec, counted, label, refusal, rewrote,
                     serve, sw, logged, recovered>>
  BY DEF Put, config, outer
<1>2. TypeOK'
  BY <1>1, EmptyFacts DEF TypeOK
<1>3. StageInv' /\ FreshInv'
  BY <1>1 DEF StageInv, FreshInv, Inside, Answered
<1>4. TokenInv'
  BY <1>1 DEF TokenInv, RefusalHasReason
<1>5. RecorderInv' /\ WriterInv'
  BY <1>1 DEF RecorderInv, WriterInv, Mirrors
<1>6. AnswerInv'
  BY <1>1 DEF AnswerInv, StageInv, Answered, Done, OrOK, Problem
<1>7. RecordInv'
  BY <1>1 DEF RecordInv, Done
<1>8. StoreInv'
  BY <1>1, EmptyFacts DEF StoreInv, IsSuccess
<1> QED
  BY <1>2, <1>3, <1>4, <1>5, <1>6, <1>7, <1>8

LEMMA CountPreserves == ChainInv /\ Count => ChainInv'
<1> SUFFICES ASSUME ChainInv, Count PROVE ChainInv'
  OBVIOUS
<1> USE DEF ChainInv
<1>1. /\ handler = "counting" /\ handler' = "ended"
      /\ counted' = OrOK(met) /\ label' = route
      /\ serve' = IF timeoutOn THEN serve ELSE "logging"
      /\ UNCHANGED <<timeoutOn, mode, preflight, auth, route, expired, ctxDone, cut, net, buffer,
                     sw, logged, recovered, ops, header, met, rec, stored, refusal, rewrote>>
  BY DEF Count, Resume, Buffered, OrOK, config
<1>2. /\ ~preflight /\ ~recovered
      /\ timeoutOn => cut \/ serve = "waiting"
      /\ ~timeoutOn => ~cut /\ serve = "inside"
  BY <1>1 DEF StageInv, Inside, Answered, TypeOK
<1>3. TypeOK'
  BY <1>1 DEF TypeOK, OrOK
<1>4. StageInv' /\ FreshInv'
  BY <1>1, <1>2 DEF StageInv, FreshInv, Inside, Answered
<1>5. TokenInv'
  BY <1>1 DEF TokenInv, RefusalHasReason
<1>6. RecorderInv' /\ WriterInv'
  BY <1>1, <1>2 DEF RecorderInv, WriterInv, Mirrors
<1>7. AnswerInv'
  BY <1>1, <1>2 DEF AnswerInv, Answered, Done
<1>8. RecordInv' /\ StoreInv'
  BY <1>1, <1>2 DEF RecordInv, StoreInv, Done
<1> QED
  BY <1>3, <1>4, <1>5, <1>6, <1>7, <1>8

----------------------------------------------------------------------------
LEMMA NextPreserves == ChainInv /\ [Next]_vars => ChainInv'
<1> SUFFICES ASSUME ChainInv, [Next]_vars PROVE ChainInv'
  OBVIOUS
<1>1. CASE Serving
  BY <1>1, ArrivePreserves, RepanicPreserves, FlushPreserves, CutOffPreserves,
     RecoverPreserves, AccessLogPreserves, FinishPreserves DEF Serving
<1>2. CASE Handling
  BY <1>2, VerifyPreserves, ValidatePreserves, AddHeaderPreserves, WriteHeaderPreserves,
     WritePreserves, PanicPreserves, ReturnPreserves, PutPreserves, CountPreserves DEF Handling
<1>3. CASE Deadline \/ ClientGone \/ TokenExpires \/ Reuse
  BY <1>3, ContextEndsPreserves, TokenExpiresPreserves, ReusePreserves
<1>4. CASE UNCHANGED vars
  <2>1. /\ UNCHANGED <<timeoutOn, mode, preflight, auth, expired, ctxDone, cut, net, buffer,
                       route, serve, sw, logged, recovered>>
        /\ UNCHANGED <<handler, ops, header, met, rec, stored, counted, label, refusal, rewrote>>
    BY <1>4 DEF vars, config, inner, outer
  <2>2. TypeOK' /\ StageInv'
    BY <2>1 DEF ChainInv, TypeOK, StageInv, Inside, Answered
  <2>3. FreshInv' /\ TokenInv' /\ RecorderInv'
    BY <2>1, InnerUntouched
  <2>4. WriterInv' /\ AnswerInv'
    BY <2>1 DEF ChainInv, WriterInv, AnswerInv, Mirrors, Answered, Done, OrOK, Problem
  <2>5. RecordInv' /\ StoreInv'
    BY <2>1 DEF ChainInv, RecordInv, StoreInv, Done, OrOK, IsSuccess
  <2> QED
    BY <2>2, <2>3, <2>4, <2>5 DEF ChainInv
<1> QED
  BY <1>1, <1>2, <1>3, <1>4 DEF Next, Over

LEMMA ChainAlways == Spec => []ChainInv
BY InitEstablishes, NextPreserves, PTL DEF Spec

----------------------------------------------------------------------------
(* The bodies of the answers that nobody inside wrote *)

\* The timeout's own text, or nothing for a client that has gone.
CutBody == IF ctxDone = "deadline" THEN <<"timeout">> ELSE <<>>

\* A handler that goes on after its request was cut off adds nothing to it.
OuterInv ==
  /\ cut => net.body = CutBody
  /\ preflight /\ Answered => net.body = <<>>

\* The serving goroutine writes once.
LEMMA ServingKeepsOuter == ChainInv /\ OuterInv /\ Serving => OuterInv'
<1> SUFFICES ASSUME ChainInv, OuterInv, Serving PROVE OuterInv'
  OBVIOUS
<1> USE DEF ChainInv
<1>1. CASE Arrive
  <2>1. serve = "arrived" /\ net = Empty /\ ~cut /\ UNCHANGED <<preflight, cut>>
    BY <1>1 DEF Arrive, StageInv, Answered, config
  <2>2. preflight => net' = [status |-> 204, headers |-> 0, body |-> <<>>]
    BY <1>1, <2>1, StartedIs, EmptyFacts DEF Arrive, StageInv
  <2> QED
    BY <2>1, <2>2 DEF OuterInv
<1>2. CASE Repanic \/ Flush \/ Recover
  <2>1. ~cut /\ ~preflight /\ UNCHANGED <<preflight, cut>>
    BY <1>2 DEF Repanic, Flush, Recover, StageInv, Answered, config
  <2> QED
    BY <2>1 DEF OuterInv
<1>3. CASE CutOff
  <2>1. ~preflight /\ UNCHANGED <<preflight, ctxDone>> /\ net'.body = CutBody
    BY <1>3 DEF CutOff, StageInv, Answered, config, CutBody
  <2> QED
    BY <2>1 DEF OuterInv, CutBody
<1>4. CASE AccessLog
  <2>1. Answered /\ UNCHANGED <<preflight, cut, ctxDone, net>>
    BY <1>4 DEF AccessLog, Answered, config
  <2> QED
    BY <2>1 DEF OuterInv, CutBody
<1>5. CASE Finish
  <2>1. Answered /\ UNCHANGED <<preflight, cut, ctxDone>>
    BY <1>5 DEF Finish, Answered, config
  <2>2. cut \/ preflight => net.status # 0
    BY <2>1 DEF AnswerInv
  <2>3. cut \/ preflight => net' = net
    BY <1>5, <2>2, StartedIs DEF Finish, TypeOK
  <2> QED
    BY <2>1, <2>3 DEF OuterInv, CutBody
<1> QED
  BY <1>1, <1>2, <1>3, <1>4, <1>5 DEF Serving

\* The inner part writes into a buffer that is not sent any more, or is the
\* only one to write.
LEMMA HandlingKeepsOuter == ChainInv /\ OuterInv /\ Handling => OuterInv'
<1> SUFFICES ASSUME ChainInv, OuterInv, Handling PROVE OuterInv'
  OBVIOUS
<1>1. Inside /\ ~preflight
  <2>1. Inside
    BY DEF Handling, Verify, Validate, AddHeader, Write, WriteHeader, Panic, Return, Put,
           Count, Operation, Inside
  <2> QED
    BY <2>1 DEF ChainInv, StageInv, Inside, Answered
<1>2. UNCHANGED <<preflight, cut, ctxDone>>
  BY DEF Handling, Verify, Validate, Refuse, AddHeader, Write, WriteHeader, Panic, Return, Put,
         Count, config
<1>3. timeoutOn => net' = net
  BY DEF Handling, Verify, Validate, Refuse, AddHeader, Write, WriteHeader, Panic, Return, Put,
         Count, ProblemBelow, WriteBelow, HeaderBelow, Buffered
<1>4. ~timeoutOn => ~cut
  BY DEF ChainInv, StageInv
<1> QED
  BY <1>1, <1>2, <1>3, <1>4 DEF OuterInv, CutBody

LEMMA OuterAlways == Spec => []OuterInv
<1>1. Init => OuterInv
  BY DEF Init, OuterInv, Answered
<1>2. ChainInv /\ OuterInv /\ [Next]_vars => OuterInv'
  <2> SUFFICES ASSUME ChainInv, OuterInv, [Next]_vars PROVE OuterInv'
    OBVIOUS
  <2>1. CASE Deadline \/ ClientGone
    <3>1. /\ serve \in {"waiting", "inside"}
          /\ UNCHANGED <<preflight, cut, net, serve>>
      BY <2>1 DEF Deadline, ClientGone, config, outer
    <3>2. ~cut /\ ~Answered
      BY <3>1 DEF ChainInv, StageInv, Answered
    <3> QED
      BY <3>1, <3>2 DEF OuterInv, Answered
  <2>2. CASE TokenExpires \/ Reuse \/ UNCHANGED vars
    <3>1. UNCHANGED <<preflight, cut, ctxDone, net, serve>>
      BY <2>2 DEF TokenExpires, Reuse, vars, config, outer
    <3> QED
      BY <3>1 DEF OuterInv, CutBody, Answered
  <2> QED
    BY <2>1, <2>2, ServingKeepsOuter, HandlingKeepsOuter DEF Next, Over
<1> QED
  BY <1>1, <1>2, ChainAlways, PTL DEF Spec

----------------------------------------------------------------------------
\* The two programs and their copies of the answer are well typed, for every
\* number of calls that a handler makes.
THEOREM ChainTypeCorrect == Spec => []TypeOK
BY ChainAlways, PTL DEF ChainInv

\* With a handler timeout the client gets one whole answer, and a panic becomes
\* a 500 if nothing was sent before it.
THEOREM AnswerAlwaysRight == Spec => []AnswerIsRight
<1>1. ChainInv /\ OuterInv => AnswerIsWhole
  <2> SUFFICES ASSUME ChainInv, OuterInv, Done, timeoutOn
               PROVE  \/ net.body = <<"problem">> /\ net.status \in {401, 500}
                      \/ net.status = 503 /\ net.body = CutBody
                      \/ preflight /\ net.status = 204 /\ net.body = <<>>
                      \/ handler = "ended" /\ net.body = buffer.body /\ net.body = rec.body
    BY DEF AnswerIsWhole, CutBody
  <2> USE DEF ChainInv
  <2>1. Answered
    BY DEF Done, Answered
  <2>2. CASE preflight \/ cut \/ recovered
    BY <2>1, <2>2 DEF AnswerInv, OuterInv, Problem
  <2>3. CASE ~preflight /\ ~cut /\ ~recovered
    <3>1. handler = "ended" /\ net.body = buffer.body /\ net.status = OrOK(buffer.status)
      BY <2>1, <2>3 DEF StageInv, AnswerInv
    <3>2. Mirrors(buffer)
      BY <2>3 DEF WriterInv
    <3> QED
      BY <3>1, <3>2 DEF Mirrors, OrOK
  <2> QED
    BY <2>2, <2>3
<1>2. ChainInv => PanicBecomes500
  BY DEF ChainInv, AnswerInv, PanicBecomes500, Problem
<1> QED
  BY <1>1, <1>2, ChainAlways, OuterAlways, PTL DEF AnswerIsRight

\* The access log and the metrics say what the client got, with the exceptions
\* that LogIsTrue and CountIsTrue name, and no request is counted under another
\* one's route unless it was cut off.
THEOREM RecordsAlwaysTrue == Spec => []RecordsAreTrue
<1>1. ChainInv => LogIsTrue
  <2> SUFFICES ASSUME ChainInv, Done, ~recovered
               PROVE  \/ logged = net.status
                      \/ ~timeoutOn /\ logged = 0 /\ rec.status = 0 /\ net.status = 200
                      \/ ~timeoutOn /\ rewrote /\ logged = rec.status
    BY DEF LogIsTrue, ChainInv, RecordInv, Done
  <2> USE DEF ChainInv
  <2>1. logged = sw /\ Answered
    BY DEF RecordInv, Done, Answered
  <2>2. CASE timeoutOn \/ preflight
    BY <2>1, <2>2 DEF AnswerInv, StageInv
  <2>3. CASE ~timeoutOn /\ ~preflight /\ refusal = "none"
    <3>1. /\ sw = rec.status
          /\ rec.status = 0 => net.status = 200
          /\ ~rewrote => net.status = OrOK(rec.status)
      BY <2>3 DEF AnswerInv, RecorderInv
    <3> QED
      BY <2>1, <2>3, <3>1 DEF OrOK, TypeOK
  <2>4. CASE ~timeoutOn /\ ~preflight /\ refusal # "none"
    BY <2>1, <2>4 DEF AnswerInv, RecorderInv, Problem
  <2> QED
    BY <2>2, <2>3, <2>4
<1>2. ChainInv => CountIsTrue
  <2> SUFFICES ASSUME ChainInv
               PROVE  /\ handler = "ended" => counted # Unset
                      /\ Done /\ counted # Unset /\ ctxDone = "no" /\ ~rewrote =>
                           counted = net.status
    BY DEF CountIsTrue
  <2> USE DEF ChainInv
  <2>1. handler = "ended" => counted # Unset
    BY DEF RecordInv, OrOK, Unset, TypeOK
  <2>2. ASSUME Done, counted # Unset, ctxDone = "no", ~rewrote PROVE counted = net.status
    <3>1. handler = "ended" /\ counted = OrOK(met) /\ ~cut /\ ~preflight /\ ~recovered /\ Answered
      BY <2>2 DEF RecordInv, StageInv, Done, Answered
    <3>2. CASE timeoutOn
      <4>1. net.status = OrOK(buffer.status) /\ Mirrors(buffer)
        BY <3>1, <3>2 DEF AnswerInv, WriterInv
      <4> QED
        BY <2>2, <3>1, <4>1 DEF Mirrors, RecorderInv, OrOK
    <3>3. CASE ~timeoutOn
      BY <2>2, <3>1, <3>3 DEF AnswerInv, RecorderInv, OrOK, Problem
    <3> QED
      BY <3>2, <3>3
  <2> QED
    BY <2>1, <2>2
<1>3. ChainInv => RouteIsOwn
  BY DEF ChainInv, RecordInv, AnswerInv, RouteIsOwn
<1> QED
  BY <1>1, <1>2, <1>3, ChainAlways, PTL DEF RecordsAreTrue

\* How the answer that a handler's client got and the recorder's copy differ,
\* for every sequence of calls of any length on the writer: their bodies agree,
\* their statuses too but for a handler that wrote nothing or rewrote its status.
LEMMA CopiesAgree ==
  ASSUME ChainInv, ServedByHandler
  PROVE  /\ net.body = rec.body
         /\ rec.status = 0 => net.status = 200 /\ net.body = <<>>
         /\ ~rewrote => net.status = OrOK(rec.status) /\ rec.headers <= net.headers
<1> USE DEF ChainInv, ServedByHandler
<1>1. /\ handler = "ended" /\ refusal = "none" /\ Answered
      /\ ~cut /\ ~preflight /\ ~recovered
  BY DEF StageInv, Done, Answered
<1>2. /\ rec.headers <= header /\ rec.headers <= 1
      /\ rec.status = 0 => rec.body = <<>> /\ rec.headers = 0
  BY EmptyFacts DEF RecorderInv
<1>3. CASE timeoutOn
  <2>1. /\ net.status = OrOK(buffer.status) /\ net.body = buffer.body
        /\ net.headers = header /\ Mirrors(buffer)
    BY <1>1, <1>3 DEF AnswerInv, WriterInv
  <2> QED
    BY <1>1, <1>2, <2>1 DEF Mirrors, OrOK
<1>4. CASE ~timeoutOn
  <2>1. /\ net.body = rec.body
        /\ rec.status = 0 => net.status = 200
        /\ ~rewrote => net.status = OrOK(rec.status)
        /\ rec.status # 0 /\ ~rewrote => rec.headers <= net.headers
    BY <1>1, <1>4 DEF AnswerInv
  <2>2. net.headers \in 0 .. 2
    BY ResponseFacts DEF TypeOK
  <2> QED
    BY <1>2, <2>1, <2>2
<1> QED
  BY <1>3, <1>4

\* What Redis holds for a retry has the body of the answer that the client got,
\* and its status and headers unless the handler called WriteHeader too late.
THEOREM ReplayAlwaysOriginal == Spec => []ReplayIsOriginal
<1>1. ChainInv => ReplayIsOriginal
  <2> SUFFICES ASSUME ChainInv, Done, stored # Empty, ctxDone = "no"
               PROVE  /\ stored.body = net.body
                      /\ stored.status = net.status \/ rewrote
                      /\ stored.headers <= 1 /\ (stored.headers <= net.headers \/ rewrote)
    BY DEF ReplayIsOriginal
  <2> USE DEF ChainInv
  <2>1. /\ stored = rec /\ IsSuccess(rec.status) /\ handler = "ended" /\ ~cut
    BY DEF StoreInv, StageInv, Done, Answered, Inside
  <2>2. rec.status # 0 /\ refusal = "none" /\ rec.headers <= 1
    BY <2>1, EmptyFacts DEF RecorderInv, IsSuccess
  <2>3. ServedByHandler
    BY <2>1, <2>2 DEF ServedByHandler
  <2> QED
    BY <2>1, <2>2, <2>3, CopiesAgree DEF OrOK
<1> QED
  BY <1>1, ChainAlways, PTL

\* A client that was told of a success finds it in Redis unless its context
\* ended before put, the handler wrote nothing, or a late WriteHeader turned the
\* recorder's status into a failure; and one that was told of a failure finds
\* nothing unless WriteHeader was late.
THEOREM SuccessAlwaysKept == Spec => []SuccessIsKept
<1>1. ChainInv => SuccessIsKept
  <2> SUFFICES ASSUME ChainInv, ServedByHandler
               PROVE  /\ IsSuccess(net.status) /\ stored = Empty =>
                           \/ ctxDone # "no"
                           \/ rec.status = 0 /\ net.body = <<>>
                           \/ rewrote /\ ~IsSuccess(rec.status)
                      /\ ~IsSuccess(net.status) /\ stored # Empty => rewrote
    BY DEF SuccessIsKept
  <2>1. IsSuccess(rec.status) /\ stored = Empty => ctxDone # "no"
    BY DEF ChainInv, StoreInv, ServedByHandler
  <2>2. stored # Empty => IsSuccess(rec.status)
    BY DEF ChainInv, StoreInv
  <2>3. /\ rec.status = 0 => net.body = <<>>
        /\ ~rewrote /\ rec.status # 0 => net.status = rec.status
    BY CopiesAgree DEF OrOK
  <2>4. ~IsSuccess(0)
    BY DEF IsSuccess
  <2> QED
    BY <2>1, <2>2, <2>3, <2>4
<1> QED
  BY <1>1, ChainAlways, PTL

\* A handler runs for genuine, unexpired tokens only, and a refusal has one of
\* four reasons, for both verifiers, all options and all readings of the clock.
THEOREM VerdictAlwaysRight == Spec => []VerdictIsRight
<1>1. ChainInv => OnlyGenuineIsServed
  <2> SUFFICES ASSUME ChainInv, handler \in {"run", "storing", "panicked"} \/ ops > 0
               PROVE  HasBearer(auth) /\ Genuine(mode, auth) /\ ~expired
    BY DEF OnlyGenuineIsServed
  <2>1. /\ handler \in {"run", "storing", "counting", "ended", "panicked"}
        /\ refusal = "none"
    BY DEF ChainInv, TypeOK, FreshInv, TokenInv
  <2> QED
    BY <2>1 DEF ChainInv, TokenInv
<1>2. ChainInv => RefusalHasReason
  BY DEF ChainInv, TokenInv
<1> QED
  BY <1>1, <1>2, ChainAlways, PTL DEF VerdictIsRight
=============================================================================
