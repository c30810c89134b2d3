------------------------------- MODULE Health -------------------------------
(***************************************************************************)
(* Readiness: health.Registry (src/core/health/health.go) and the handler  *)
(* of GET /health/ready (src/hwhkit/production/endpoints.go).  A request   *)
(* copies the list of checks, runs one goroutine per check under a context *)
(* with a timeout, waits for all of them and answers with the worst        *)
(* status.                                                                 *)
(***************************************************************************)
EXTENDS Providers

CONSTANTS Checks,    \* provider keys, and "app" for a check of the application
          ReadyRequests   \* readiness requests

ASSUME ChecksAssumption == Checks \subseteq AllKeys \cup {"app"}

\* "unknown" is the zero value of Status.
Statuses == {"unknown", "healthy", "degraded", "unhealthy"}

VARIABLES
  registry,  \* the registered checks
  remote,    \* check -> its remote is "up", "down" or silent ("hung")
  stage,     \* request -> where its handler is
  before,    \* request -> the checks registered when it arrived (history)
  seenUp,    \* request -> checks whose remote was up since then (history)
  expired,   \* request -> its context has ended
  snap,      \* request -> the checks it copied
  probe,     \* request -> check -> state of the goroutine
  results,   \* request -> check -> the status it reported
  answer     \* request -> overall status, "none" before

hVars == <<registry, remote, stage, before, seenUp, expired, snap, probe,
          results, answer>>

HInit ==
  /\ registry = {}
  /\ remote = [c \in Checks |-> "up"]
  /\ stage = [r \in ReadyRequests |-> "none"]
  /\ before = [r \in ReadyRequests |-> {}]
  /\ seenUp = [r \in ReadyRequests |-> {}]
  /\ expired = [r \in ReadyRequests |-> FALSE]
  /\ snap = [r \in ReadyRequests |-> {}]
  /\ probe = [r \in ReadyRequests |-> [c \in Checks |-> "off"]]
  /\ results = [r \in ReadyRequests |-> [c \in Checks |-> "unknown"]]
  /\ answer = [r \in ReadyRequests |-> "none"]
----------------------------------------------------------------------------
Up == {c \in Checks : remote[c] = "up"}

Open(r) == stage[r] \in {"arrived", "waiting"}

\* Register: the bootstrap pipeline, or the application at any time.  Checks
\* names each check that is ever registered, so none is registered twice.
Register(c) ==
  /\ c \notin registry
  /\ registry' = registry \cup {c}
  /\ UNCHANGED <<remote, stage, before, seenUp, expired, snap, probe, results,
                 answer>>

\* The integration itself, external to the process.
RemoteChanges(c) ==
  /\ c # "app"
  /\ \E s \in {"up", "down", "hung"} : remote' = [remote EXCEPT ![c] = s]
  /\ seenUp' = [r \in ReadyRequests |->
                  IF Open(r) THEN seenUp[r] \cup Up' ELSE seenUp[r]]
  /\ UNCHANGED <<registry, stage, before, expired, snap, probe, results, answer>>

\* The handler starts: a context with readinessProbeTimeout.
Ready(r) ==
  /\ stage[r] = "none"
  /\ stage' = [stage EXCEPT ![r] = "arrived"]
  /\ before' = [before EXCEPT ![r] = registry]
  /\ seenUp' = [seenUp EXCEPT ![r] = Up]
  /\ UNCHANGED <<registry, remote, expired, snap, probe, results, answer>>

\* The timeout passes, or the client goes away.
Expire(r) ==
  /\ Open(r)
  /\ ~expired[r]
  /\ expired' = [expired EXCEPT ![r] = TRUE]
  /\ UNCHANGED <<registry, remote, stage, before, seenUp, snap, probe, results,
                 answer>>

\* Probe copies the list under the read lock, adds every check to the wait
\* group and starts its goroutine.
Spawn(r) ==
  /\ stage[r] = "arrived"
  /\ stage' = [stage EXCEPT ![r] = "waiting"]
  /\ snap' = [snap EXCEPT ![r] = registry]
  /\ probe' = [probe EXCEPT ![r] =
                 [c \in Checks |-> IF c \in registry THEN "spawned" ELSE "off"]]
  /\ UNCHANGED <<registry, remote, before, seenUp, expired, results, answer>>

ProbeStarts(r, c) ==
  /\ probe[r][c] = "spawned"
  /\ probe' = [probe EXCEPT ![r][c] = "running"]
  /\ UNCHANGED <<registry, remote, stage, before, seenUp, expired, snap,
                 results, answer>>

ProbeEnds(r, c, status) ==
  /\ probe[r][c] = "running"
  /\ probe' = [probe EXCEPT ![r][c] = "ended"]
  /\ results' = [results EXCEPT ![r][c] = status]
  /\ UNCHANGED <<registry, remote, stage, before, seenUp, expired, snap, answer>>

\* The ways in which a probe of c can end.
Ends(c) == UNION HealthChecks[c]

\* The remote answers, or refuses.
RemoteAnswers(r, c) ==
  /\ c # "app"
  /\ "answer" \in Ends(c)
  /\ remote[c] # "hung"
  /\ ProbeEnds(r, c, IF remote[c] = "up" THEN "healthy" ELSE "unhealthy")

\* Nothing came in time: the check's own timer or its driver's, or the
\* request's context where the check looks at it.
WaitIsOver(r, c) ==
  /\ c # "app"
  /\ \/ Ends(c) \cap {"probe_timeout", "driver_timeout"} # {}
     \/ "ctx" \in Ends(c) /\ expired[r]
  /\ ProbeEnds(r, c, "unhealthy")

\* A check of the application returns whatever it likes.
AppAnswers(r, c) ==
  /\ c = "app"
  /\ \E s \in Statuses : ProbeEnds(r, c, s)

\* Mutant: wg.Add is called by the goroutine, so Wait misses those that have
\* not started.
WaitSeesStarted(r) == \A c \in snap[r] : probe[r][c] # "running"

\* wg.Wait
AllEnded(r) == \A c \in snap[r] : probe[r][c] = "ended"

\* Mutant: overall starts as the zero value.
OverallFromZero(r) ==
  LET reported == {results[r][c] : c \in snap[r]}
  IN  CASE "unhealthy" \in reported -> "unhealthy"
        [] "unhealthy" \notin reported /\ "degraded" \in reported -> "degraded"
        [] OTHER -> "unknown"

\* The worst status; "unknown" counts as healthy.
Overall(r) ==
  LET reported == {results[r][c] : c \in snap[r]}
  IN  CASE "unhealthy" \in reported -> "unhealthy"
        [] "unhealthy" \notin reported /\ "degraded" \in reported -> "degraded"
        [] OTHER -> "healthy"

\* Aggregate and answer: 503 if unhealthy, 200 if not.
Answer(r) ==
  /\ stage[r] = "waiting"
  /\ AllEnded(r)
  /\ stage' = [stage EXCEPT ![r] = "answered"]
  /\ answer' = [answer EXCEPT ![r] = Overall(r)]
  /\ UNCHANGED <<registry, remote, before, seenUp, expired, snap, probe, results>>

HNext ==
  \/ \E c \in Checks : Register(c) \/ RemoteChanges(c)
  \/ \E r \in ReadyRequests : Ready(r) \/ Expire(r) \/ Spawn(r) \/ Answer(r)
  \/ \E r \in ReadyRequests, c \in Checks :
       \/ ProbeStarts(r, c) \/ RemoteAnswers(r, c) \/ WaitIsOver(r, c)
       \/ AppAnswers(r, c)

\* Go runs the handler and its goroutines, and a timer that is running fires.
\* Nothing is assumed of the remotes.
HFairness ==
  \A r \in ReadyRequests :
    /\ WF_hVars(Spawn(r))
    /\ WF_hVars(Answer(r))
    /\ \A c \in Checks : WF_hVars(ProbeStarts(r, c)) /\ WF_hVars(WaitIsOver(r, c))

HSpec == HInit /\ [][HNext]_hVars

HFairSpec == HSpec /\ HFairness
----------------------------------------------------------------------------
(***************************************************************************)
(* Properties                                                              *)
(***************************************************************************)

\* The variables have the types of the Go values they stand for; the answer
\* is never the zero status.
HTypeOK ==
  /\ registry \subseteq Checks
  /\ remote \in [Checks -> {"up", "down", "hung"}]
  /\ stage \in [ReadyRequests -> {"none", "arrived", "waiting", "answered"}]
  /\ before \in [ReadyRequests -> SUBSET Checks]
  /\ seenUp \in [ReadyRequests -> SUBSET Checks]
  /\ expired \in [ReadyRequests -> BOOLEAN]
  /\ snap \in [ReadyRequests -> SUBSET Checks]
  /\ probe \in [ReadyRequests -> [Checks -> {"off", "spawned", "running", "ended"}]]
  /\ results \in [ReadyRequests -> [Checks -> Statuses]]
  /\ answer \in [ReadyRequests -> {"none", "healthy", "degraded", "unhealthy"}]

\* A 200 from /health/ready is earned: every integration that had registered
\* its check when the request arrived answered a probe of this very request,
\* at a moment between arrival and answer at which it was up.  Neither a
\* probe that was cut off nor one that has not run yet passes for healthy,
\* whatever registers, expires or recovers meanwhile.
ReadyIsEarned ==
  \A r \in ReadyRequests :
    stage[r] = "answered" /\ answer[r] # "unhealthy" =>
      \A c \in before[r] \ {"app"} :
        results[r][c] = "healthy" /\ c \in seenUp[r]

\* A readiness request is answered although remotes hang, whatever registers
\* meanwhile.  wg.Wait takes no context, so one goroutine that stays keeps the
\* handler for good, and two integrations ask a client that takes no context
\* either: every check has to end by a timer of its own or of its driver, and
\* need not rely on the request's context.  Only a check of the application
\* could wait for ever.
ReadinessAnswers ==
  \A r \in ReadyRequests :
    (stage[r] = "arrived") ~> (stage[r] = "answered" \/ "app" \in snap[r])
=============================================================================
