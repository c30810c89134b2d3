# hwhkit-go in TLA+

A verification project for hwhkit-go, a toolkit that boots a Go service from a
configuration, wires integrations (databases, queues, object stores, LLM APIs)
into it, serves HTTP and shuts everything down again, with middlewares for
idempotency, rate limiting, tenants, tokens and circuit breaking.

The models keep all of the control flow of the code (guards, early returns,
error paths, order) and abstract the data. Everything is plain TLA+: `tlc` runs
the configurations, `tlapm` checks the proofs. `PROJECT.json` maps every
definition to the lines it models.

## 1. Inventory

| component | state | operations | interacts with | what is hard | correct when |
|---|---|---|---|---|---|
| Bootstrap pipeline (`core/bootstrap.go`, `hwhkit/bootstrap.go`) | provider list, features, retained and degraded providers, health registry, application context | options, load, validate, the Init loop, router | calls loader, providers, application | any step fails; order of registration; a key registered twice | a built application accounts for every enabled provider; failures leave no traces; nobody runs on a client that does not exist |
| Providers (`integration/*`, `scheduler`) | one client each, handle in the context | Init, HealthCheck, Shutdown | drivers, remotes, each other's handles | failures half-way, closes that outlive their call | a failed Init releases what it opened |
| Server (`production/server.go`) | listener goroutine, error channel, signal, token, drain, loop over providers | Serve | http.Server, requests, providers | signal against listener error; drain timeout; handlers that outlive their response; Shutdown that hangs | requests are drained before providers go; dependants go first; nothing is missed; Serve returns |
| Health (`core/health`, `production/endpoints.go`) | list of checks; per request a result per check | Register, Probe, readiness handler | providers' checks | concurrent probes, registration meanwhile, silent remotes | a 200 is earned; every request is answered |
| Idempotency (`idempotency/`) | in Redis a response and a lock per scope | middleware | Redis, handler | check-then-lock, lock TTL, unowned DEL, crashes, lost replies | executions exclude each other; only successes are replayed; a lock that stays has a crash or Redis behind it |
| Rate limiter (`ratelimit/`) | in Redis tokens, ts and expiry per key | Allow, middleware | Redis, clock | clock readings out of order, expiry, rounding | admissions are bounded; Retry-After is honest |
| Tenant scope (`tenant/`) | map from tenant to instance | Put, Get, Remove, extractor | factory | factory outside the lock | operations look atomic |
| LLM calls (`integration/llm/`) | request, response body, pump goroutine, channel | Chat, Embed, ChatStream | HTTP API, consumer | full channel, consumer that leaves, broken stream, many error paths | nothing lost, body released, channel closes, break reported |
| Circuit breaker (`circuitbreaker/`) | gobreaker's state, a gauge, a counter | RoundTrip | base transport, upstream, gobreaker | concurrent calls, answers of an earlier generation, 5xx returned with an error | it trips on a streak and on nothing else, is never stuck, recovers; the gauge is true |
| Middleware chain (`hwhkit/middleware/`) | response writer wrappers, the timeout's buffer, chi's routing context | the eight middlewares in order | handler, jwt and idempotency middlewares | panic and timeout pass wrappers by; two goroutines per request | the client gets a whole answer in time; log and metrics say what it got |
| Configuration (`config/`) | merged configuration, applied sources | Load | files, environment, remote patch | precedence, a file that changes, a silent server | later sources win, the list of sources is true, Load ends |
| JWT (`jwt/`) | key set | Verify, middleware | JWKS endpoint | two verifiers, checks in two places, two readings of the clock | only genuine tokens reach a handler; others are refused with their reason |
| Errors, responses, observability, CLI, migrations, build info | none, or none of their own | | libraries | | not modelled, see section 7 |

The hazards of this code, each at its line with the properties that cover it,
are listed in `PROJECT.json`.

## 2. Modules

| module | models | composed of |
|---|---|---|
| `Providers` | Init, Shutdown and HealthCheck of every shipped provider, as sets of outcomes | |
| `Bootstrap` | facade options and `core.BootstrapWith` | extends `Providers` |
| `Server` | `production.Serve`, requests, the release of the providers | extends `Bootstrap`, so that it starts from every application the pipeline can build |
| `Health` | registry and readiness handler | extends `Providers` for the ways in which a probe ends |
| `Idempotency` | the middleware over a shared Redis | |
| `RateLimit` | the Lua script, `Allow` and the middleware, one key | |
| `TenantScope` | `tenant.Scope`, extractor and context | refines `AtomicScope` |
| `AtomicScope` | abstract: a map with atomic operations | |
| `LLMCall` | one call through `llm.Handle`, pump and consumer | |
| `CircuitBreaker` | `circuitbreaker.Transport` over gobreaker, concurrent callers | |
| `JwtVerify` | tokens, both verifiers and `parseAndValidate` as operators, with a reference | |
| `HttpChain` | one request through the chain of `production.Serve`, the jwt middleware, the idempotency recorder and a handler | extends `JwtVerify` |
| `ConfigLoader` | `config.Loader.Load` with its file, variables and remote server | |
| `MCServer` | the keys TLC uses | extends `Server` |
| `*Proofs` | theorems | extend the component and `TLAPS`; `ServerProofs` has those of `Bootstrap` and `Health`, too, whose names with an H are there to keep the two machines apart |

How state and actions correspond to the code:

* **Providers / Bootstrap.** A provider is its position in the registration
  order. `handles` is the application context (one entry per handle type,
  insertion replaces), `client[i]` the state of what Init number `i` opened,
  `uses[i]` what it captured (the scheduler captures the pool). `WithProvider`,
  `WithFeature` and `PassProvider` are the calls that precede the pipeline; one
  turn of the loop is `Skip`, `FeatureMismatch`, `InitSucceeds` or `InitFails`.
  The loader is its outcome: any set of enabled and required keys, or an error.
* **Server.** `serve` is the program counter of Serve. `SelectError` and
  `SelectSignal` are the two cases of the select; `HttpShutdown`, `Drained` and
  `DrainExpires` the drain; `CallShutdown`/`ReturnShutdown` one turn of the
  loop that counts down. Handlers, connections and closes that go on in the
  background (`Accept`, `Respond`, `FinishClose`) are external.
* **Idempotency.** One action per Redis command or handler step. Errors of
  commands, a SETNX that was applied although its reply was lost, crashes,
  panics and expiry of both keys are actions. The owner of a lock is history:
  the code stores "1".
* **RateLimit.** `Stamp` reads the clock, `Admit`/`Deny` run the script later.
  Numbers are scaled by `Window` and exact; Redis' floating-point rounding and
  clock skew between instances are left out. `credited`, `rewound` and
  `granted` are history that accounts for every unit. A request without a key
  passes and touches nothing.
* **TenantScope.** Each critical section is a step; the factory runs between.
* **Health.** A goroutine per check; `remote` is the integration. How a wait
  can end comes from `Providers`. `before` and `seenUp` are history.
* **LLMCall.** `Call` covers routing and request building; `DoFails`,
  `BadStatus`, `Decode` and `StartPump` the outcomes of the HTTP exchange;
  `ScanEvent` ... `CloseChannel` the pump with its deferred calls in order.
* **CircuitBreaker.** `Begin` and `Refuse` are the first half of `RoundTrip`,
  `End` the second; `ReturnsError` is the function it hands to `Execute`, `ReadyToTrip`
  and `OnStateChange` the callbacks of `NewTransport`. gobreaker is external: its
  generations are the set `current` of calls that still count, its expiry a
  countdown. `since` and `streak` are history, kept by what can be seen from
  outside (state changes, ends of windows) and apart from gobreaker's counts.
* **HttpChain.** Two programs, as in the code: the serving goroutine (`serve`)
  and, under a handler timeout, the one that `http.TimeoutHandler` starts
  (`handler`). `net`, `buffer`, `rec` are the response on the connection, in the
  timeout's buffer and in the recorder; `sw` and `met` the two status writers.
  The three cases of TimeoutHandler's select are `Repanic`, `Flush` and `CutOff`.
  Headers are a count of values of one header, a body the sequence of its
  writes. `route` is chi's pooled routing context. Compress, BodyLimit,
  RequestID and the CORS headers are left out.
* **ConfigLoader.** `pc` follows Load. Patches set some of three keys: the two
  that Load itself uses and one for all the others. `seen` and `there` are
  history. Merging is koanf's and external.

Operators whose comment begins with "Mutant" are not part of the models: each
is a plausible bug, and the property it is paired with in `PROJECT.json` fails
when it takes the place of the real definition.

## 3. Runs that pass

| configuration | bounds | shows |
|---|---|---|
| `MCServer` | postgres and scheduler, at most 3 providers, 2 requests, handler timeout on | `BuiltAccountsForEnabled`, `OnlyRetainedLeaveTraces`, `CapturesEarlierOnly` over all registrations, configurations and Init outcomes; `DrainBeforeRelease`, `DependentsReleasedFirst`, `ReturnReleasesAll` and `ReturnsAfterSignal` of Serve on whatever was built |
| `Idempotency` | 3 requests, 2 scopes | `OverlapNeedsExpiry`, `ReplaysOnlySuccess`, `LockHasReason` |
| `RateLimit` | 2 requests at a time, limit 2 per 3 ms, burst 3, clock to 7 | `AdmissionBound` (`AdmissionAccount` and `ExpiryIsHarmless`), `RetryAfterIsHonest` |
| `TenantScope` | 3 callers, 2 tenants, 3 instances | `ImplementsAtomic` (refinement) |
| `Health` | oss (a timer of its own and the context), nats (its driver's timer only) and an application check, 1 request | `ReadyIsEarned`, `ReadinessAnswers` |
| `LLMCall` | both kinds of backend, room for 2, 4 events, consumer may leave | `StreamIsFaithful`, `BodyIsReleased`, `AnthropicReportsBreak`, `ClosesForReaders` |
| `CircuitBreaker` | 3 callers, 2 failures, 2 trial calls, interval 2, timeout 1 | `HalfOpenHasWayOut`, `TripsOnStreak`, `RecoversWithUpstream` |
| `HttpChain` | every class of token, both verifiers, timeout on and off, 4 calls of the handler on its writer | of the answer `AnswerIsRight` (`AnswerIsWhole`, `PanicBecomes500`) and `AnswersInTime`; of log and metrics `RecordsAreTrue` (`LogIsTrue`, `CountIsTrue`, `RouteIsOwn`); of what is stored for replay `ReplayIsOriginal` and `SuccessIsKept`; of tokens `VerdictIsRight` (`OnlyGenuineIsServed`, `RefusalHasReason`) |
| `ConfigLoader` | each source sets at most 2 of 3 keys; the client's timeout is 2 ticks, the remote's 1 or 3 | `PrecedenceHolds` (`ResultIsPrecedence`, `FetchesWhatLocalsSay`), `AppliedIsTrue`, `LoadEnds` |

Each also checks the type invariant of its module.

Why the bounds are enough for the interesting cases: three providers are the
least with which a key is registered twice beside the scheduler that depends on
it, in every order. Three requests let one lose its lock, a second take it, the
first delete it and a third enter. Two requests in Allow reorder clock and
script, and the clock runs past the expiry of two windows; a bucket of three is
not refilled in one window of two, so a shorter expiry would show. With three callers
two race to create an instance while the third puts or removes. Four events
overfill a channel of two. Readiness requests share nothing but the registry,
which changes during the one request checked; the proof is for any number.
Three callers
of a breaker with two trial calls: two are admitted and one is refused, and an
answer of an earlier generation arrives among two of the present one. Four
calls on a writer set a header, start the answer, set another and write again.
With two keys of three in each source one is overridden and one is not.
`TenantScope` does not check for deadlock, because
the bounded supply of instances can run out.

Fairness, and why the code justifies it:

* `Server`: weak fairness of Serve's goroutine and of the listener's start. Every
  wait of Serve ends by a timeout (drain, per-provider context). None for
  requests, signals or closes in the background.
* `Health`: goroutines run, and a wait that has a timer ends: the check's own,
  its driver's, or the context's once that is done. None for the remotes, which
  may hang for ever, and none that the context ends.
* `LLMCall`: the pump runs, a consumer that has not left reads, and the source
  ends, because the HTTP client always has a positive timeout that covers the
  body.
* `CircuitBreaker`: time passes, callers come back, and calls of the base
  transport end, which is the case when the HTTP client or the request's context
  has a deadline. None for the upstream.
* `HttpChain`: the serving goroutine runs and TimeoutHandler's timer fires. None
  for the handler, which may never return, nor for the client.
* `ConfigLoader`: Load runs and time passes. None for the remote server.

## 4. Disagreements between code and documents

Each is a run that TLC refutes; the quotations are in `PROJECT.json`.

* `MCServerInFlight`: a handler that was answered for by the handler timeout is
  not drained.
* `IdempotencyReplay`: a stale cache miss runs the handler again although
  nothing has expired.
* `LLMCallLeave`: a pump whose consumer has left blocks for ever.

Others are visible in the models and have no run of their own; the properties
of the passing runs are stated so that they hold, and say where the limit is.
Design stands for `docs/specs/2026-05-16-hwhkit-go-rs-parity-design.md`.

* Serve returns nil after an expired drain or a failed Shutdown (`ServeReturns`);
  design:386 says "Return nil if clean, error otherwise".
* Late script runs of the rate limiter move ts back and admit more than a token
  bucket would; `AdmissionBound` says how much more (`rewound`).
* The compatible pump hides a broken stream (`AnthropicReportsBreak` is about the
  other one).
* A 5xx response is returned together with an error (`ReturnsError`), and
  `http.Client` drops it with its body open. The contract of
  `http.RoundTripper`, which design:623 names, has no such result. Bodies are not
  in the model: it happens on every 5xx, whatever runs beside it.
* design:304 says that any panic becomes a 500. Without a handler timeout it does
  not once the answer has begun (`PanicBecomes500`), and a panic is in no access
  log (`LogIsTrue`).
* A request that was cut off is counted with the status its handler wrote to
  nobody, later or never, and possibly under another request's route
  (`CountIsTrue`, `RouteIsOwn`).
* design:616 says that a replay has the headers: of a handler that never calls
  WriteHeader it has none, of several values it has one. And if WriteHeader was
  called when the answer had begun, its status is the last one, not the one that
  was sent: a 404 may be replayed as a 200 (`ReplayIsOriginal`).
* design:619 says that a retry within the TTL is replayed. A success that the
  client got is not stored, and executes again, in three cases that
  `SuccessIsKept` names: its context had ended before put, under which the
  response is stored; the handler wrote nothing, so that the client got an
  implicit 200 and the recorder has no status; or a late WriteHeader with another
  code left a failure in the recorder.
* A token with its audience in an array, which the standard allows, is refused,
  and an expired token is reported as one with an invalid signature unless it
  expires during the check (`RefusalHasReason`).
* design:410 promises JSON or TOML for the remote patch; the loader only parses
  TOML, and any other body fails the load (`Answer`).
* llm is not in the table of `validateFeatureMapping` (`MappedKeys`), although
  every enabled integration is said to need its feature. llm, the scheduler, and
  s3 or oss without a bucket have no check, although readiness is said to probe
  every initialised integration. And a handler that takes longer than LockTTL
  does not keep a second request with its key out: `OverlapNeedsExpiry` says that
  this is the only way in.

## 5. Proofs

All theorems hold for every value of the constants that satisfies the named
assumptions: keys are those of shipped providers, numbers are natural (limit,
window, burst and second positive), `None` is not a request, tenant or value.

* **`ConfigLoaderProofs`.** `LoadInv`: at every stage the merged configuration is
  what the sources read so far amount to when they are laid over each other
  (`MergedInv`: `Overlaid`, in which a source not yet read is the patch that sets
  nothing); the list of sources grows in their order (`ListOrderInv`) and has
  precisely those that a stage has been through (`ListedInv`); the URL is the
  local sources' (`FetchedInv`). `LatestOfAll` and `LatestOfLocals` show that the
  overlays are what `Latest`, the reference of the properties, picks.
* **`ServerProofs`** has three parts.
  * *Bootstrap.* `BootInv` strengthens the properties by what the loop has done up
    to `index` (`ProgressInv`, `VisitedInv`), by each handle being that of the
    *last* initialised provider of its key (`HandleInv`), and by who may own an
    open client (`ClientInv`). `InitOutcomeFacts` says of all ten providers what
    the pipeline relies on.
  * *Serve.* `ServerInv` adds to `BootInv` what each stage of Serve has
    established (`StageInv`: after the drain no request becomes active), that the
    loop counts down (`OrderInv`), that nothing is released ahead of its turn
    (`UntouchedInv`) and that what the loop has passed is released, a scheduler
    stopped or its failure recorded (`PassedInv`).
    That dependants go first needs `CapturesEarlierOnly` of the bootstrap: a
    captured client lies at a smaller position. A duplicate key makes Shutdown of
    one position act on the client of a later one (`TargetFacts`), which is why
    the order has to be stated over targets.
  * *Readiness.* `HealthInv`: a healthy result belongs to a probe that ended while
    the remote was up, after the request arrived; and an answered request has a
    result of every check it copied, which include all that were registered
    before.
* **`IdempotencyProofs`.** `LockInv`: whoever is between SETNX and DEL has the
  lock, has lost it to expiry or was robbed of it; and every robbery is preceded
  by an expiry in its scope. `ReplayInv`: cached responses are successes whose
  requests are past their handler, so their status no longer changes.
* **`RateLimitProofs`.** `BoundInv` is an accounting identity: what was admitted
  plus what the bucket holds is at most the full bucket, the refill up to
  `credited`, the rewound time and the grants of expiry. `DenyInv` ties the last
  denial to the stored bucket; `WaitFacts` and `RetryAfterFacts` are the
  rounding lemmas.
* **`TenantScopeProofs`.** Step simulation: `Lookup`, `FactoryFails` and `Store`
  map to `Get`, to a stutter and to `Get` or `GetCreates`. A Get whose factory
  will fail takes effect when it misses, which is why `Miss` settles whether the
  factory will fail and the mapping shows such a Get as done.
* **`LLMCallProofs`.** `CallInv` ties the pump's position to what is open: the
  body is open exactly from the request to `CloseBody`, the channel closes after
  it, and a scan error is the last thing sent.
* **`CircuitBreakerProofs`.** `BreakerInv`: the failures that a closed breaker counted are the streak,
  and in half-open every admitted call has either succeeded, which is counted,
  or is still in flight in the present generation. So when all trial calls are
  used up and fewer than that many have succeeded, one is in flight. The history
  of `TripsOnStreak` does not look at generations; that its calls are the ones
  gobreaker counts is `SinceInv`.
* **`HttpChainProofs`.** `ChainInv` says how far the copies of an answer agree:
  the handler's goroutine writes through recorder and metrics writer into the
  buffer (with a timeout) or into the connection (without), and until it is cut
  off or panics all of them hold the same status and body (`RecorderInv`,
  `WriterInv`); the connection is untouched until one of the two programs
  answers, and then holds the whole buffer, the 503, a problem or the preflight's
  204 (`AnswerInv`). `StageInv` and `FreshInv` say which pairs of positions of the
  two programs exist and that a handler that has not started has written
  nothing. `OuterInv` adds that a handler that goes on after the 503 puts nothing
  into it. `TokenInv` keeps what the first reading of the clock and the signature
  have shown for the second one. `RecordInv` and `StoreInv` tie log, metrics and
  Redis to those copies, and `CopiesAgree` says where the recorder's copy differs
  from what was sent, which is all that replays can get wrong. No property is inductive alone: `AnswerIsWhole` speaks of
  buffer and recorder when the request is done, and they were made equal write by
  write.

`GetNeverReplaces` and `GaugeIsTrue` are proved and have no run of their own; `AdmissionBound` is proved from its two parts.

Every safety property that a run checks is a theorem, the refinement and the
action property included. Only model-checked is liveness (`ReturnsAfterSignal`,
`ReadinessAnswers`, `ClosesForReaders`, `RecoversWithUpstream`,
`AnswersInTime`, `LoadEnds`), which needs fairness and ENABLED, out of this
prover's reach. The expected violations of section 4 are TLC's as well.

## 6. Plan

Done, in this order: `Providers`, `Bootstrap`, `Server`, `Idempotency`,
`RateLimit`, `TenantScope`/`AtomicScope`, `Health`, `LLMCall`, `CircuitBreaker`,
`JwtVerify`/`HttpChain`, `ConfigLoader`, and the proofs above. Next:

1. An abstract specification of the idempotency middleware (at most one
   execution at a time) refined under the assumption that no lock expires.

## 7. Not modelled, and why

* Observability, build information, the envelope of `apiresponse`, formatting of
  responses and errors: set-up of libraries or records, no state of their own.
* The command line (`init`, `dev`): file generation and process control.
* Migrations (`migrate`): each command is one call of golang-migrate. Versions,
  the dirty flag and the lock are that library's, and a model of them would be a
  model of the library. `migrations.run_on_start` is in the configuration and
  read by nothing.
* Of the middleware chain RequestID, Compress and BodyLimit, which change neither
  status nor control; of jwt the refresh of the cached key set, the library's.
* The job queue behind the scheduler (river).
* Clean-up when a bootstrap fails: the code has none, and no document claims one.

The drivers, river, gobreaker, koanf, golang-jwt, chi, Redis and net/http are
external; they appear only in what the code relies on.
