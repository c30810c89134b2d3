------------------------------- MODULE Server -------------------------------
(***************************************************************************)
(* production.Serve (src/hwhkit/production/server.go) on top of a built    *)
(* application: the goroutine that listens, the requests it accepts, the   *)
(* signal, the drain with its timeout, and the shutdown of the providers   *)
(* in reverse order, each under a timeout of its own.                      *)
(***************************************************************************)
EXTENDS Bootstrap

CONSTANTS Requests,          \* the requests clients may send
          HandlerTimeoutSet  \* server.handler_timeout_ms > 0

ASSUME HandlerTimeoutAssumption == HandlerTimeoutSet \in BOOLEAN

VARIABLES
  serve,         \* where the goroutine that runs Serve is
  listener,      \* the goroutine that runs ListenAndServe
  errCh,         \* the listener's error is in the channel
  signalled,     \* SIGINT, SIGTERM or the end of the parent context arrived
  cancelled,     \* shutdown.Token
  closing,       \* http.Server.Shutdown has been called
  drainExpired,  \* ... and its context ended before the drain
  request,       \* request -> what became of it
  todo,          \* positions whose Shutdown is still to be called
  current,       \* the position whose Shutdown is running, 0 if none
  shutErr,       \* positions whose Shutdown returned an error
  result         \* what Serve returned

serverVars == <<serve, listener, errCh, signalled, cancelled, closing,
                drainExpired, request, todo, current, shutErr, result>>

vars == <<bootVars, serverVars>>

SInit ==
  /\ Init
  /\ serve = "off"
  /\ listener = "off"
  /\ errCh = FALSE
  /\ signalled = FALSE
  /\ cancelled = FALSE
  /\ closing = FALSE
  /\ drainExpired = FALSE
  /\ request = [r \in Requests |-> "none"]
  /\ todo = {}
  /\ current = 0
  /\ shutErr = {}
  /\ result = "none"

Boot == Next /\ UNCHANGED serverVars
----------------------------------------------------------------------------
\* Serve up to its select: the router is wrapped, the listener goroutine runs.
Serve ==
  /\ phase = "built"
  /\ serve = "off"
  /\ serve' = "select"
  /\ listener' = "starting"
  /\ UNCHANGED <<bootVars, errCh, signalled, cancelled, closing, drainExpired,
                 request, todo, current, shutErr, result>>

\* ListenAndServe binds, unless Shutdown came first (ErrServerClosed).
Listen ==
  /\ listener = "starting"
  /\ listener' = IF closing THEN "ended" ELSE "listening"
  /\ UNCHANGED <<bootVars, serve, errCh, signalled, cancelled, closing,
                 drainExpired, request, todo, current, shutErr, result>>

\* It cannot bind, or Accept fails: the error goes to errCh, which has room.
ListenFails ==
  /\ listener \in {"starting", "listening"}
  /\ ~closing
  /\ listener' = "ended"
  /\ errCh' = TRUE
  /\ UNCHANGED <<bootVars, serve, signalled, cancelled, closing, drainExpired,
                 request, todo, current, shutErr, result>>

Signal ==
  /\ serve # "off"
  /\ ~signalled
  /\ signalled' = TRUE
  /\ UNCHANGED <<bootVars, serve, listener, errCh, cancelled, closing,
                 drainExpired, request, todo, current, shutErr, result>>

\* case err := <-errCh: return without touching the token or a provider.
SelectError ==
  /\ serve = "select"
  /\ errCh
  /\ serve' = "done"
  /\ result' = "listen"
  /\ UNCHANGED <<bootVars, listener, errCh, signalled, cancelled, closing,
                 drainExpired, request, todo, current, shutErr>>

\* case <-signalCtx.Done(): cancel the shutdown token.
SelectSignal ==
  /\ serve = "select"
  /\ signalled
  /\ serve' = "shutdown"
  /\ cancelled' = TRUE
  /\ UNCHANGED <<bootVars, listener, errCh, signalled, closing, drainExpired,
                 request, todo, current, shutErr, result>>

\* srv.Shutdown closes the listener and waits for the active connections.
HttpShutdown ==
  /\ serve = "shutdown"
  /\ serve' = "draining"
  /\ closing' = TRUE
  /\ listener' = IF listener = "listening" THEN "ended" ELSE listener
  /\ UNCHANGED <<bootVars, errCh, signalled, cancelled, drainExpired, request,
                 todo, current, shutErr, result>>

Active == {r \in Requests : request[r] = "active"}

\* Mutant: the listener is closed (Server.Close) and nothing is waited for.
CloseDoesNotWait ==
  /\ serve = "draining"
  /\ serve' = "providers"
  /\ todo' = retained
  /\ UNCHANGED <<bootVars, listener, errCh, signalled, cancelled, closing,
                 drainExpired, request, current, shutErr, result>>

Drained ==
  /\ serve = "draining"
  /\ Active = {}
  /\ serve' = "providers"
  /\ todo' = retained
  /\ UNCHANGED <<bootVars, listener, errCh, signalled, cancelled, closing,
                 drainExpired, request, current, shutErr, result>>

\* Mutant: the drain has no timeout.
NeverExpires == FALSE

\* The drain timeout: the error is logged and the connections are left alone.
DrainExpires ==
  /\ serve = "draining"
  /\ serve' = "providers"
  /\ drainExpired' = TRUE
  /\ todo' = retained
  /\ UNCHANGED <<bootVars, listener, errCh, signalled, cancelled, closing,
                 request, current, shutErr, result>>
----------------------------------------------------------------------------
\* Mutant: the loop counts up.
First(i) == i \in todo /\ \A j \in todo : i <= j

\* The next provider of the loop that counts down.
Last(i) == i \in todo /\ \A j \in todo : j <= i

\* p.Shutdown works on the handle its key has in the application context.
Target(i) == handles[registered[i]]

CallShutdown(i) ==
  /\ serve = "providers"
  /\ Last(i)
  /\ serve' = "calling"
  /\ current' = i
  /\ todo' = todo \ {i}
  /\ client' = [client EXCEPT ![Target(i)] =
                  IF @ = "open" THEN "closing" ELSE @]
  /\ UNCHANGED <<phase, failure, registered, features, enabled, required,
                 index, retained, degraded, checks, handles, uses, listener,
                 errCh, signalled, cancelled, closing, drainExpired, request,
                 shutErr, result>>

\* It returns; an error is only logged.  A client that has been released
\* stays released.
ReturnShutdown(i) ==
  /\ serve = "calling"
  /\ current = i
  /\ \E o \in ShutdownOutcomes[registered[i]] :
       /\ client' = [client EXCEPT ![Target(i)] =
                       IF @ = "closing" THEN o.client ELSE @]
       /\ shutErr' = IF o.err = "ok" THEN shutErr ELSE shutErr \cup {i}
  /\ serve' = "providers"
  /\ current' = 0
  /\ UNCHANGED <<phase, failure, registered, features, enabled, required,
                 index, retained, degraded, checks, handles, uses, listener,
                 errCh, signalled, cancelled, closing, drainExpired, request,
                 todo, result>>

\* A close that goes on in the background ends.
FinishClose(i) ==
  /\ client[i] = "closing"
  /\ client' = [client EXCEPT ![i] = "closed"]
  /\ UNCHANGED <<phase, failure, registered, features, enabled, required,
                 index, retained, degraded, checks, handles, uses, serverVars>>

\* Mutant: the loop stops at i > 0.
StopsOneEarly ==
  /\ serve = "providers"
  /\ Cardinality(todo) <= 1
  /\ serve' = "done"
  /\ result' = "nil"
  /\ UNCHANGED <<bootVars, listener, errCh, signalled, cancelled, closing,
                 drainExpired, request, todo, current, shutErr>>

\* The loop is over: Serve returns nil whatever happened on the way.
ServeReturns ==
  /\ serve = "providers"
  /\ todo = {}
  /\ serve' = "done"
  /\ result' = "nil"
  /\ UNCHANGED <<bootVars, listener, errCh, signalled, cancelled, closing,
                 drainExpired, request, todo, current, shutErr>>
----------------------------------------------------------------------------
\* A new connection, or the next request on a connection that is kept alive,
\* which Shutdown closes only once it is idle.
Accept(r) ==
  /\ listener = "listening" \/ serve = "draining"
  /\ request[r] = "none"
  /\ request' = [request EXCEPT ![r] = "active"]
  /\ UNCHANGED <<bootVars, serve, listener, errCh, signalled, cancelled,
                 closing, drainExpired, todo, current, shutErr, result>>

\* The handler returns and its response is written.
Respond(r) ==
  /\ request[r] \in {"active", "abandoned"}
  /\ request' = [request EXCEPT ![r] = "done"]
  /\ UNCHANGED <<bootVars, serve, listener, errCh, signalled, cancelled,
                 closing, drainExpired, todo, current, shutErr, result>>

\* http.TimeoutHandler answers 503 in the handler's place: the connection is
\* idle again while the goroutine of the handler runs on.
HandlerTimeout(r) ==
  /\ HandlerTimeoutSet
  /\ request[r] = "active"
  /\ request' = [request EXCEPT ![r] = "abandoned"]
  /\ UNCHANGED <<bootVars, serve, listener, errCh, signalled, cancelled,
                 closing, drainExpired, todo, current, shutErr, result>>
----------------------------------------------------------------------------
\* A failed bootstrap, or a returned Serve with nothing left in the
\* background, is the end of the process.
Terminated ==
  /\ \/ phase = "failed"
     \/ /\ serve = "done"
        /\ signalled
        /\ listener = "ended"
        /\ \A r \in Requests : request[r] \in {"none", "done"}
        /\ \A i \in Positions : client[i] # "closing"
  /\ UNCHANGED vars

ServeGoroutine ==
  \/ SelectError \/ SelectSignal \/ HttpShutdown \/ Drained \/ DrainExpires
  \/ \E i \in Positions : CallShutdown(i) \/ ReturnShutdown(i)
  \/ ServeReturns

SNext ==
  \/ Boot
  \/ Serve
  \/ Listen
  \/ ListenFails
  \/ Signal
  \/ ServeGoroutine
  \/ \E i \in Positions : FinishClose(i)
  \/ \E r \in Requests : Accept(r) \/ Respond(r) \/ HandlerTimeout(r)
  \/ Terminated

\* The Go scheduler runs Serve and the listener; the drain timeout and the
\* timeouts of the providers end every wait of Serve.  Nothing is assumed of
\* requests, of signals or of closes in the background.
Fairness == WF_vars(ServeGoroutine) /\ WF_vars(Listen)

SSpec == SInit /\ [][SNext]_vars /\ Fairness
----------------------------------------------------------------------------
(***************************************************************************)
(* Properties                                                              *)
(***************************************************************************)

\* The variables of Serve have their types.
STypeOK ==
  /\ TypeOK
  /\ serve \in {"off", "select", "shutdown", "draining", "providers",
                "calling", "done"}
  /\ listener \in {"off", "starting", "listening", "ended"}
  /\ errCh \in BOOLEAN
  /\ signalled \in BOOLEAN
  /\ cancelled \in BOOLEAN
  /\ closing \in BOOLEAN
  /\ drainExpired \in BOOLEAN
  /\ request \in [Requests -> {"none", "active", "abandoned", "done"}]
  /\ todo \subseteq Positions
  /\ current \in 0 .. MaxProviders
  /\ shutErr \subseteq Positions
  /\ result \in {"none", "nil", "listen"}

\* Serve has begun to release, or released, the client of a provider.
Released(i) == i \in retained /\ client[i] \in {"closing", "closed"}

\* No provider is released under a request that is being served, unless the
\* drain timeout has passed; and by then the shutdown token has been
\* cancelled, so whoever waits on it has been told.
DrainBeforeRelease ==
  (\E i \in Positions : Released(i)) =>
    /\ cancelled
    /\ closing
    /\ Active = {} \/ drainExpired

\* A pool is released only after the provider that runs on it, unless the
\* Shutdown of that one gave up with an error: reverse initialisation order
\* stops the scheduler before its postgres pool, for every registration
\* order.  (A provider whose handle was replaced by a second registration of
\* its key is out of reach of Shutdown and is excluded.)
DependentsReleasedFirst ==
  \A j \in retained : \A i \in uses[j] :
    Released(i) /\ Target(j) = j => client[j] = "closed" \/ j \in shutErr

\* When Serve has returned nil, every client whose handle is in the
\* application context has been released or is being released: neither the
\* order, an error nor a timeout of one provider makes the loop miss another.
\* With no key registered twice, nothing is left open.
ReturnReleasesAll ==
  result = "nil" =>
    \A i \in Positions :
      client[i] = "open" => i \in retained /\ Target(i) # i

\* Once a signal has arrived and Serve is past its start, Serve returns:
\* a request that never ends and a provider that cannot close do not keep
\* the process alive.
ReturnsAfterSignal == (serve = "select" /\ signalled) ~> (serve = "done")

\* What the design document says of the drain: Shutdown "stops accepting,
\* drains in-flight".  A handler that http.TimeoutHandler gave up on is still
\* in flight.
DrainsInFlight ==
  (\E i \in Positions : Released(i)) /\ ~drainExpired =>
    \A r \in Requests : request[r] \in {"none", "done"}
=============================================================================
