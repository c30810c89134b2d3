--------------------------- MODULE CircuitBreaker ---------------------------
(***************************************************************************)
(* circuitbreaker.Transport: an http.RoundTripper whose calls go through a *)
(* gobreaker.  Transport decides what counts as a failure, when to trip,   *)
(* what the gauge shows and what becomes of the response; gobreaker (a     *)
(* library) keeps the state.  Calls are concurrent, and gobreaker only     *)
(* looks at its clock when a call begins or ends.                          *)
(*                                                                         *)
(* gobreaker numbers its generations and ignores the result of a call of   *)
(* an earlier one; here current[c] says whether the generation in which    *)
(* call c began is still the present one.  Its expiry is a countdown.      *)
(***************************************************************************)
EXTENDS Integers, FiniteSets

CONSTANTS
    Calls,             \* callers of RoundTrip, each with one call at a time
    MaxFailures,       \* Config, after the defaults of NewTransport
    Interval,          \* ticks until the counts of a closed breaker are cleared
    Timeout,           \* ticks until an open breaker lets calls through again
    HalfOpenMaxCalls

ASSUME CallsAssumption == IsFiniteSet(Calls)
ASSUME ConfigAssumption ==
    /\ MaxFailures \in Nat \ {0} /\ HalfOpenMaxCalls \in Nat \ {0}
    /\ Interval \in Nat \ {0} /\ Timeout \in Nat \ {0}

VARIABLES
    breaker,   \* [state, left, requests, successes, failures]
    inFlight,  \* calls inside base.RoundTrip
    current,   \* calls of the present generation
    gauge,     \* circuit_breaker_state; -1: no sample yet
    trips,     \* circuit_breaker_trips_total, modulo 2
    upstream,  \* "healthy": every call is answered; "failing": anything may happen
    since,     \* history: calls that began in the present stretch (see below)
    streak     \* history: failures in a row among them

history == <<since, streak>>

vars == <<breaker, inFlight, current, gauge, trips, upstream, history>>

Outcomes == {"ok", "4xx", "5xx", "error", "panic"}

States == {"closed", "half-open", "open"}

----------------------------------------------------------------------------
\* gobreaker's state.  A half-open breaker has no expiry.
Expiry(s) == CASE s = "closed" -> Interval [] s = "open" -> Timeout [] OTHER -> 0

TypeOK ==
    /\ breaker \in [state : States, left : Nat, requests : 0..HalfOpenMaxCalls,
                    successes : 0..(HalfOpenMaxCalls - 1), failures : 0..(MaxFailures - 1)]
    /\ breaker.left <= Expiry(breaker.state)
    /\ inFlight \subseteq Calls /\ current \subseteq Calls
    /\ gauge \in -1..2 /\ trips \in 0..1
    /\ upstream \in {"healthy", "failing"}
    /\ since \subseteq Calls /\ streak \in 0..MaxFailures

NewGeneration(s) ==
    [state |-> s, left |-> Expiry(s), requests |-> 0, successes |-> 0, failures |-> 0]

Expired == breaker.state # "half-open" /\ breaker.left = 0

\* currentState: what beforeRequest and afterRequest look at first.
CurrentState ==
    IF ~Expired THEN breaker
    ELSE NewGeneration(IF breaker.state = "open" THEN "half-open" ELSE "closed")

\* Mutant: trips one failure late.
ReadyToTripLate(failures) == failures > MaxFailures

ReadyToTrip(failures) == failures >= MaxFailures

\* Mutant: the breaker closes only after one success more than it admits calls.
AfterSuccessOneMore ==
    LET b == [breaker EXCEPT !.successes = IF breaker.state = "half-open" THEN @ + 1 ELSE @,
                             !.failures = 0]
    IN  IF b.state = "half-open" /\ b.successes > HalfOpenMaxCalls
        THEN NewGeneration("closed") ELSE b

\* onSuccess and onFailure.  Successes and requests are only read while the
\* breaker is half-open and only kept then.
AfterSuccess ==
    LET b == [breaker EXCEPT !.successes = IF breaker.state = "half-open" THEN @ + 1 ELSE @,
                             !.failures = 0]
    IN  IF b.state = "half-open" /\ b.successes >= HalfOpenMaxCalls
        THEN NewGeneration("closed") ELSE b

\* Mutant: a failed trial call only reopens the breaker when ReadyToTrip says so.
AfterFailureAsClosed ==
    LET b == [breaker EXCEPT !.failures = @ + 1]
    IN  IF ReadyToTrip(b.failures) THEN NewGeneration("open") ELSE b

AfterFailure ==
    LET b == [breaker EXCEPT !.failures = @ + 1]
    IN  IF b.state = "half-open" \/ ReadyToTrip(b.failures)
        THEN NewGeneration("open") ELSE b

\* The function that RoundTrip hands to Execute: an error of the base
\* transport, or a status of 500 or more.
ReturnsError(outcome) == outcome \in {"5xx", "error"}

\* gobreaker's defaults: an error is a failure, and so is a panic.
IsFailure(outcome) == ReturnsError(outcome) \/ outcome = "panic"

StateValue(s) == CASE s = "closed" -> 0 [] s = "half-open" -> 1 [] s = "open" -> 2

OnStateChange(from, to) ==
    /\ gauge' = StateValue(to)
    /\ trips' = IF to = "open" THEN (trips + 1) % 2 ELSE trips

\* setState calls OnStateChange only when the state really changes.
Become(b) ==
    /\ breaker' = b
    /\ IF b.state = breaker.state THEN UNCHANGED <<gauge, trips>>
       ELSE OnStateChange(breaker.state, b.state)

----------------------------------------------------------------------------
Init ==
    /\ breaker = NewGeneration("closed")
    /\ inFlight = {} /\ current = {}
    /\ gauge = -1 /\ trips = 0
    /\ upstream \in {"healthy", "failing"}
    /\ since = {} /\ streak = 0

Admits(b) ==
    \/ b.state = "closed"
    \/ b.state = "half-open" /\ b.requests < HalfOpenMaxCalls

\* The history divides time into stretches, told from outside: one ends when
\* the state changes and when a call finds the window of its counts over.
StretchEnds == Expired \/ breaker'.state # breaker.state

\* RoundTrip -> Execute -> beforeRequest lets the call through to base.
Begin(c) ==
    /\ c \notin inFlight
    /\ Admits(CurrentState)
    /\ Become([CurrentState EXCEPT
                 !.requests = IF CurrentState.state = "half-open" THEN @ + 1 ELSE @])
    /\ inFlight' = inFlight \cup {c}
    /\ current' = (IF Expired THEN {} ELSE current) \cup {c}
    /\ since' = (IF StretchEnds THEN {} ELSE since) \cup {c}
    /\ streak' = IF StretchEnds THEN 0 ELSE streak
    /\ UNCHANGED upstream

\* beforeRequest refuses: ErrOpenState or ErrTooManyRequests, no response.
Refuse(c) ==
    /\ c \notin inFlight
    /\ ~Admits(CurrentState)
    /\ Become(CurrentState)
    /\ UNCHANGED <<inFlight, current, upstream, history>>

\* The outcomes of base.RoundTrip.  A caller that cancels is an "error".
Possible == IF upstream = "healthy" THEN {"ok", "4xx"} ELSE Outcomes

\* What the upstream really did, for the history.
Failed(outcome) == outcome \in {"5xx", "error", "panic"}

Count(n) == IF n < MaxFailures THEN n + 1 ELSE n

\* Mutant: afterRequest does not compare the generations.
CountsLate(c) == ~Expired

\* afterRequest: is the result of c one of the present generation?
Counts(c) == ~Expired /\ c \in current

\* base.RoundTrip ends and afterRequest runs.
End(c, outcome) ==
    /\ c \in inFlight /\ outcome \in Possible
    /\ LET result == IF IsFailure(outcome) THEN AfterFailure ELSE AfterSuccess
           next == IF Counts(c) THEN result ELSE CurrentState
       IN  /\ Become(next)
           /\ current' = (IF Expired \/ next.state # breaker.state THEN {} ELSE current) \ {c}
    /\ inFlight' = inFlight \ {c}
    /\ since' = (IF StretchEnds THEN {} ELSE since) \ {c}
    /\ streak' = CASE Expired -> 0
                   [] ~Expired /\ c \notin since -> streak
                   [] OTHER -> IF Failed(outcome) THEN Count(streak) ELSE 0
    /\ UNCHANGED upstream

Tick ==
    /\ breaker.left > 0
    /\ breaker' = [breaker EXCEPT !.left = @ - 1]
    /\ UNCHANGED <<inFlight, current, gauge, trips, upstream, history>>

UpstreamChanges ==
    /\ upstream' \in {"healthy", "failing"} \ {upstream}
    /\ UNCHANGED <<breaker, inFlight, current, gauge, trips, history>>

Next ==
    \/ \E c \in Calls : Begin(c) \/ Refuse(c) \/ \E o \in Outcomes : End(c, o)
    \/ Tick
    \/ UpstreamChanges

\* Time passes, callers come back, and every call of the base transport ends
\* (an HTTP client has a timeout).  Nothing is assumed of the upstream.
Fairness ==
    /\ WF_vars(Tick)
    /\ \A c \in Calls : WF_vars(Begin(c)) /\ WF_vars(\E o \in Outcomes : End(c, o))

Spec == Init /\ [][Next]_vars /\ Fairness

----------------------------------------------------------------------------
(* Properties *)

Trials == inFlight \cap current

\* A half-open breaker has no expiry: if all its trial calls were used up and
\* none of their results were to come, it would refuse every call for ever.  It
\* always has a call left to admit or waits for one whose result counts.
HalfOpenHasWayOut ==
    breaker.state = "half-open" =>
        breaker.requests < HalfOpenMaxCalls \/ Trials # {}

\* The breaker of a closed circuit opens only on MaxFailures failures in a row,
\* all of calls that began since the circuit changed last or its window was
\* over: answers that arrive later than that never add up to a trip, nor do
\* successes among them prevent one.  And it does not wait for one more.
TripsOnStreak ==
    [][breaker.state = "closed" =>
           (breaker'.state = "open" <=> ~Expired /\ streak < MaxFailures /\ streak' = MaxFailures)]_vars

\* The gauge shows the state as its help text says (0=closed, 1=half-open,
\* 2=open) however calls interleave; before the first change there is no sample.
GaugeIsTrue ==
    \/ gauge = -1 /\ breaker.state = "closed" /\ trips = 0
    \/ gauge = 0 /\ breaker.state = "closed"
    \/ gauge = 1 /\ breaker.state = "half-open"
    \/ gauge = 2 /\ breaker.state = "open"

\* Once the upstream stays healthy the circuit closes and stays closed.
RecoversWithUpstream ==
    <>[](upstream = "healthy") => <>[](breaker.state = "closed")

=============================================================================
