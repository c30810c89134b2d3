------------------------ MODULE CircuitBreakerProofs ------------------------
(***************************************************************************)
(* What holds of circuitbreaker.Transport for every number of callers and  *)
(* every configuration.  BreakerInv strengthens the properties by what the *)
(* counts mean: the requests of a half-open breaker are its successes and  *)
(* the trial calls still in flight; the calls of its generation are those  *)
(* of the present stretch of the history, and the failures of a closed one *)
(* are those that the history counted.                                     *)
(***************************************************************************)
EXTENDS CircuitBreaker, FiniteSetTheorems, TLAPS

CurrentInv == current \subseteq inFlight

TrialInv ==
    breaker.state = "half-open" =>
        breaker.requests = breaker.successes + Cardinality(current)

StreakInv == breaker.state = "closed" => breaker.failures = streak

SinceInv == since = current

BreakerInv == TypeOK /\ CurrentInv /\ TrialInv /\ StreakInv /\ SinceInv /\ GaugeIsTrue

----------------------------------------------------------------------------
\* A fresh generation is well typed; its counts are zero.
LEMMA NewGenerationFacts ==
    ASSUME NEW s \in States
    PROVE  /\ NewGeneration(s).state = s
           /\ NewGeneration(s).left = Expiry(s)
           /\ NewGeneration(s).requests = 0
           /\ NewGeneration(s).successes = 0
           /\ NewGeneration(s).failures = 0
           /\ Expiry(s) \in Nat
           /\ NewGeneration(s) \in
                [state : States, left : Nat, requests : 0..HalfOpenMaxCalls,
                 successes : 0..(HalfOpenMaxCalls - 1), failures : 0..(MaxFailures - 1)]
BY ConfigAssumption DEF NewGeneration, Expiry, States

\* The gauge and the trips follow every step of the breaker.
LEMMA BecomeKeepsGauge ==
    ASSUME NEW b, b.state \in States, TypeOK, GaugeIsTrue, Become(b)
    PROVE  gauge' \in -1..2 /\ trips' \in 0..1 /\ GaugeIsTrue'
<1>0. breaker' = b
  BY DEF Become
<1>1. CASE b.state = breaker.state
  BY <1>0, <1>1 DEF Become, GaugeIsTrue, TypeOK
<1>2. CASE b.state # breaker.state
  <2>1. gauge' = StateValue(b.state) /\ trips' \in {trips, (trips + 1) % 2}
    BY <1>2 DEF Become, OnStateChange
  <2>2. trips' \in 0..1
    BY <2>1 DEF TypeOK
  <2>3. gauge' \in 0..2 /\ GaugeIsTrue'
    BY <2>1, <1>0 DEF GaugeIsTrue, StateValue, States
  <2> QED
    BY <2>2, <2>3
<1> QED
  BY <1>1, <1>2

LEMMA CurrentStateFacts ==
    ASSUME TypeOK
    PROVE  /\ ~Expired => CurrentState = breaker
           /\ Expired => /\ breaker.state = "open" => CurrentState = NewGeneration("half-open")
                         /\ breaker.state = "closed" => CurrentState = NewGeneration("closed")
                         /\ breaker.state \in {"open", "closed"}
BY DEF Expired, CurrentState, TypeOK, States

\* gobreaker's view of an outcome and the history's are the same.
LEMMA FailureIsFailed ==
    ASSUME NEW o \in Outcomes
    PROVE  IsFailure(o) <=> Failed(o)
BY DEF IsFailure, ReturnsError, Failed, Outcomes

LEMMA InitEstablishes == Init => BreakerInv
<1> SUFFICES ASSUME Init PROVE BreakerInv
  OBVIOUS
<1>1. "closed" \in States
  BY DEF States
<1>2. TypeOK
  BY <1>1, NewGenerationFacts, ConfigAssumption DEF Init, TypeOK
<1> QED
  BY <1>1, <1>2, NewGenerationFacts
     DEF Init, BreakerInv, CurrentInv, TrialInv, StreakInv, SinceInv, GaugeIsTrue

----------------------------------------------------------------------------
LEMMA BeginPreserves ==
    ASSUME BreakerInv, NEW c \in Calls, Begin(c)
    PROVE  BreakerInv'
<1> DEFINE b == [CurrentState EXCEPT
                  !.requests = IF CurrentState.state = "half-open" THEN @ + 1 ELSE @]
<1> USE DEF BreakerInv
<1>0. breaker' = b /\ Become(b)
  BY DEF Begin, Become
<1>1. CASE ~Expired
  <2>1. CurrentState = breaker
    BY <1>1, CurrentStateFacts
  <2>2. /\ b.state = breaker.state /\ b.left = breaker.left
        /\ b.successes = breaker.successes /\ b.failures = breaker.failures
        /\ b.requests = IF breaker.state = "half-open" THEN breaker.requests + 1
                                                      ELSE breaker.requests
        /\ b \in [state : States, left : Nat, requests : 0..HalfOpenMaxCalls,
                  successes : 0..(HalfOpenMaxCalls - 1), failures : 0..(MaxFailures - 1)]
    BY <2>1, ConfigAssumption DEF TypeOK, Begin, Admits, States
  <2>3. /\ inFlight' = inFlight \cup {c} /\ current' = current \cup {c}
        /\ since' = current' /\ streak' = streak
    BY <1>0, <1>1, <2>2 DEF Begin, StretchEnds, SinceInv
  <2>4. TypeOK'
    BY <1>0, <2>2, <2>3, BecomeKeepsGauge DEF TypeOK, Begin
  <2>5. Cardinality(current') = Cardinality(current) + 1 /\ Cardinality(current) \in Nat
    <3>1. IsFiniteSet(current) /\ c \notin current
      BY CallsAssumption, FS_Subset DEF TypeOK, CurrentInv, Begin
    <3> QED
      BY <3>1, <2>3, FS_AddElement, FS_CardinalityType
  <2>6. CurrentInv' /\ TrialInv' /\ StreakInv' /\ SinceInv'
    BY <1>0, <2>2, <2>3, <2>5 DEF CurrentInv, TrialInv, StreakInv, SinceInv, TypeOK
  <2>7. GaugeIsTrue'
    BY <1>0, <2>2, BecomeKeepsGauge DEF TypeOK
  <2> QED
    BY <2>4, <2>6, <2>7
<1>2. CASE Expired
  <2>0. "half-open" \in States /\ "closed" \in States
    BY DEF States
  <2>1. PICK s \in {"half-open", "closed"} : CurrentState = NewGeneration(s)
    BY <1>2, CurrentStateFacts
  <2>2. /\ b.state = s /\ b.left = Expiry(s)
        /\ b.successes = 0 /\ b.failures = 0
        /\ b.requests = IF s = "half-open" THEN 1 ELSE 0
        /\ b \in [state : States, left : Nat, requests : 0..HalfOpenMaxCalls,
                  successes : 0..(HalfOpenMaxCalls - 1), failures : 0..(MaxFailures - 1)]
    <3>1. Expiry(s) \in Nat
      BY <2>0, <2>1, NewGenerationFacts
    <3> QED
      BY <2>0, <2>1, <3>1, ConfigAssumption DEF NewGeneration, States
  <2>3. inFlight' = inFlight \cup {c} /\ current' = {c} /\ since' = {c} /\ streak' = 0
    BY <1>2 DEF Begin, StretchEnds
  <2>4. TypeOK'
    <3>1. Expiry(s) \in Nat
      BY <2>0, <2>1, NewGenerationFacts
    <3>2. b.state \in States
      BY <2>2, <2>0
    <3> QED
      BY <1>0, <2>2, <2>3, <3>1, <3>2, BecomeKeepsGauge, ConfigAssumption DEF TypeOK, Begin
  <2>5. Cardinality(current') = 1
    BY <2>3, FS_Singleton
  <2>6. CurrentInv' /\ TrialInv' /\ StreakInv' /\ SinceInv'
    BY <1>0, <2>2, <2>3, <2>5 DEF CurrentInv, TrialInv, StreakInv, SinceInv
  <2>7. GaugeIsTrue'
    BY <1>0, <2>2, <2>0, BecomeKeepsGauge
  <2> QED
    BY <2>4, <2>6, <2>7
<1> QED
  BY <1>1, <1>2

\* A refused call finds nothing expired: a new generation admits it.
LEMMA RefusePreserves ==
    ASSUME BreakerInv, NEW c \in Calls, Refuse(c)
    PROVE  BreakerInv'
<1> USE DEF BreakerInv
<1>1. ~Expired
  <2> SUFFICES ASSUME Expired PROVE FALSE
    OBVIOUS
  <2>1. "half-open" \in States /\ "closed" \in States
    BY DEF States
  <2>2. CurrentState.state = "closed" \/
        (CurrentState.state = "half-open" /\ CurrentState.requests = 0)
    BY <2>1, CurrentStateFacts, NewGenerationFacts
  <2> QED
    BY <2>2, ConfigAssumption DEF Refuse, Admits
<1>2. breaker' = breaker /\ UNCHANGED <<gauge, trips>>
  BY <1>1, CurrentStateFacts DEF Refuse, Become
<1> QED
  BY <1>2 DEF Refuse, history, TypeOK, CurrentInv, TrialInv, StreakInv, SinceInv, GaugeIsTrue

\* What counts: the result of a call of the present, unexpired generation.
LEMMA EndPreserves ==
    ASSUME BreakerInv, NEW c \in Calls, NEW o \in Outcomes, End(c, o)
    PROVE  BreakerInv'
<1> DEFINE counts == Counts(c)
           next == IF counts THEN (IF IsFailure(o) THEN AfterFailure ELSE AfterSuccess)
                   ELSE CurrentState
<1> USE DEF BreakerInv
<1>0. "half-open" \in States /\ "closed" \in States /\ "open" \in States
  BY DEF States
<1>1. /\ Become(next) /\ breaker' = next
      /\ current' = (IF Expired \/ next.state # breaker.state THEN {} ELSE current) \ {c}
      /\ inFlight' = inFlight \ {c}
      /\ c \in inFlight
  BY DEF End, Become
<1>2. CurrentInv' /\ SinceInv'
  BY <1>1 DEF CurrentInv, SinceInv, End, StretchEnds
<1>3. streak' \in 0..MaxFailures /\ since' \subseteq Calls /\ upstream' = upstream
  BY ConfigAssumption DEF End, Count, TypeOK
<1>4. IsFiniteSet(current) /\ Cardinality(current) \in Nat
  BY CallsAssumption, FS_Subset, FS_CardinalityType DEF TypeOK
<1>5. /\ next.state \in States
      /\ next \in [state : States, left : Nat, requests : 0..HalfOpenMaxCalls,
                   successes : 0..(HalfOpenMaxCalls - 1), failures : 0..(MaxFailures - 1)]
      /\ next.left <= Expiry(next.state)
      /\ (next.state = "half-open" => next.requests = next.successes + Cardinality(current'))
      /\ (next.state = "closed" => next.failures = streak')
  <2>1. CASE Expired
    <3>1. PICK s \in {"half-open", "closed"} : next = NewGeneration(s)
      BY <2>1, CurrentStateFacts DEF Counts
    <3>2. current' = {} /\ streak' = 0
      BY <1>1, <2>1 DEF End
    <3> QED
      BY <3>1, <3>2, <1>0, NewGenerationFacts, FS_EmptySet
  <2>2. CASE ~Expired /\ c \notin current
    <3>1. next = breaker
      BY <2>2, CurrentStateFacts DEF Counts
    <3>2. current' = current /\ streak' = streak
      BY <1>1, <2>2, <3>1 DEF End, SinceInv
    <3> QED
      BY <3>1, <3>2 DEF TypeOK, TrialInv, StreakInv
  <2>3. CASE counts /\ IsFailure(o)
    <3> DEFINE b == [breaker EXCEPT !.failures = @ + 1]
    <3>1. next = IF b.state = "half-open" \/ ReadyToTrip(b.failures)
                 THEN NewGeneration("open") ELSE b
      BY <2>3 DEF AfterFailure
    <3>2. streak' = Count(streak)
      BY <2>3, FailureIsFailed DEF End, Counts, SinceInv
    <3>3. CASE b.state = "half-open" \/ ReadyToTrip(b.failures)
      BY <3>1, <3>3, <1>0, NewGenerationFacts
    <3>4. CASE ~(b.state = "half-open" \/ ReadyToTrip(b.failures))
      <4>1. /\ next = b /\ b.state = breaker.state /\ b.left = breaker.left
            /\ b.failures = breaker.failures + 1 /\ b.failures < MaxFailures
            /\ b.requests = breaker.requests /\ b.successes = breaker.successes
            /\ b.state # "half-open"
        BY <3>1, <3>4, ConfigAssumption DEF TypeOK, ReadyToTrip
      <4>2. b \in [state : States, left : Nat, requests : 0..HalfOpenMaxCalls,
                   successes : 0..(HalfOpenMaxCalls - 1), failures : 0..(MaxFailures - 1)]
        BY <4>1, ConfigAssumption DEF TypeOK
      <4>3. breaker.state = "closed" => next.failures = streak'
        BY <4>1, <3>2, ConfigAssumption DEF StreakInv, Count, TypeOK
      <4> QED
        BY <4>1, <4>2, <4>3 DEF TypeOK
    <3> QED
      BY <3>3, <3>4
  <2>4. CASE counts /\ ~IsFailure(o)
    <3> DEFINE b == [breaker EXCEPT
                      !.successes = IF breaker.state = "half-open" THEN @ + 1 ELSE @,
                      !.failures = 0]
    <3>1. next = IF b.state = "half-open" /\ b.successes >= HalfOpenMaxCalls
                 THEN NewGeneration("closed") ELSE b
      BY <2>4 DEF AfterSuccess
    <3>2. streak' = 0
      BY <2>4, FailureIsFailed DEF End, Counts, SinceInv
    <3>3. CASE b.state = "half-open" /\ b.successes >= HalfOpenMaxCalls
      BY <3>1, <3>2, <3>3, <1>0, NewGenerationFacts
    <3>4. CASE ~(b.state = "half-open" /\ b.successes >= HalfOpenMaxCalls)
      <4>1. /\ next = b /\ b.state = breaker.state /\ b.left = breaker.left
            /\ b.failures = 0 /\ b.requests = breaker.requests
            /\ b.successes = IF breaker.state = "half-open" THEN breaker.successes + 1
                             ELSE breaker.successes
        BY <3>1, <3>4 DEF TypeOK
      <4>2. b \in [state : States, left : Nat, requests : 0..HalfOpenMaxCalls,
                   successes : 0..(HalfOpenMaxCalls - 1), failures : 0..(MaxFailures - 1)]
        <5>1. b.successes \in 0..(HalfOpenMaxCalls - 1)
          BY <4>1, <3>4, ConfigAssumption DEF TypeOK
        <5>2. breaker = [state |-> breaker.state, left |-> breaker.left,
                         requests |-> breaker.requests, successes |-> breaker.successes,
                         failures |-> breaker.failures]
          BY DEF TypeOK
        <5>3. b = [state |-> breaker.state, left |-> breaker.left,
                   requests |-> breaker.requests, successes |-> b.successes,
                   failures |-> 0]
          BY <4>1, <5>2
        <5>4. /\ breaker.state \in States /\ breaker.left \in Nat
              /\ breaker.requests \in 0..HalfOpenMaxCalls /\ 0 \in 0..(MaxFailures - 1)
          BY ConfigAssumption DEF TypeOK
        <5> HIDE DEF b
        <5> QED
          BY <5>1, <5>3, <5>4
      <4>3. current' = current \ {c} /\ Cardinality(current') = Cardinality(current) - 1
        BY <4>1, <1>1, <1>4, <2>4, FS_RemoveElement DEF Counts
      <4>4. next.state = "half-open" => next.requests = next.successes + Cardinality(current')
        <5>1. /\ breaker.requests \in Nat /\ breaker.successes \in Nat
              /\ Cardinality(current) \in Nat
          BY <1>4, ConfigAssumption DEF TypeOK
        <5>2. CASE breaker.state = "half-open"
          <6>1. breaker.requests = breaker.successes + Cardinality(current)
            BY <5>2 DEF TrialInv
          <6>2. next.requests = breaker.requests /\ next.successes = breaker.successes + 1
            BY <4>1, <5>2
          <6> HIDE DEF next
          <6> QED
            BY <4>3, <5>1, <6>1, <6>2
        <5> QED
          BY <4>1, <5>2
      <4>5. next.state = "closed" => next.failures = streak'
        BY <4>1, <3>2
      <4>6. next.state \in States /\ next.left <= Expiry(next.state)
        BY <4>1 DEF TypeOK
      <4> QED
        BY <4>1, <4>2, <4>4, <4>5, <4>6
    <3> QED
      BY <3>3, <3>4
  <2> QED
    BY <2>1, <2>2, <2>3, <2>4 DEF Counts
<1>6. gauge' \in -1..2 /\ trips' \in 0..1 /\ GaugeIsTrue'
  BY <1>1, <1>5, BecomeKeepsGauge
<1>7. TypeOK'
  BY <1>1, <1>3, <1>5, <1>6 DEF TypeOK
<1>8. TrialInv' /\ StreakInv'
  BY <1>1, <1>5 DEF TrialInv, StreakInv
<1> QED
  BY <1>2, <1>6, <1>7, <1>8

LEMMA TickPreserves == BreakerInv /\ Tick => BreakerInv'
<1> SUFFICES ASSUME BreakerInv, Tick PROVE BreakerInv'
  OBVIOUS
<1>1. /\ breaker'.state = breaker.state /\ breaker'.requests = breaker.requests
      /\ breaker'.successes = breaker.successes /\ breaker'.failures = breaker.failures
      /\ breaker'.left \in Nat /\ breaker'.left <= breaker.left
      /\ breaker' \in [state : States, left : Nat, requests : 0..HalfOpenMaxCalls,
                       successes : 0..(HalfOpenMaxCalls - 1), failures : 0..(MaxFailures - 1)]
  BY DEF BreakerInv, TypeOK, Tick
<1>2. Expiry(breaker.state) \in Nat
  BY NewGenerationFacts DEF BreakerInv, TypeOK
<1> QED
  BY <1>1, <1>2 DEF Tick, history, BreakerInv, TypeOK, CurrentInv, TrialInv, StreakInv, SinceInv,
                     GaugeIsTrue

LEMMA NextPreserves == BreakerInv /\ [Next]_vars => BreakerInv'
<1> SUFFICES ASSUME BreakerInv, [Next]_vars PROVE BreakerInv'
  OBVIOUS
<1>1. ASSUME NEW c \in Calls, Begin(c) PROVE BreakerInv'
  BY <1>1, BeginPreserves
<1>2. ASSUME NEW c \in Calls, Refuse(c) PROVE BreakerInv'
  BY <1>2, RefusePreserves
<1>3. ASSUME NEW c \in Calls, NEW o \in Outcomes, End(c, o) PROVE BreakerInv'
  BY <1>3, EndPreserves
<1>4. CASE Tick
  BY <1>4, TickPreserves
<1>5. CASE UpstreamChanges
  BY <1>5 DEF UpstreamChanges, history, BreakerInv, TypeOK, CurrentInv, TrialInv, StreakInv,
              SinceInv, GaugeIsTrue
<1>6. CASE UNCHANGED vars
  BY <1>6 DEF vars, history, BreakerInv, TypeOK, CurrentInv, TrialInv, StreakInv, SinceInv,
              GaugeIsTrue
<1> QED
  BY <1>1, <1>2, <1>3, <1>4, <1>5, <1>6 DEF Next

LEMMA BreakerAlways == Spec => []BreakerInv
BY InitEstablishes, NextPreserves, PTL DEF Spec

----------------------------------------------------------------------------
\* The transport's and the breaker's state is well typed: the counts never
\* leave the range in which gobreaker would have changed its state.
THEOREM BreakerTypeCorrect == Spec => []TypeOK
BY BreakerAlways, PTL DEF BreakerInv

\* The gauge shows the state for any number of callers.
THEOREM GaugeAlwaysTrue == Spec => []GaugeIsTrue
BY BreakerAlways, PTL DEF BreakerInv

\* A half-open circuit always has a call to admit or a result to come that
\* counts, for any number of callers: it never refuses for ever.
THEOREM HalfOpenNeverStuck == Spec => []HalfOpenHasWayOut
<1>1. BreakerInv => HalfOpenHasWayOut
  <2> SUFFICES ASSUME BreakerInv, breaker.state = "half-open",
                      ~(breaker.requests < HalfOpenMaxCalls)
               PROVE  Trials # {}
    BY DEF HalfOpenHasWayOut
  <2>1. breaker.successes < breaker.requests /\ breaker.requests \in Nat
    BY ConfigAssumption DEF BreakerInv, TypeOK
  <2>2. Cardinality(current) # 0
    BY <2>1 DEF BreakerInv, TrialInv, TypeOK
  <2>3. current # {} /\ Trials = current
    BY <2>2, FS_EmptySet DEF BreakerInv, CurrentInv, Trials
  <2> QED
    BY <2>3
<1> QED
  BY <1>1, BreakerAlways, PTL

\* A closed circuit opens on the MaxFailures-th failure in a row of its present
\* window and on nothing else, for every MaxFailures and number of callers.
THEOREM TripsOnStreakOnly == Spec => TripsOnStreak
<1> DEFINE Trip == breaker.state = "closed" =>
                     (breaker'.state = "open" <=>
                        ~Expired /\ streak < MaxFailures /\ streak' = MaxFailures)
<1>1. ASSUME BreakerInv, [Next]_vars PROVE [Trip]_vars
  <2> SUFFICES ASSUME breaker.state = "closed", Next PROVE Trip
    BY <1>1
  <2> USE <1>1 DEF BreakerInv
  <2>0. streak \in Nat /\ streak < MaxFailures /\ streak = breaker.failures /\ since = current
    BY ConfigAssumption DEF StreakInv, SinceInv, TypeOK
  <2>1. ASSUME NEW c \in Calls, Begin(c) \/ Refuse(c) PROVE Trip
    <3>1. breaker'.state # "open"
      <4>1. CurrentState.state = "closed"
        BY CurrentStateFacts, NewGenerationFacts DEF States
      <4>2. Begin(c)
        BY <2>1, <4>1 DEF Refuse, Admits
      <4>3. breaker' = [CurrentState EXCEPT !.requests = CurrentState.requests]
        BY <4>1, <4>2 DEF Begin, Become
      <4>4. CurrentState = breaker \/ CurrentState = NewGeneration("closed")
        BY CurrentStateFacts
      <4>5. breaker'.state = CurrentState.state
        <5>1. CASE CurrentState = breaker
          BY <4>3, <5>1 DEF TypeOK
        <5>2. CASE CurrentState = NewGeneration("closed")
          BY <4>3, <5>2 DEF NewGeneration
        <5> QED
          BY <4>4, <5>1, <5>2
      <4> QED
        BY <4>1, <4>5
    <3>2. ~(~Expired /\ streak' = MaxFailures)
      BY <2>0, <2>1, ConfigAssumption DEF Begin, Refuse, StretchEnds, history
    <3> QED
      BY <3>1, <3>2
  <2>2. ASSUME NEW c \in Calls, NEW o \in Outcomes, End(c, o) PROVE Trip
    <3>1. CASE c \in current /\ ~Expired /\ IsFailure(o)
      <4>1. breaker' = AfterFailure /\ streak' = Count(streak)
        BY <2>0, <2>2, <3>1, FailureIsFailed DEF End, Become, Counts
      <4>2. breaker'.state = "open" <=> breaker.failures + 1 >= MaxFailures
        <5> DEFINE b == [breaker EXCEPT !.failures = @ + 1]
        <5>1. b.state = "closed" /\ b.failures = breaker.failures + 1
          BY DEF TypeOK
        <5>2. "open" \in States
          BY DEF States
        <5> QED
          BY <4>1, <5>1, <5>2, NewGenerationFacts DEF AfterFailure, ReadyToTrip
      <4>3. streak' = streak + 1
        BY <4>1, <2>0 DEF Count
      <4> QED
        BY <3>1, <4>2, <4>3, <2>0, ConfigAssumption
    <3>2. CASE c \in current /\ ~Expired /\ ~IsFailure(o)
      <4>1. breaker' = AfterSuccess /\ streak' = 0
        BY <2>0, <2>2, <3>2, FailureIsFailed DEF End, Become, Counts
      <4>2. AfterSuccess.state = "closed"
        BY DEF AfterSuccess, TypeOK
      <4> QED
        BY <4>1, <4>2, ConfigAssumption
    <3>3. CASE c \notin current \/ Expired
      <4>1. breaker' = CurrentState
        BY <2>2, <3>3 DEF End, Become, Counts
      <4>2. CurrentState.state = "closed"
        BY CurrentStateFacts, NewGenerationFacts DEF States
      <4>3. Expired \/ streak' = streak
        BY <2>0, <2>2, <3>3 DEF End
      <4> QED
        BY <4>1, <4>2, <4>3, <2>0
    <3> QED
      BY <3>1, <3>2, <3>3
  <2>3. CASE Tick \/ UpstreamChanges
    <3>1. streak' = streak /\ breaker'.state = breaker.state
      BY <2>3 DEF Tick, UpstreamChanges, TypeOK, history
    <3> QED
      BY <3>1, <2>0
  <2> QED
    BY <2>1, <2>2, <2>3 DEF Next
<1> QED
  BY <1>1, BreakerAlways, PTL DEF Spec, TripsOnStreak

=============================================================================
