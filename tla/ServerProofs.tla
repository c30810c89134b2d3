---------------------------- MODULE ServerProofs ----------------------------
(***************************************************************************)
(* Proofs about a process: the bootstrap pipeline, for any choice of keys, *)
(* any registration order and any number of registrations;                 *)
(* production.Serve on top of it, for any number of requests; and the      *)
(* readiness endpoint that it serves, a machine of its own, for any set of *)
(* checks and any number of readiness requests.                            *)
(***************************************************************************)
EXTENDS Server, Health, TLAPS

USE KeysAssumption, MaxProvidersAssumption

\* What every Init of a shipped provider guarantees: a failed one leaves no
\* client that would have to be released, and a scheduler that was started
\* runs.
LEMMA InitOutcomeFacts ==
  ASSUME NEW k \in AllKeys, NEW o \in InitOutcomes[k]
  PROVE  /\ o \in Outcome
         /\ o.err = "ok" => o.client \in {"none", "open"}
         /\ o.err # "ok" => o.client \in {"none", "closed"}
         /\ o.err = "ok" /\ k = "scheduler" => o.client = "open"
<1> USE DEF InitOutcomes, AllKeys, Outcome, Ok, Errs, ErrKinds, ClientStates,
            Classified
<1>1. CASE k = "postgres"
  BY <1>1 DEF PostgresInit
<1>2. CASE k = "redis"
  BY <1>2 DEF RedisInit
<1>3. CASE k = "mongodb"
  BY <1>3 DEF MongodbInit
<1>4. CASE k = "nats"
  BY <1>4 DEF NatsInit
<1>5. CASE k = "qdrant"
  BY <1>5 DEF QdrantInit
<1>6. CASE k = "neo4j"
  BY <1>6 DEF Neo4jInit
<1>7. CASE k = "s3"
  BY <1>7 DEF S3Init
<1>8. CASE k = "oss"
  BY <1>8 DEF OssInit
<1>9. CASE k = "llm"
  BY <1>9 DEF LlmInit
<1>10. CASE k = "scheduler"
  BY <1>10 DEF SchedulerInit
<1> QED BY <1>1, <1>2, <1>3, <1>4, <1>5, <1>6, <1>7, <1>8, <1>9, <1>10

\* The same for what Init may do in a given state, and what it needs.
LEMMA InitResultFacts ==
  ASSUME TypeOK, NEW k \in Keys, NEW o \in InitResults(k)
  PROVE  /\ o \in Outcome
         /\ o.err = "ok" => /\ o.client \in {"none", "open"}
                            /\ HandlesPresent(k)
         /\ o.err # "ok" => o.client \in {"none", "closed"}
         /\ o.err = "ok" /\ k = "scheduler" => o.client = "open"
<1>1. CASE HandlesPresent(k)
  BY <1>1, InitOutcomeFacts DEF InitResults
<1>2. CASE ~HandlesPresent(k)
  BY <1>2 DEF InitResults, Errs, Outcome, ErrKinds, ClientStates
<1> QED BY <1>1, <1>2
----------------------------------------------------------------------------
(***************************************************************************)
(* The inductive invariant.                                                *)
(***************************************************************************)

\* The loop index tells how far the pipeline is.
ProgressInv ==
  /\ phase \in {"options", "validate"} => index = 0
  /\ phase = "built" => index = Len(registered)
  /\ retained \subseteq 1 .. index
  /\ degraded \subseteq 1 .. index
  /\ retained \cap degraded = {}

\* Every provider that was visited is accounted for.
VisitedInv ==
  \A i \in 1 .. index :
    registered[i] \in enabled =>
      i \in retained \/ (i \in degraded /\ ~Required(registered[i]))

\* A handle is that of the last provider initialised with its key.
HandleInv ==
  /\ \A k \in Keys :
       handles[k] # 0 => /\ handles[k] \in retained
                         /\ registered[handles[k]] = k
  /\ \A j \in retained : handles[registered[j]] >= j

\* Only initialised providers have a client that is not released, and an
\* initialised scheduler has one.
ClientInv ==
  /\ \A i \in Positions \ retained : client[i] \in {"none", "closed"}
  /\ \A i \in retained : registered[i] = "scheduler" => client[i] # "none"
  /\ checks \subseteq retained

BootInv == /\ TypeOK /\ ProgressInv /\ VisitedInv /\ HandleInv /\ ClientInv
           /\ CapturesEarlierOnly

\* The position of a handle an Init needs.
LEMMA NeededHandle ==
  ASSUME TypeOK, HandleInv, NEW k \in Keys, HandlesPresent(k)
  PROVE  \A d \in Requires(k) : /\ handles[d] \in retained
                                /\ registered[handles[d]] = d
BY DEF HandlesPresent, HandleInv

\* Every step of the pipeline keeps the invariant.
LEMMA BootInvInductive == BootInv /\ [Next]_bootVars => BootInv'
<1> SUFFICES ASSUME BootInv, [Next]_bootVars PROVE BootInv'
  OBVIOUS
<1> USE DEF BootInv, ProgressInv, Positions
<1>1. ASSUME NEW k \in Keys, WithProvider(k) \/ PassProvider(k) PROVE BootInv'
  <2>1. /\ phase = "options" /\ index = 0 /\ retained = {} /\ degraded = {}
        /\ Len(registered) < MaxProviders
        /\ registered' = Append(registered, k)
        /\ features' \subseteq Keys
        /\ UNCHANGED <<phase, failure, enabled, required, index, retained,
                       degraded, checks, handles, client, uses>>
    BY <1>1 DEF WithProvider, PassProvider, TypeOK
  <2>2. registered' \in Seq(Keys) /\ Len(registered') = Len(registered) + 1
    BY <2>1 DEF TypeOK
  <2>3. TypeOK'
    BY <2>1, <2>2 DEF TypeOK
  <2>4. \A j \in Keys : handles[j] = 0
    BY <2>1 DEF HandleInv
  <2> QED BY <2>1, <2>2, <2>3, <2>4
          DEF VisitedInv, HandleInv, ClientInv, CapturesEarlierOnly, TypeOK
<1>2. ASSUME NEW k \in Keys, WithFeature(k) PROVE BootInv'
  BY <1>2 DEF WithFeature, TypeOK, VisitedInv, HandleInv, ClientInv,
              CapturesEarlierOnly, Required
<1>3. CASE LoadOk
  BY <1>3 DEF LoadOk, TypeOK, VisitedInv, HandleInv, ClientInv,
              CapturesEarlierOnly, Required
<1>4. CASE LoadFails
  BY <1>4 DEF LoadFails, TypeOK, VisitedInv, HandleInv, ClientInv,
              CapturesEarlierOnly, Required
<1>5. CASE ValidateFeatureMapping
  BY <1>5 DEF ValidateFeatureMapping, TypeOK, VisitedInv, HandleInv, ClientInv,
              CapturesEarlierOnly, Required
<1>6. ASSUME NEW i \in Positions, At(i) PROVE
         /\ i \in 1 .. Len(registered) /\ i = index + 1
         /\ i \notin retained /\ i \notin degraded
         /\ registered[i] \in Keys /\ phase = "providers"
         /\ 1 .. i = (1 .. index) \cup {i}
         /\ \A j \in retained : j < i
  BY <1>6 DEF At, TypeOK
<1>7. ASSUME NEW i \in Positions, Skip(i) PROVE BootInv'
  <2>1. At(i)
    BY <1>7 DEF Skip
  <2>2. /\ i \in 1 .. Len(registered) /\ i = index + 1 /\ phase = "providers"
        /\ 1 .. i = (1 .. index) \cup {i}
    BY <1>6, <2>1
  <2>3. /\ registered[i] \notin enabled
        /\ index' = i
        /\ UNCHANGED <<phase, failure, registered, features, enabled, required,
                       retained, degraded, checks, handles, client, uses>>
    BY <1>7 DEF Skip
  <2>4. TypeOK' /\ ProgressInv'
    BY <2>2, <2>3 DEF TypeOK
  <2>5. VisitedInv'
    BY <2>2, <2>3 DEF VisitedInv, Required
  <2>6. HandleInv' /\ ClientInv' /\ CapturesEarlierOnly'
    BY <2>3 DEF HandleInv, ClientInv, CapturesEarlierOnly
  <2> QED BY <2>4, <2>5, <2>6
<1>8. ASSUME NEW i \in Positions, FeatureMismatch(i) PROVE BootInv'
  <2>1. /\ phase' = "failed" /\ failure' = "feature"
        /\ UNCHANGED <<registered, features, enabled, required, index, retained,
                       degraded, checks, handles, client, uses>>
    BY <1>8 DEF FeatureMismatch
  <2>2. TypeOK' /\ ProgressInv'
    BY <2>1 DEF TypeOK
  <2>3. VisitedInv' /\ HandleInv' /\ ClientInv' /\ CapturesEarlierOnly'
    BY <2>1 DEF VisitedInv, HandleInv, ClientInv, CapturesEarlierOnly, Required
  <2> QED BY <2>2, <2>3
<1>9. ASSUME NEW i \in Positions, InitSucceeds(i) PROVE BootInv'
  <2> DEFINE k == registered[i]
  <2>1. At(i)
    BY <1>9 DEF InitSucceeds
  <2>2. /\ i \in 1 .. Len(registered) /\ i = index + 1
        /\ i \notin retained /\ i \notin degraded
        /\ k \in Keys /\ phase = "providers"
        /\ 1 .. i = (1 .. index) \cup {i}
        /\ \A j \in retained : j < i
    BY <1>6, <2>1
  <2>3. PICK o \in InitResults(k) :
          o.err = "ok" /\ client' = [client EXCEPT ![i] = o.client]
    BY <1>9 DEF InitSucceeds
  <2>4. /\ o.client \in {"none", "open"}
        /\ HandlesPresent(k)
        /\ k = "scheduler" => o.client = "open"
    BY <2>2, <2>3, InitResultFacts
  <2>5. /\ handles' = [handles EXCEPT ![k] = i]
        /\ uses' = [uses EXCEPT ![i] = {handles[d] : d \in Requires(k)}]
        /\ checks' \subseteq checks \cup {i}
        /\ retained' = retained \cup {i}
        /\ index' = i
        /\ UNCHANGED <<phase, failure, registered, features, enabled, required,
                       degraded>>
    BY <1>9 DEF InitSucceeds
  <2>6. \A d \in Requires(k) : /\ handles[d] \in retained
                               /\ registered[handles[d]] = d
    BY <2>2, <2>4, NeededHandle
  <2> DEFINE captured == {handles[d] : d \in Requires(k)}
  <2>7. \A x \in captured : x \in retained
    BY <2>6, Zenon
  <2>7q. \A x \in captured : registered[x] \in Requires(k)
    BY <2>6, Zenon
  <2>7r. \A d \in Requires(k) : \E x \in captured : registered[x] = d
    BY <2>6, Zenon
  <2> HIDE DEF k, captured
  <2>7t. TypeOK'
    <3>1. {handles[d] : d \in Requires(k)} \subseteq Positions
      <4>1. \A x \in captured : x \in Positions
        <5>1. \A x \in retained : x \in Positions
          BY DEF TypeOK
        <5> QED BY <2>7, <5>1, Zenon
      <4> QED BY <4>1, Zenon DEF captured
    <3>2. client' \in [Positions -> ClientStates]
      <4>1. o.client \in ClientStates
        BY <2>4 DEF ClientStates
      <4> QED BY <2>3, <4>1 DEF TypeOK
    <3>3. uses' \in [Positions -> SUBSET Positions]
      BY <2>5, <3>1 DEF TypeOK
    <3>4. handles' \in [Keys -> 0 .. MaxProviders]
      BY <2>2, <2>5 DEF TypeOK
    <3>5. /\ index' \in 0 .. Len(registered') /\ retained' \subseteq Positions
          /\ checks' \subseteq Positions /\ degraded' \subseteq Positions
      <4>1. retained \subseteq Positions /\ checks \subseteq Positions
        BY DEF TypeOK
      <4>2. retained' \subseteq Positions /\ checks' \subseteq Positions
        BY <2>5, <4>1, Zenon
      <4>3. index' \in 0 .. Len(registered') /\ degraded' \subseteq Positions
        BY <2>2, <2>5 DEF TypeOK
      <4> QED BY <4>2, <4>3
    <3>6. UNCHANGED <<phase, failure, registered, features, enabled, required>>
      BY <2>5
    <3> QED BY <3>2, <3>3, <3>4, <3>5, <3>6 DEF TypeOK
  <2>8. ProgressInv' /\ VisitedInv'
    BY <2>2, <2>5 DEF VisitedInv, Required, TypeOK
  <2>9. HandleInv'
    <3>1. ASSUME NEW q \in Keys, handles'[q] # 0
          PROVE  handles'[q] \in retained' /\ registered'[handles'[q]] = q
      <4>1. CASE q = k
        BY <2>2, <2>5, <4>1 DEF TypeOK, k
      <4>2. CASE q # k
        BY <2>2, <2>5, <3>1, <4>2 DEF HandleInv, TypeOK
      <4> QED BY <4>1, <4>2
    <3>2. ASSUME NEW j \in retained' PROVE handles'[registered'[j]] >= j
      <4>1. CASE j = i
        BY <2>2, <2>5, <4>1 DEF TypeOK, k
      <4>2. CASE j # i
        <5>1. j \in retained /\ j < i /\ registered[j] \in Keys
          BY <2>2, <2>5, <4>2 DEF TypeOK
        <5>2. CASE registered[j] = k
          BY <2>2, <2>5, <5>1, <5>2 DEF TypeOK
        <5>3. CASE registered[j] # k
          BY <2>2, <2>5, <5>1, <5>3 DEF HandleInv, TypeOK
        <5> QED BY <5>2, <5>3
      <4> QED BY <4>1, <4>2
    <3> QED BY <3>1, <3>2 DEF HandleInv
  <2>10. ClientInv'
    <3>1. ASSUME NEW j \in Positions \ retained'
          PROVE  client'[j] \in {"none", "closed"}
      BY <2>3, <2>5 DEF ClientInv, TypeOK
    <3>2. ASSUME NEW j \in retained', registered'[j] = "scheduler"
          PROVE  client'[j] # "none"
      <4>1. CASE j = i
        BY <2>3, <2>4, <2>5, <3>2, <4>1 DEF TypeOK, k
      <4>2. CASE j # i
        BY <2>3, <2>5, <3>2, <4>2 DEF ClientInv, TypeOK
      <4> QED BY <4>1, <4>2
    <3>3. checks' \subseteq retained'
      BY <2>5 DEF ClientInv
    <3> QED BY <3>1, <3>2, <3>3 DEF ClientInv
  <2>11. CapturesEarlierOnly'
    <3>1. uses' = [uses EXCEPT ![i] = captured]
      BY <2>5 DEF captured
    <3>2. ASSUME NEW j \in retained'
          PROVE  /\ \A d \in Requires(registered[j]) :
                      \E x \in uses'[j] : registered[x] = d
                 /\ \A x \in uses'[j] :
                      /\ x \in retained' /\ x < j
                      /\ registered[x] \in Requires(registered[j])
      <4>1. CASE j = i
        <5>1. uses'[j] = captured /\ registered[j] = k
          BY <3>1, <4>1 DEF TypeOK, k
        <5>2. \A x \in captured : x \in retained' /\ x < j
          BY <2>2, <2>5, <2>7, <4>1
        <5> QED BY <2>7q, <2>7r, <5>1, <5>2, Zenon
      <4>2. CASE j # i
        <5>1. j \in retained /\ uses'[j] = uses[j]
          BY <2>5, <3>1, <4>2 DEF TypeOK
        <5> QED BY <2>5, <5>1 DEF CapturesEarlierOnly
      <4> QED BY <4>1, <4>2
    <3>3. registered' = registered
      BY <2>5
    <3> QED BY <3>2, <3>3, Zenon DEF CapturesEarlierOnly
  <2> QED BY <2>7t, <2>8, <2>9, <2>10, <2>11
<1>10. ASSUME NEW i \in Positions, InitFails(i) PROVE BootInv'
  <2>1. At(i)
    BY <1>10 DEF InitFails
  <2>2. /\ i \in 1 .. Len(registered) /\ i = index + 1
        /\ i \notin retained /\ i \notin degraded
        /\ registered[i] \in Keys /\ phase = "providers"
        /\ 1 .. i = (1 .. index) \cup {i}
        /\ \A j \in retained : j < i
    BY <1>6, <2>1
  <2>3. PICK o \in InitResults(registered[i]) :
          o.err # "ok" /\ client' = [client EXCEPT ![i] = o.client]
    BY <1>10 DEF InitFails
  <2>4. o.client \in {"none", "closed"}
    BY <2>2, <2>3, InitResultFacts
  <2>5. /\ client' \in [Positions -> ClientStates]
        /\ ClientInv'
    BY <1>10, <2>2, <2>3, <2>4 DEF InitFails, ClientInv, TypeOK, ClientStates
  <2>6. CASE Required(registered[i])
    <3>1. /\ phase' = "failed" /\ failure' = "init"
          /\ UNCHANGED <<degraded, index, registered, features, enabled,
                         required, retained, checks, handles, uses>>
      BY <1>10, <2>6 DEF InitFails
    <3>2. TypeOK' /\ ProgressInv'
      BY <2>5, <3>1 DEF TypeOK
    <3>3. VisitedInv' /\ HandleInv' /\ CapturesEarlierOnly'
      BY <3>1 DEF VisitedInv, HandleInv, CapturesEarlierOnly, Required
    <3> QED BY <2>5, <3>2, <3>3
  <2>7. CASE ~Required(registered[i])
    <3>1. /\ degraded' = degraded \cup {i} /\ index' = i
          /\ UNCHANGED <<phase, failure, registered, features, enabled,
                         required, retained, checks, handles, uses>>
      BY <1>10, <2>7 DEF InitFails
    <3>2. TypeOK' /\ ProgressInv'
      BY <2>2, <2>5, <3>1 DEF TypeOK
    <3>3. VisitedInv'
      BY <2>2, <2>7, <3>1 DEF VisitedInv, Required
    <3>4. HandleInv'
      BY <3>1 DEF HandleInv
    <3>5. CapturesEarlierOnly'
      BY <3>1 DEF CapturesEarlierOnly
    <3> QED BY <2>5, <3>2, <3>3, <3>4, <3>5
  <2> QED BY <2>6, <2>7
<1>11. CASE BuildRouter
  BY <1>11 DEF BuildRouter, TypeOK, VisitedInv, HandleInv, ClientInv,
               CapturesEarlierOnly, Required
<1>12. CASE UNCHANGED bootVars
  BY <1>12 DEF bootVars, TypeOK, VisitedInv, HandleInv, ClientInv,
               CapturesEarlierOnly, Required
<1> QED
  BY <1>1, <1>2, <1>3, <1>4, <1>5, <1>7, <1>8, <1>9, <1>10, <1>11, <1>12 DEF Next

\* The initial state satisfies it.
LEMMA InitBootInv == Init => BootInv
BY DEF Init, BootInv, TypeOK, ProgressInv, VisitedInv, HandleInv, ClientInv,
       CapturesEarlierOnly, Positions, ClientStates

\* It holds throughout.
LEMMA BootInvHolds == Spec => []BootInv
BY InitBootInv, BootInvInductive, PTL DEF Spec

\* The types of Bootstrap hold throughout.
THEOREM BootstrapTypeCorrect == Spec => []TypeOK
<1>1. BootInv => TypeOK
  BY DEF BootInv
<1> QED BY <1>1, BootInvHolds, PTL

\* A built application has every enabled provider initialised, or optional
\* and degraded.
THEOREM BuiltAccounts == Spec => []BuiltAccountsForEnabled
<1>1. BootInv => BuiltAccountsForEnabled
  BY DEF BootInv, TypeOK, ProgressInv, VisitedInv, BuiltAccountsForEnabled,
         Registered, Positions
<1> QED BY <1>1, BootInvHolds, PTL

\* Handles, open clients and health checks belong to initialised providers.
THEOREM OnlyRetained == Spec => []OnlyRetainedLeaveTraces
<1>1. BootInv => OnlyRetainedLeaveTraces
  BY DEF BootInv, TypeOK, HandleInv, ClientInv, OnlyRetainedLeaveTraces, Positions
<1> QED BY <1>1, BootInvHolds, PTL

\* A provider runs only on clients of providers initialised before it.
THEOREM CapturesEarlier == Spec => []CapturesEarlierOnly
<1>1. BootInv => CapturesEarlierOnly
  BY DEF BootInv
<1> QED BY <1>1, BootInvHolds, PTL
-----------------------------------------------------------------------------
(***************************************************************************)
(* production.Serve.                                                       *)
(***************************************************************************)

USE HandlerTimeoutAssumption

\* What every Shutdown of a shipped provider guarantees: no client is opened,
\* and a scheduler that reports success has stopped.
LEMMA ShutdownOutcomeFacts ==
  ASSUME NEW k \in AllKeys, NEW o \in ShutdownOutcomes[k]
  PROVE  /\ o.client \in ClientStates /\ o.client # "open"
         /\ k = "scheduler" => o.client # "none"
         /\ k = "scheduler" /\ o.err = "ok" => o.client = "closed"
<1> USE DEF ShutdownOutcomes, AllKeys, Ok, Errs, ClientStates
<1>1. CASE k = "postgres"
  BY <1>1 DEF PostgresShutdown
<1>2. CASE k = "redis"
  BY <1>2 DEF RedisShutdown
<1>3. CASE k = "mongodb"
  BY <1>3 DEF MongodbShutdown
<1>4. CASE k = "nats"
  BY <1>4 DEF NatsShutdown
<1>5. CASE k = "qdrant"
  BY <1>5 DEF QdrantShutdown
<1>6. CASE k = "neo4j"
  BY <1>6 DEF Neo4jShutdown
<1>7. CASE k = "scheduler"
  BY <1>7 DEF SchedulerShutdown
<1>8. CASE k \in {"s3", "oss", "llm"}
  BY <1>8 DEF NoopShutdown
<1> QED BY <1>1, <1>2, <1>3, <1>4, <1>5, <1>6, <1>7, <1>8
----------------------------------------------------------------------------
(***************************************************************************)
(* The inductive invariant.                                                *)
(***************************************************************************)

\* Serve has entered the loop over the providers.
LoopEntered == serve \in {"providers", "calling"} \/ result = "nil"

\* What has been done by the time Serve is where it is.
StageInv ==
  /\ serve # "off" => phase = "built"
  /\ serve = "done" <=> result # "none"
  /\ serve = "calling" <=> current # 0
  /\ serve \in {"shutdown", "draining"} \/ LoopEntered => cancelled
  /\ serve = "draining" \/ LoopEntered => closing
  /\ closing => listener # "listening"
  /\ LoopEntered => Active = {} \/ drainExpired
  /\ ~LoopEntered => todo = {}
  /\ result = "nil" => todo = {}

\* The loop counts down: what is left to do lies below what has been done.
OrderInv ==
  /\ todo \subseteq retained
  /\ \A i \in todo, j \in retained : j < i => j \in todo
  /\ current # 0 => /\ current \in retained
                    /\ \A j \in retained : j < current <=> j \in todo

\* Nothing is released ahead of its turn.
UntouchedInv ==
  \A i \in retained :
    ~LoopEntered \/ i \in todo => client[i] \in {"open", "none"}

\* What the loop has passed is released; a scheduler has stopped or its
\* Shutdown has reported an error.
PassedInv ==
  LoopEntered =>
    \A j \in retained \ todo :
      Target(j) = j =>
        /\ client[j] # "open"
        /\ registered[j] = "scheduler" /\ j # current =>
             client[j] = "closed" \/ j \in shutErr

ServerInv == /\ STypeOK /\ BootInv /\ StageInv /\ OrderInv /\ UntouchedInv
             /\ PassedInv

\* The handle a Shutdown works on: initialised, with the same key, at the
\* same or a later position.
LEMMA TargetFacts ==
  ASSUME BootInv, NEW i \in retained
  PROVE  /\ Target(i) \in retained /\ Target(i) \in Positions
         /\ registered[Target(i)] = registered[i]
         /\ registered[i] \in Keys
         /\ Target(i) >= i
         /\ i \in Nat /\ i # 0
BY DEF BootInv, TypeOK, ProgressInv, HandleInv, Target, Positions
----------------------------------------------------------------------------
(***************************************************************************)
(* The three actions of Serve that touch a client keep the invariant of    *)
(* the bootstrap; the others leave its variables alone.                    *)
(***************************************************************************)
LEMMA ClientStepKeepsBoot ==
  ASSUME BootInv, NEW t \in retained, NEW c \in ClientStates,
         registered[t] = "scheduler" => c # "none",
         client' = [client EXCEPT ![t] = c],
         UNCHANGED <<phase, failure, registered, features, enabled, required,
                     index, retained, degraded, checks, handles, uses>>
  PROVE  BootInv'
<1>1. t \in Positions
  BY DEF BootInv, TypeOK
<1>2. TypeOK'
  BY <1>1 DEF BootInv, TypeOK
<1>3. ProgressInv' /\ VisitedInv' /\ HandleInv' /\ CapturesEarlierOnly'
  BY DEF BootInv, ProgressInv, VisitedInv, HandleInv, CapturesEarlierOnly,
         Required
<1>4. ClientInv'
  BY <1>1 DEF BootInv, ClientInv, TypeOK
<1> QED BY <1>2, <1>3, <1>4 DEF BootInv

\* Steps that leave the variables of the bootstrap alone keep its invariant.
LEMMA IdleKeepsBoot == BootInv /\ UNCHANGED bootVars => BootInv'
BY BootInvInductive

\* CallShutdown as an assignment to one client.
LEMMA CallFacts ==
  ASSUME ServerInv, NEW i \in Positions, CallShutdown(i)
  PROVE  /\ i \in retained /\ i \in todo
         /\ \E c \in ClientStates :
              /\ client' = [client EXCEPT ![Target(i)] = c]
              /\ c = IF client[Target(i)] = "open" THEN "closing"
                     ELSE client[Target(i)]
         /\ BootInv'
<1>1. i \in retained /\ i \in todo
  BY DEF CallShutdown, Last, ServerInv, OrderInv
<1>2. Target(i) \in retained /\ Target(i) \in Positions
  BY <1>1, TargetFacts DEF ServerInv
<1> DEFINE c == IF client[Target(i)] = "open" THEN "closing"
                ELSE client[Target(i)]
<1>3. c \in ClientStates
  BY <1>2 DEF ServerInv, BootInv, TypeOK, ClientStates
<1>4. client' = [client EXCEPT ![Target(i)] = c]
  BY DEF CallShutdown
<1>5. registered[Target(i)] = "scheduler" => c # "none"
  BY <1>2 DEF ServerInv, BootInv, ClientInv
<1>6. UNCHANGED <<phase, failure, registered, features, enabled, required,
                  index, retained, degraded, checks, handles, uses>>
  BY DEF CallShutdown
<1> HIDE DEF c
<1>7. BootInv'
  BY <1>2, <1>3, <1>4, <1>5, <1>6, ClientStepKeepsBoot DEF ServerInv
<1> QED BY <1>1, <1>3, <1>4, <1>7 DEF c

\* ReturnShutdown likewise.
LEMMA ReturnFacts ==
  ASSUME ServerInv, NEW i \in Positions, ReturnShutdown(i)
  PROVE  /\ i \in retained /\ i = current
         /\ \E c \in ClientStates :
              /\ client' = [client EXCEPT ![Target(i)] = c]
              /\ c # client[Target(i)] => client[Target(i)] = "closing"
              /\ c # "open" \/ client[Target(i)] = "open"
              /\ registered[i] = "scheduler" /\ client[Target(i)] \in {"closing", "closed"} =>
                   c = "closed" \/ i \in shutErr'
         /\ shutErr \subseteq shutErr' /\ shutErr' \subseteq shutErr \cup {i}
         /\ BootInv'
<1>1. i \in retained /\ i = current
  BY DEF ReturnShutdown, ServerInv, OrderInv, StageInv
<1>2. /\ Target(i) \in retained /\ Target(i) \in Positions
      /\ registered[Target(i)] = registered[i] /\ registered[i] \in Keys
  BY <1>1, TargetFacts DEF ServerInv
<1>3. PICK o \in ShutdownOutcomes[registered[i]] :
        /\ client' = [client EXCEPT ![Target(i)] =
                        IF client[Target(i)] = "closing" THEN o.client
                        ELSE client[Target(i)]]
        /\ shutErr' = IF o.err = "ok" THEN shutErr ELSE shutErr \cup {i}
  BY DEF ReturnShutdown
<1>4. /\ o.client \in ClientStates /\ o.client # "open"
      /\ registered[i] = "scheduler" => o.client # "none"
      /\ registered[i] = "scheduler" /\ o.err = "ok" => o.client = "closed"
  <2>1. registered[i] \in AllKeys
    BY <1>2
  <2> QED BY <2>1, ShutdownOutcomeFacts
<1> DEFINE c == IF client[Target(i)] = "closing" THEN o.client
                ELSE client[Target(i)]
<1>5. c \in ClientStates
  BY <1>2, <1>4 DEF ServerInv, BootInv, TypeOK
<1>6. client' = [client EXCEPT ![Target(i)] = c]
  BY <1>3
<1>7. registered[Target(i)] = "scheduler" => c # "none"
  BY <1>2, <1>4 DEF ServerInv, BootInv, ClientInv
<1>8. UNCHANGED <<phase, failure, registered, features, enabled, required,
                  index, retained, degraded, checks, handles, uses>>
  BY DEF ReturnShutdown
<1>9. /\ c # client[Target(i)] => client[Target(i)] = "closing"
      /\ c # "open" \/ client[Target(i)] = "open"
      /\ registered[i] = "scheduler" /\ client[Target(i)] \in {"closing", "closed"} =>
           c = "closed" \/ i \in shutErr'
  BY <1>3, <1>4
<1> HIDE DEF c
<1>10. BootInv'
  BY <1>2, <1>5, <1>6, <1>7, <1>8, ClientStepKeepsBoot DEF ServerInv
<1>11. shutErr \subseteq shutErr' /\ shutErr' \subseteq shutErr \cup {i}
  BY <1>3
<1> QED BY <1>1, <1>5, <1>6, <1>9, <1>10, <1>11

\* Every step keeps the invariant of the bootstrap.
LEMMA ServerKeepsBoot == ServerInv /\ [SNext]_vars => BootInv'
<1> SUFFICES ASSUME ServerInv, [SNext]_vars PROVE BootInv'
  OBVIOUS
<1>1. CASE Boot
  BY <1>1, BootInvInductive DEF Boot, ServerInv
<1>2. ASSUME UNCHANGED bootVars PROVE BootInv'
  BY <1>2, IdleKeepsBoot DEF ServerInv
<1>3. ASSUME NEW i \in Positions, CallShutdown(i) \/ ReturnShutdown(i)
      PROVE  BootInv'
  BY <1>3, CallFacts, ReturnFacts
<1>4. ASSUME NEW i \in Positions, FinishClose(i) PROVE BootInv'
  <2>1. i \in retained
    BY <1>4 DEF FinishClose, ServerInv, BootInv, ClientInv
  <2>2. "closed" \in ClientStates /\ "closed" # "none"
    BY DEF ClientStates
  <2>3. /\ client' = [client EXCEPT ![i] = "closed"]
        /\ UNCHANGED <<phase, failure, registered, features, enabled, required,
                       index, retained, degraded, checks, handles, uses>>
    BY <1>4 DEF FinishClose
  <2> QED BY <2>1, <2>2, <2>3, ClientStepKeepsBoot DEF ServerInv
<1>5. CASE Serve \/ Listen \/ ListenFails \/ Signal
  BY <1>2, <1>5 DEF Serve, Listen, ListenFails, Signal
<1>6. CASE SelectError \/ SelectSignal \/ HttpShutdown \/ Drained \/ DrainExpires
             \/ ServeReturns
  BY <1>2, <1>6 DEF SelectError, SelectSignal, HttpShutdown, Drained,
                    DrainExpires, ServeReturns
<1>7. ASSUME NEW r \in Requests, Accept(r) \/ Respond(r) \/ HandlerTimeout(r)
      PROVE  BootInv'
  BY <1>2, <1>7 DEF Accept, Respond, HandlerTimeout
<1>8. CASE Terminated \/ UNCHANGED vars
  BY <1>2, <1>8 DEF Terminated, vars
<1> QED BY <1>1, <1>3, <1>4, <1>5, <1>6, <1>7, <1>8 DEF SNext, ServeGoroutine
----------------------------------------------------------------------------
\* Every step keeps the types.
LEMMA ServerKeepsTypes == ServerInv /\ [SNext]_vars => STypeOK'
<1> SUFFICES ASSUME ServerInv, [SNext]_vars PROVE STypeOK'
  OBVIOUS
<1>t. TypeOK'
  BY ServerKeepsBoot DEF BootInv
<1> USE <1>t DEF ServerInv, STypeOK
<1>1. CASE Boot
  BY <1>1 DEF Boot, serverVars
<1>2. CASE Serve \/ Listen \/ ListenFails \/ Signal
  BY <1>2 DEF Serve, Listen, ListenFails, Signal
<1>3. CASE SelectError \/ SelectSignal \/ HttpShutdown \/ ServeReturns
  BY <1>3 DEF SelectError, SelectSignal, HttpShutdown, ServeReturns
<1>4. CASE Drained \/ DrainExpires
  BY <1>4 DEF Drained, DrainExpires, TypeOK
<1>5. ASSUME NEW i \in Positions, CallShutdown(i) PROVE STypeOK'
  BY <1>5 DEF CallShutdown, Positions
<1>6. ASSUME NEW i \in Positions, ReturnShutdown(i) PROVE STypeOK'
  <2>1. shutErr' \subseteq shutErr \cup {i}
    BY <1>6, ReturnFacts
  <2>2. shutErr' \subseteq Positions
    BY <2>1
  <2> QED BY <1>6, <2>2 DEF ReturnShutdown
<1>7. ASSUME NEW i \in Positions, FinishClose(i) PROVE STypeOK'
  BY <1>7 DEF FinishClose, serverVars
<1>8. ASSUME NEW r \in Requests, Accept(r) \/ Respond(r) \/ HandlerTimeout(r)
      PROVE  STypeOK'
  BY <1>8 DEF Accept, Respond, HandlerTimeout
<1>9. CASE Terminated \/ UNCHANGED vars
  BY <1>9 DEF Terminated, vars, serverVars
<1> QED BY <1>1, <1>2, <1>3, <1>4, <1>5, <1>6, <1>7, <1>8, <1>9
        DEF SNext, ServeGoroutine

\* Every step keeps the stages: in particular no request becomes active after
\* the drain.
LEMMA ServerKeepsStages == ServerInv /\ [SNext]_vars => StageInv'
<1> SUFFICES ASSUME ServerInv, [SNext]_vars PROVE StageInv'
  OBVIOUS
<1> USE DEF ServerInv, STypeOK, StageInv, LoopEntered, Active
<1>1. CASE Boot
  <2>1. serve = "off"
    BY <1>1 DEF Boot, Next, WithProvider, WithFeature, PassProvider, LoadOk,
       LoadFails, ValidateFeatureMapping, Skip, FeatureMismatch, InitSucceeds,
       InitFails, BuildRouter, At
  <2> QED BY <1>1, <2>1 DEF Boot, serverVars
<1>2. CASE Serve \/ Listen \/ ListenFails \/ Signal
  BY <1>2 DEF Serve, Listen, ListenFails, Signal, bootVars
<1>3. CASE SelectError \/ SelectSignal \/ HttpShutdown \/ ServeReturns
  BY <1>3 DEF SelectError, SelectSignal, HttpShutdown, ServeReturns, bootVars
<1>4. CASE Drained \/ DrainExpires
  BY <1>4 DEF Drained, DrainExpires, bootVars
<1>5. ASSUME NEW i \in Positions, CallShutdown(i) PROVE StageInv'
  BY <1>5 DEF CallShutdown, Positions
<1>6. ASSUME NEW i \in Positions, ReturnShutdown(i) PROVE StageInv'
  BY <1>6 DEF ReturnShutdown
<1>7. ASSUME NEW i \in Positions, FinishClose(i) PROVE StageInv'
  BY <1>7 DEF FinishClose, serverVars
<1>8. ASSUME NEW r \in Requests, Accept(r) PROVE StageInv'
  BY <1>8 DEF Accept, bootVars
<1>9. ASSUME NEW r \in Requests, Respond(r) \/ HandlerTimeout(r)
      PROVE  StageInv'
  BY <1>9 DEF Respond, HandlerTimeout, bootVars
<1>10. CASE Terminated \/ UNCHANGED vars
  BY <1>10 DEF Terminated, vars, serverVars, bootVars
<1> QED BY <1>1, <1>2, <1>3, <1>4, <1>5, <1>6, <1>7, <1>8, <1>9, <1>10
        DEF SNext, ServeGoroutine

\* Steps that leave the loop's variables and the providers alone.
LEMMA IdleKeepsLoop ==
  ASSUME ServerInv,
         UNCHANGED <<bootVars, todo, current, shutErr>>,
         LoopEntered' <=> LoopEntered
  PROVE  OrderInv' /\ UntouchedInv' /\ PassedInv'
BY DEF ServerInv, OrderInv, UntouchedInv, PassedInv, Target, bootVars

\* While the application boots there is no loop, and a fresh client is open.
LEMMA BootKeepsLoop ==
  ASSUME ServerInv, Boot
  PROVE  OrderInv' /\ UntouchedInv' /\ PassedInv'
<1>1. serve = "off" /\ serve' = "off" /\ result = "none" /\ result' = "none"
  BY DEF Boot, Next, WithProvider, WithFeature, PassProvider, LoadOk,
     LoadFails, ValidateFeatureMapping, Skip, FeatureMismatch, InitSucceeds,
     InitFails, BuildRouter, At, serverVars, ServerInv, StageInv, STypeOK
<1>2. ~LoopEntered /\ ~LoopEntered'
  BY <1>1 DEF LoopEntered
<1>3. todo = {} /\ todo' = {} /\ current = 0 /\ current' = 0
  BY <1>1, <1>2 DEF Boot, serverVars, ServerInv, StageInv
<1>4. OrderInv' /\ PassedInv'
  BY <1>2, <1>3 DEF OrderInv, PassedInv
<1>5. UntouchedInv'
  <2>1. \A i \in retained : client[i] \in {"open", "none"}
    BY <1>2 DEF ServerInv, UntouchedInv
  <2>2. CASE UNCHANGED <<retained, client>>
    BY <2>1, <2>2 DEF UntouchedInv
  <2>3. ASSUME NEW i \in Positions, InitSucceeds(i) PROVE UntouchedInv'
    <3>1. registered[i] \in Keys
      BY <2>3 DEF InitSucceeds, At, ServerInv, BootInv, TypeOK
    <3>2. PICK o \in InitResults(registered[i]) :
            o.err = "ok" /\ client' = [client EXCEPT ![i] = o.client]
      BY <2>3 DEF InitSucceeds
    <3>3. o.client \in {"open", "none"}
      BY <3>1, <3>2, InitResultFacts DEF ServerInv, BootInv
    <3>4. retained' = retained \cup {i}
      BY <2>3 DEF InitSucceeds
    <3> QED BY <2>1, <3>2, <3>3, <3>4
            DEF UntouchedInv, ServerInv, BootInv, TypeOK
  <2>4. ASSUME NEW i \in Positions, InitFails(i) PROVE UntouchedInv'
    <3>1. i \notin retained
      BY <2>4 DEF InitFails, At, ServerInv, BootInv, TypeOK, ProgressInv
    <3>2. retained' = retained /\ \E c : client' = [client EXCEPT ![i] = c]
      BY <2>4 DEF InitFails
    <3> QED BY <2>1, <3>1, <3>2 DEF UntouchedInv, ServerInv, BootInv, TypeOK
  <2> QED BY <2>2, <2>3, <2>4 DEF Boot, Next, WithProvider, WithFeature,
         PassProvider, LoadOk, LoadFails, ValidateFeatureMapping, Skip,
         FeatureMismatch, BuildRouter
<1> QED BY <1>4, <1>5

\* The loop begins: everything is still to do.
LEMMA LoopBegins ==
  ASSUME ServerInv, Drained \/ DrainExpires
  PROVE  OrderInv' /\ UntouchedInv' /\ PassedInv'
<1>1. ~LoopEntered /\ current = 0
  BY DEF Drained, DrainExpires, LoopEntered, ServerInv, StageInv
<1>2. todo' = retained /\ current' = 0 /\ UNCHANGED bootVars
  BY <1>1 DEF Drained, DrainExpires
<1>3. \A i \in retained : client[i] \in {"open", "none"}
  BY <1>1 DEF ServerInv, UntouchedInv
<1> QED BY <1>2, <1>3 DEF OrderInv, UntouchedInv, PassedInv, bootVars

\* A turn of the loop begins with the largest position left.
LEMMA CallKeepsLoop ==
  ASSUME ServerInv, NEW i \in Positions, CallShutdown(i)
  PROVE  OrderInv' /\ UntouchedInv' /\ PassedInv'
<1>1. /\ i \in retained /\ i \in todo /\ \A j \in todo : j <= i
      /\ serve = "providers" /\ current = 0
      /\ current' = i /\ todo' = todo \ {i}
      /\ LoopEntered /\ LoopEntered'
      /\ UNCHANGED <<registered, retained, handles, shutErr>>
  BY CallFacts DEF CallShutdown, Last, LoopEntered, ServerInv, StageInv
<1>2. PICK c \in ClientStates :
        /\ client' = [client EXCEPT ![Target(i)] = c]
        /\ c = IF client[Target(i)] = "open" THEN "closing"
               ELSE client[Target(i)]
  BY CallFacts
<1>3. /\ Target(i) \in retained /\ Target(i) \in Positions /\ Target(i) >= i
      /\ registered[Target(i)] = registered[i]
  BY <1>1, TargetFacts DEF ServerInv
<1>4. /\ client \in [Positions -> ClientStates] /\ retained \subseteq Positions
      /\ \A j \in Positions : j \in Nat /\ j # 0
  BY DEF ServerInv, BootInv, TypeOK, Positions
<1>5. OrderInv'
  BY <1>1, <1>4 DEF ServerInv, OrderInv
<1>6. \A j \in retained : Target(j)' = Target(j)
  BY <1>1 DEF Target
<1>7. UntouchedInv'
  <2>1. ASSUME NEW j \in retained', j \in todo'
        PROVE  client'[j] \in {"open", "none"}
    <3>1. j \in todo /\ j # i /\ j < i /\ j \in Positions
      BY <1>1, <1>4, <2>1
    <3>2. j # Target(i)
      BY <1>3, <1>4, <3>1
    <3> QED BY <1>1, <1>2, <1>4, <3>1, <3>2 DEF ServerInv, UntouchedInv
  <2> QED BY <1>1, <2>1 DEF UntouchedInv
<1>8. PassedInv'
  <2>1. ASSUME NEW j \in retained, j \notin todo', Target(j) = j
        PROVE  /\ client'[j] # "open"
               /\ registered[j] = "scheduler" /\ j # i =>
                    client'[j] = "closed" \/ j \in shutErr
    <3>1. CASE j = i
      BY <1>2, <1>4, <2>1, <3>1
    <3>2. CASE j # i
      <4>1. j \notin todo
        BY <1>1, <2>1, <3>2
      <4>2. /\ client[j] # "open"
            /\ registered[j] = "scheduler" =>
                 client[j] = "closed" \/ j \in shutErr
        BY <1>1, <1>4, <2>1, <4>1 DEF ServerInv, PassedInv
      <4>3. client'[j] # "open" /\ (client[j] = "closed" => client'[j] = "closed")
        <5>1. CASE j = Target(i)
          BY <1>2, <1>3, <1>4, <4>2, <5>1
        <5>2. CASE j # Target(i)
          BY <1>2, <1>4, <4>2, <5>2
        <5> QED BY <5>1, <5>2
      <4> QED BY <4>2, <4>3
    <3> QED BY <3>1, <3>2
  <2> QED BY <1>1, <1>6, <2>1 DEF PassedInv
<1> QED BY <1>5, <1>7, <1>8

\* A turn of the loop ends.
LEMMA ReturnKeepsLoop ==
  ASSUME ServerInv, NEW i \in Positions, ReturnShutdown(i)
  PROVE  OrderInv' /\ UntouchedInv' /\ PassedInv'
<1>1. /\ i \in retained /\ i = current /\ current # 0 /\ current' = 0
      /\ serve = "calling" /\ todo' = todo
      /\ LoopEntered /\ LoopEntered'
      /\ UNCHANGED <<registered, retained, handles>>
      /\ shutErr \subseteq shutErr'
  BY ReturnFacts DEF ReturnShutdown, LoopEntered, ServerInv, StageInv
<1>2. PICK c \in ClientStates :
        /\ client' = [client EXCEPT ![Target(i)] = c]
        /\ c # client[Target(i)] => client[Target(i)] = "closing"
        /\ c # "open" \/ client[Target(i)] = "open"
        /\ registered[i] = "scheduler" /\ client[Target(i)] \in {"closing", "closed"} =>
             c = "closed" \/ i \in shutErr'
  BY ReturnFacts
<1>3. /\ Target(i) \in retained /\ Target(i) \in Positions /\ Target(i) >= i
      /\ registered[Target(i)] = registered[i]
  BY <1>1, TargetFacts DEF ServerInv
<1>4. /\ client \in [Positions -> ClientStates] /\ retained \subseteq Positions
      /\ \A j \in Positions : j \in Nat /\ j # 0
  BY DEF ServerInv, BootInv, TypeOK, Positions
<1>5. OrderInv'
  BY <1>1 DEF ServerInv, OrderInv
<1>6. \A j \in retained : Target(j)' = Target(j)
  BY <1>1 DEF Target
<1>7. UntouchedInv'
  <2>1. ASSUME NEW j \in retained, j \in todo
        PROVE  client'[j] \in {"open", "none"}
    <3>1. j < i /\ j \in Positions
      BY <1>1, <1>4, <2>1 DEF ServerInv, OrderInv
    <3>2. j # Target(i)
      BY <1>3, <1>4, <3>1
    <3> QED BY <1>1, <1>2, <1>4, <2>1, <3>1, <3>2 DEF ServerInv, UntouchedInv
  <2> QED BY <1>1, <2>1 DEF UntouchedInv
<1>8. PassedInv'
  <2>1. ASSUME NEW j \in retained, j \notin todo, Target(j) = j
        PROVE  /\ client'[j] # "open"
               /\ registered[j] = "scheduler" =>
                    client'[j] = "closed" \/ j \in shutErr'
    <3>1. /\ client[j] # "open"
          /\ registered[j] = "scheduler" /\ j # i =>
               client[j] = "closed" \/ j \in shutErr
      BY <1>1, <2>1 DEF ServerInv, PassedInv
    <3>2. j \in Positions
      BY <1>4
    <3>3. client'[j] # "open" /\ (client[j] = "closed" => client'[j] = "closed")
      <4>1. CASE j = Target(i)
        BY <1>2, <1>4, <3>1, <3>2, <4>1
      <4>2. CASE j # Target(i)
        BY <1>2, <1>4, <3>1, <3>2, <4>2
      <4> QED BY <4>1, <4>2
    <3>4. CASE j # i
      BY <1>1, <3>1, <3>3, <3>4
    <3>5. CASE j = i /\ registered[j] = "scheduler"
      <4>1. client[j] \in {"closing", "closed"}
        BY <3>1, <3>2, <3>5, <1>4
           DEF ServerInv, BootInv, ClientInv, ClientStates
      <4>2. Target(i) = i
        BY <2>1, <3>5
      <4> QED BY <1>2, <1>4, <3>2, <3>3, <3>5, <4>1, <4>2
    <3> QED BY <3>3, <3>4, <3>5
  <2> QED BY <1>1, <1>6, <2>1 DEF PassedInv
<1> QED BY <1>5, <1>7, <1>8

\* A close that ends in the background touches only what was released.
LEMMA FinishKeepsLoop ==
  ASSUME ServerInv, NEW i \in Positions, FinishClose(i)
  PROVE  OrderInv' /\ UntouchedInv' /\ PassedInv'
<1>1. /\ client[i] = "closing" /\ client' = [client EXCEPT ![i] = "closed"]
      /\ UNCHANGED <<registered, retained, handles, todo, current, shutErr,
                     serve, result>>
  BY DEF FinishClose, serverVars
<1>2. client \in [Positions -> ClientStates] /\ retained \subseteq Positions
  BY DEF ServerInv, BootInv, TypeOK
<1>3. LoopEntered' <=> LoopEntered
  BY <1>1 DEF LoopEntered
<1>4. \A j \in retained : Target(j)' = Target(j)
  BY <1>1 DEF Target
<1>5. OrderInv'
  BY <1>1 DEF ServerInv, OrderInv
<1>6. UntouchedInv'
  BY <1>1, <1>2, <1>3 DEF ServerInv, UntouchedInv
<1>7. PassedInv'
  BY <1>1, <1>2, <1>3, <1>4 DEF ServerInv, PassedInv
<1> QED BY <1>5, <1>6, <1>7

\* Every step keeps the invariants of the loop.
LEMMA ServerKeepsLoop ==
  ServerInv /\ [SNext]_vars => OrderInv' /\ UntouchedInv' /\ PassedInv'
<1> SUFFICES ASSUME ServerInv, [SNext]_vars
             PROVE  OrderInv' /\ UntouchedInv' /\ PassedInv'
  OBVIOUS
<1>1. CASE Boot
  BY <1>1, BootKeepsLoop
<1>2. CASE Serve \/ Listen \/ ListenFails \/ Signal
  <2>1. UNCHANGED <<bootVars, todo, current, shutErr>>
    BY <1>2 DEF Serve, Listen, ListenFails, Signal
  <2>2. LoopEntered' <=> LoopEntered
    BY <1>2 DEF Serve, Listen, ListenFails, Signal, LoopEntered
  <2> QED BY <2>1, <2>2, IdleKeepsLoop
<1>3. CASE SelectError \/ SelectSignal \/ HttpShutdown \/ ServeReturns
  <2>1. UNCHANGED <<bootVars, todo, current, shutErr>>
    BY <1>3 DEF SelectError, SelectSignal, HttpShutdown, ServeReturns
  <2>2. LoopEntered' <=> LoopEntered
    BY <1>3 DEF SelectError, SelectSignal, HttpShutdown, ServeReturns,
                LoopEntered, ServerInv, StageInv
  <2> QED BY <2>1, <2>2, IdleKeepsLoop
<1>4. CASE Drained \/ DrainExpires
  BY <1>4, LoopBegins
<1>5. ASSUME NEW i \in Positions,
             CallShutdown(i) \/ ReturnShutdown(i) \/ FinishClose(i)
      PROVE  OrderInv' /\ UntouchedInv' /\ PassedInv'
  BY <1>5, CallKeepsLoop, ReturnKeepsLoop, FinishKeepsLoop
<1>6. ASSUME NEW r \in Requests, Accept(r) \/ Respond(r) \/ HandlerTimeout(r)
      PROVE  OrderInv' /\ UntouchedInv' /\ PassedInv'
  <2>1. UNCHANGED <<bootVars, todo, current, shutErr, serve, result>>
    BY <1>6 DEF Accept, Respond, HandlerTimeout
  <2> QED BY <2>1, IdleKeepsLoop DEF LoopEntered
<1>7. CASE Terminated \/ UNCHANGED vars
  <2>1. UNCHANGED <<bootVars, todo, current, shutErr, serve, result>>
    BY <1>7 DEF Terminated, vars, serverVars
  <2> QED BY <2>1, IdleKeepsLoop DEF LoopEntered
<1> QED BY <1>1, <1>2, <1>3, <1>4, <1>5, <1>6, <1>7 DEF SNext, ServeGoroutine
----------------------------------------------------------------------------
\* The invariant holds throughout.
LEMMA ServerInvHolds == SSpec => []ServerInv
<1>1. SInit => ServerInv
  <2> SUFFICES ASSUME SInit PROVE ServerInv
    OBVIOUS
  <2>1. BootInv
    BY InitBootInv DEF SInit
  <2>2. STypeOK
    <3>1. TypeOK
      BY <2>1 DEF BootInv
    <3>2. request \in [Requests -> {"none", "active", "abandoned", "done"}]
      BY DEF SInit
    <3>3. todo \subseteq Positions /\ shutErr \subseteq Positions
      BY DEF SInit
    <3>4. current \in 0 .. MaxProviders
      BY DEF SInit
    <3> QED BY <3>1, <3>2, <3>3, <3>4 DEF SInit, STypeOK
  <2>3. StageInv /\ OrderInv /\ UntouchedInv /\ PassedInv
    BY DEF SInit, Init, StageInv, OrderInv, UntouchedInv, PassedInv, LoopEntered
  <2> QED BY <2>1, <2>2, <2>3 DEF ServerInv
<1>2. ServerInv /\ [SNext]_vars => ServerInv'
  BY ServerKeepsBoot, ServerKeepsTypes, ServerKeepsStages, ServerKeepsLoop
     DEF ServerInv
<1> QED BY <1>1, <1>2, PTL DEF SSpec

\* The types of Server hold throughout.
THEOREM ServerTypeCorrect == SSpec => []STypeOK
<1>1. ServerInv => STypeOK
  BY DEF ServerInv
<1> QED BY <1>1, ServerInvHolds, PTL

\* No provider is released under an active request before the drain timeout,
\* nor before the shutdown token is cancelled.
THEOREM DrainsBeforeRelease == SSpec => []DrainBeforeRelease
<1>1. ServerInv => DrainBeforeRelease
  BY DEF ServerInv, StageInv, UntouchedInv, DrainBeforeRelease, Released
<1> QED BY <1>1, ServerInvHolds, PTL

\* A provider is released after the ones that run on its client.
THEOREM DependentsFirst == SSpec => []DependentsReleasedFirst
<1>1. ServerInv => DependentsReleasedFirst
  <2> SUFFICES ASSUME ServerInv, NEW j \in retained, NEW i \in uses[j],
                      Released(i), Target(j) = j
               PROVE  client[j] = "closed" \/ j \in shutErr
    BY DEF DependentsReleasedFirst
  <2>1. i \in retained /\ i < j
    BY DEF ServerInv, BootInv, CapturesEarlierOnly
  <2>2. registered[j] = "scheduler"
    BY DEF ServerInv, BootInv, CapturesEarlierOnly, Requires
  <2>3. LoopEntered /\ i \notin todo
    BY <2>1 DEF ServerInv, UntouchedInv, Released
  <2>4. j \notin todo
    BY <2>1, <2>3 DEF ServerInv, OrderInv
  <2>5. j # current
    BY <2>1, <2>3, TargetFacts DEF ServerInv, OrderInv
  <2> QED BY <2>2, <2>3, <2>4, <2>5 DEF ServerInv, PassedInv
<1> QED BY <1>1, ServerInvHolds, PTL

\* When Serve has returned nil nothing that it could reach is open.
THEOREM ReturnLeavesNothingOpen == SSpec => []ReturnReleasesAll
<1>1. ServerInv => ReturnReleasesAll
  BY DEF ServerInv, StageInv, PassedInv, BootInv, ClientInv, LoopEntered,
         ReturnReleasesAll
<1> QED BY <1>1, ServerInvHolds, PTL
-----------------------------------------------------------------------------
(***************************************************************************)
(* Readiness.                                                              *)
(***************************************************************************)

\* A request covers what was registered when it arrived.
CoverInv ==
  \A r \in ReadyRequests :
    /\ before[r] \subseteq registry
    /\ stage[r] \in {"waiting", "answered"} => before[r] \subseteq snap[r]
    /\ stage[r] = "none" => before[r] = {}

\* The history of an open request includes the present.
SeenInv == \A r \in ReadyRequests : Open(r) => Up \subseteq seenUp[r]

\* Only checks that were copied run, and only while their request waits.
RunInv ==
  \A r \in ReadyRequests : \A c \in Checks :
    /\ probe[r][c] \in {"spawned", "running"} =>
         stage[r] = "waiting" /\ c \in snap[r]
    /\ stage[r] \in {"none", "arrived"} => probe[r][c] = "off"

\* A healthy report is that of a probe that ended while the remote was up.
ReportInv ==
  \A r \in ReadyRequests : \A c \in Checks \ {"app"} :
    probe[r][c] = "ended" =>
      /\ results[r][c] \in {"healthy", "unhealthy"}
      /\ results[r][c] = "healthy" => c \in seenUp[r]

\* A request that was answered has heard from every check, and its answer is
\* "unhealthy" if one of them said so.
AnswerInv ==
  \A r \in ReadyRequests :
    stage[r] = "answered" =>
      \A c \in snap[r] :
        /\ probe[r][c] = "ended"
        /\ results[r][c] = "unhealthy" => answer[r] = "unhealthy"

HealthInv == HTypeOK /\ CoverInv /\ SeenInv /\ RunInv /\ ReportInv /\ AnswerInv

\* The aggregate is "unhealthy" if one of the results is.
LEMMA OverallFacts ==
  ASSUME HTypeOK, NEW r \in ReadyRequests
  PROVE  /\ Overall(r) \in {"healthy", "degraded", "unhealthy"}
         /\ \A c \in snap[r] :
              results[r][c] = "unhealthy" => Overall(r) = "unhealthy"
<1> DEFINE reported == {results[r][c] : c \in snap[r]}
<1>1. \A c \in snap[r] : results[r][c] \in reported
  OBVIOUS
<1>2. Overall(r) = CASE "unhealthy" \in reported -> "unhealthy"
                     [] "unhealthy" \notin reported /\ "degraded" \in reported
                          -> "degraded"
                     [] OTHER -> "healthy"
  BY DEF Overall
<1> HIDE DEF reported
<1> QED BY <1>1, <1>2

\* A probe that ends keeps the invariant if what it reports is true.
LEMMA EndKeepsInv ==
  ASSUME HealthInv, NEW r \in ReadyRequests, NEW c \in Checks, NEW s \in Statuses,
         ProbeEnds(r, c, s),
         c # "app" => s \in {"healthy", "unhealthy"},
         c # "app" /\ s = "healthy" => remote[c] = "up"
  PROVE  HealthInv'
<1> USE DEF HealthInv
<1>1. /\ stage[r] = "waiting" /\ probe[r][c] = "running"
      /\ probe' = [probe EXCEPT ![r][c] = "ended"]
      /\ results' = [results EXCEPT ![r][c] = s]
      /\ UNCHANGED <<registry, remote, stage, before, seenUp, expired, snap,
                     answer>>
  BY DEF ProbeEnds, RunInv
<1>2. HTypeOK'
  BY <1>1 DEF HTypeOK
<1>3. CoverInv' /\ SeenInv'
  BY <1>1 DEF CoverInv, SeenInv, Open, Up
<1>4. RunInv'
  BY <1>1 DEF RunInv, HTypeOK
<1>5. ReportInv'
  <2>1. c # "app" /\ s = "healthy" => c \in seenUp[r]
    BY <1>1 DEF SeenInv, Open, Up
  <2> SUFFICES ASSUME NEW q \in ReadyRequests, NEW d \in Checks \ {"app"},
                      probe'[q][d] = "ended"
               PROVE  /\ results'[q][d] \in {"healthy", "unhealthy"}
                      /\ results'[q][d] = "healthy" => d \in seenUp'[q]
    BY DEF ReportInv
  <2>2. CASE q = r /\ d = c
    BY <1>1, <2>1, <2>2 DEF HTypeOK
  <2>3. CASE ~(q = r /\ d = c)
    BY <1>1, <2>3 DEF HTypeOK, ReportInv
  <2> QED BY <2>2, <2>3
<1>6. AnswerInv'
  BY <1>1 DEF AnswerInv, HTypeOK
<1> QED BY <1>2, <1>3, <1>4, <1>5, <1>6

\* Every step keeps the invariant.
LEMMA HealthInvInductive == HealthInv /\ [HNext]_hVars => HealthInv'
<1> SUFFICES ASSUME HealthInv, [HNext]_hVars PROVE HealthInv'
  OBVIOUS
<1> USE DEF HealthInv
<1>1. ASSUME NEW c \in Checks, Register(c) PROVE HealthInv'
  BY <1>1 DEF Register, HTypeOK, CoverInv, SeenInv, RunInv, ReportInv, AnswerInv,
              Open, Up
<1>2. ASSUME NEW c \in Checks, RemoteChanges(c) PROVE HealthInv'
  <2>1. /\ remote' \in [Checks -> {"up", "down", "hung"}]
        /\ UNCHANGED <<registry, stage, before, expired, snap, probe, results,
                       answer>>
    BY <1>2 DEF RemoteChanges, HTypeOK
  <2>2. /\ seenUp' \in [ReadyRequests -> SUBSET Checks]
        /\ \A r \in ReadyRequests : seenUp[r] \subseteq seenUp'[r]
        /\ \A r \in ReadyRequests : Open(r) => Up' \subseteq seenUp'[r]
    BY <1>2 DEF RemoteChanges, HTypeOK, Up
  <2>3. HTypeOK'
    BY <2>1, <2>2 DEF HTypeOK
  <2>4. CoverInv' /\ RunInv'
    BY <2>1 DEF CoverInv, RunInv
  <2>5. SeenInv'
    BY <2>1, <2>2 DEF SeenInv, Open
  <2>6. ReportInv'
    BY <2>1, <2>2 DEF ReportInv
  <2>7. AnswerInv'
    BY <2>1 DEF AnswerInv
  <2> QED BY <2>3, <2>4, <2>5, <2>6, <2>7
<1>3. ASSUME NEW r \in ReadyRequests, Ready(r) PROVE HealthInv'
  <2>1. /\ stage[r] = "none"
        /\ stage' = [stage EXCEPT ![r] = "arrived"]
        /\ before' = [before EXCEPT ![r] = registry]
        /\ seenUp' = [seenUp EXCEPT ![r] = Up]
        /\ UNCHANGED <<registry, remote, expired, snap, probe, results, answer>>
    BY <1>3 DEF Ready
  <2>2. HTypeOK'
    BY <2>1 DEF HTypeOK, Up
  <2>3. CoverInv' /\ SeenInv' /\ RunInv'
    BY <2>1 DEF HTypeOK, CoverInv, SeenInv, RunInv, Open, Up
  <2>4. ReportInv'
    <3>1. \A c \in Checks : probe[r][c] = "off"
      BY <2>1 DEF RunInv
    <3>2. \A q \in ReadyRequests : q # r => seenUp'[q] = seenUp[q]
      BY <2>1 DEF HTypeOK
    <3> QED BY <2>1, <3>1, <3>2 DEF ReportInv
  <2>5. AnswerInv'
    BY <2>1 DEF HTypeOK, AnswerInv
  <2> QED BY <2>2, <2>3, <2>4, <2>5
<1>4. ASSUME NEW r \in ReadyRequests, Expire(r) PROVE HealthInv'
  BY <1>4 DEF Expire, HTypeOK, CoverInv, SeenInv, RunInv, ReportInv, AnswerInv,
              Open, Up
<1>5. ASSUME NEW r \in ReadyRequests, Spawn(r) PROVE HealthInv'
  <2>1. /\ stage[r] = "arrived"
        /\ stage' = [stage EXCEPT ![r] = "waiting"]
        /\ snap' = [snap EXCEPT ![r] = registry]
        /\ UNCHANGED <<registry, remote, before, seenUp, expired, results, answer>>
    BY <1>5 DEF Spawn
  <2>2. /\ probe' \in [ReadyRequests -> [Checks -> {"off", "spawned", "running", "ended"}]]
        /\ \A q \in ReadyRequests : q # r => probe'[q] = probe[q]
        /\ \A c \in Checks : \/ probe'[r][c] = "off"
                             \/ probe'[r][c] = "spawned" /\ c \in registry
    BY <1>5 DEF Spawn, HTypeOK
  <2>3. HTypeOK'
    BY <2>1, <2>2 DEF HTypeOK
  <2>4. CoverInv' /\ SeenInv'
    BY <2>1 DEF HTypeOK, CoverInv, SeenInv, Open, Up
  <2>5. RunInv'
    BY <2>1, <2>2 DEF HTypeOK, RunInv
  <2>6. ReportInv'
    BY <2>1, <2>2 DEF HTypeOK, ReportInv
  <2>7. AnswerInv'
    BY <2>1, <2>2 DEF HTypeOK, AnswerInv
  <2> QED BY <2>3, <2>4, <2>5, <2>6, <2>7
<1>6. ASSUME NEW r \in ReadyRequests, NEW c \in Checks, ProbeStarts(r, c)
      PROVE  HealthInv'
  <2>1. /\ stage[r] = "waiting"
        /\ probe' = [probe EXCEPT ![r][c] = "running"]
        /\ UNCHANGED <<registry, remote, stage, before, seenUp, expired, snap,
                       results, answer>>
    BY <1>6 DEF ProbeStarts, RunInv
  <2>2. HTypeOK'
    BY <2>1 DEF HTypeOK
  <2>3. CoverInv' /\ SeenInv'
    BY <2>1 DEF CoverInv, SeenInv, Open, Up
  <2>4. c \in snap[r]
    BY <1>6 DEF ProbeStarts, RunInv
  <2>5. RunInv'
    BY <2>1, <2>4 DEF HTypeOK, RunInv
  <2>6. ReportInv'
    BY <2>1 DEF HTypeOK, ReportInv
  <2>7. AnswerInv'
    BY <2>1 DEF HTypeOK, AnswerInv
  <2> QED BY <2>2, <2>3, <2>5, <2>6, <2>7
<1>7. ASSUME NEW r \in ReadyRequests, NEW c \in Checks,
             RemoteAnswers(r, c) \/ WaitIsOver(r, c)
      PROVE  HealthInv'
  <2>1. PICK s \in {"healthy", "unhealthy"} :
          ProbeEnds(r, c, s) /\ (s = "healthy" => remote[c] = "up")
    BY <1>7 DEF RemoteAnswers, WaitIsOver
  <2> QED BY <2>1, EndKeepsInv DEF Statuses
<1>8. ASSUME NEW r \in ReadyRequests, NEW c \in Checks, AppAnswers(r, c)
      PROVE  HealthInv'
  BY <1>8, EndKeepsInv DEF AppAnswers
<1>9. ASSUME NEW r \in ReadyRequests, Answer(r) PROVE HealthInv'
  <2>1. /\ stage[r] = "waiting"
        /\ \A c \in snap[r] : probe[r][c] = "ended"
        /\ stage' = [stage EXCEPT ![r] = "answered"]
        /\ answer' = [answer EXCEPT ![r] = Overall(r)]
        /\ UNCHANGED <<registry, remote, before, seenUp, expired, snap, probe,
                       results>>
    BY <1>9 DEF Answer, AllEnded
  <2>2. HTypeOK'
    BY <2>1, OverallFacts DEF HTypeOK
  <2>3. CoverInv' /\ SeenInv'
    BY <2>1 DEF HTypeOK, CoverInv, SeenInv, Open, Up
  <2>4. RunInv'
    BY <2>1 DEF HTypeOK, RunInv
  <2>5. ReportInv'
    BY <2>1 DEF ReportInv
  <2>6. AnswerInv'
    BY <2>1, OverallFacts DEF HTypeOK, AnswerInv
  <2> QED BY <2>2, <2>3, <2>4, <2>5, <2>6
<1>10. CASE UNCHANGED hVars
  BY <1>10 DEF hVars, HTypeOK, CoverInv, SeenInv, RunInv, ReportInv, AnswerInv,
               Open, Up
<1> QED
  BY <1>1, <1>2, <1>3, <1>4, <1>5, <1>6, <1>7, <1>8, <1>9, <1>10 DEF HNext

\* The invariant holds throughout.
LEMMA HealthInvHolds == HSpec => []HealthInv
<1>1. HInit => HealthInv
  BY DEF HInit, HealthInv, HTypeOK, CoverInv, SeenInv, RunInv, ReportInv,
         AnswerInv, Open, Statuses
<1> QED BY <1>1, HealthInvInductive, PTL DEF HSpec

\* The types of readiness hold throughout.
THEOREM HealthTypeCorrect == HSpec => []HTypeOK
<1>1. HealthInv => HTypeOK
  BY DEF HealthInv
<1> QED BY <1>1, HealthInvHolds, PTL

\* A 200 from /health/ready is earned by every check registered before.
THEOREM ReadyEarned == HSpec => []ReadyIsEarned
<1>1. HealthInv => ReadyIsEarned
  BY DEF HealthInv, HTypeOK, CoverInv, ReportInv, AnswerInv, ReadyIsEarned
<1> QED BY <1>1, HealthInvHolds, PTL
=============================================================================
