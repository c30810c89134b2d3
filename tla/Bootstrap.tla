----------------------------- MODULE Bootstrap -----------------------------
(***************************************************************************)
(* The options of the hwhkit facade (src/hwhkit/bootstrap.go) and the      *)
(* bootstrap pipeline core.BootstrapWith (src/core/bootstrap.go): load the *)
(* configuration, check it against the compiled-in features, initialise    *)
(* the providers in registration order, build the router.                  *)
(*                                                                         *)
(* A provider is named by its position in the registration order, because  *)
(* nothing stops a caller from registering the same key twice: the second  *)
(* handle then replaces the first one in the application context.          *)
(***************************************************************************)
EXTENDS Providers, Naturals, Sequences, FiniteSets

CONSTANTS Keys,         \* the provider keys in play
          MaxProviders  \* bound: how many providers a caller registers

ASSUME KeysAssumption == Keys \subseteq AllKeys
ASSUME MaxProvidersAssumption == MaxProviders \in Nat

VARIABLES
  phase,       \* where the bootstrap is
  failure,     \* why it failed, "none" if it did not
  registered,  \* the provider list, in registration order
  features,    \* runtime.Features: the enabled feature keys
  enabled,     \* the keys the loaded configuration enables
  required,    \* the keys it marks required
  index,       \* loop index: how many providers have been visited
  retained,    \* positions of the providers that were initialised
  degraded,    \* positions of the optional ones whose Init failed
  checks,      \* positions whose health check is in the registry
  handles,     \* application context: key -> position of the handle, 0 if none
  client,      \* position -> state of the client its Init created
  uses         \* position -> positions of the clients its Init captured

bootVars == <<phase, failure, registered, features, enabled, required, index,
              retained, degraded, checks, handles, client, uses>>

Positions == 1 .. MaxProviders

Registered == {i \in Positions : i <= Len(registered)}

Required(k) == k \in required \cup AlwaysRequired
----------------------------------------------------------------------------
Init ==
  /\ phase = "options"
  /\ failure = "none"
  /\ registered = <<>>
  /\ features = {}
  /\ enabled = {}
  /\ required = {}
  /\ index = 0
  /\ retained = {}
  /\ degraded = {}
  /\ checks = {}
  /\ handles = [k \in Keys |-> 0]
  /\ client = [i \in Positions |-> "none"]
  /\ uses = [i \in Positions |-> {}]

\* hwhkit.WithProvider: remember the provider and enable its feature.
WithProvider(k) ==
  /\ phase = "options"
  /\ Len(registered) < MaxProviders
  /\ registered' = Append(registered, k)
  /\ features' = features \cup {k}
  /\ UNCHANGED <<phase, failure, enabled, required, index, retained, degraded,
                 checks, handles, client, uses>>

\* hwhkit.WithFeature: enable a feature without a provider.
WithFeature(k) ==
  /\ phase = "options"
  /\ features' = features \cup {k}
  /\ UNCHANGED <<phase, failure, registered, enabled, required, index,
                 retained, degraded, checks, handles, client, uses>>

\* A caller of core.BootstrapWith passes providers and features separately.
PassProvider(k) ==
  /\ phase = "options"
  /\ Len(registered) < MaxProviders
  /\ registered' = Append(registered, k)
  /\ UNCHANGED <<phase, failure, features, enabled, required, index, retained,
                 degraded, checks, handles, client, uses>>

\* loader.Load succeeds with some configuration.
LoadOk ==
  /\ phase = "options"
  /\ \E e \in SUBSET Keys, r \in SUBSET Keys :
       /\ enabled' = e
       /\ required' = r
  /\ phase' = "validate"
  /\ UNCHANGED <<failure, registered, features, index, retained, degraded,
                 checks, handles, client, uses>>

LoadFails ==
  /\ phase = "options"
  /\ phase' = "failed"
  /\ failure' = "config"
  /\ UNCHANGED <<registered, features, enabled, required, index, retained,
                 degraded, checks, handles, client, uses>>

\* The keys in the table of validateFeatureMapping.
MappedKeys == {"postgres", "redis", "mongodb", "nats", "qdrant", "neo4j",
               "s3", "oss"}

FeatureMappingOk == enabled \cap MappedKeys \subseteq features

ValidateFeatureMapping ==
  /\ phase = "validate"
  /\ \/ FeatureMappingOk /\ phase' = "providers" /\ UNCHANGED failure
     \/ ~FeatureMappingOk /\ phase' = "failed" /\ failure' = "feature"
  /\ UNCHANGED <<registered, features, enabled, required, index, retained,
                 degraded, checks, handles, client, uses>>
----------------------------------------------------------------------------
(***************************************************************************)
(* One turn of the provider loop.  At(i) is its entry with position i.     *)
(***************************************************************************)
At(i) ==
  /\ phase = "providers"
  /\ index < Len(registered)
  /\ i = index + 1

Skip(i) ==
  /\ At(i)
  /\ registered[i] \notin enabled
  /\ index' = i
  /\ UNCHANGED <<phase, failure, registered, features, enabled, required,
                 retained, degraded, checks, handles, client, uses>>

FeatureMismatch(i) ==
  /\ At(i)
  /\ registered[i] \in enabled \ features
  /\ phase' = "failed"
  /\ failure' = "feature"
  /\ UNCHANGED <<registered, features, enabled, required, index, retained,
                 degraded, checks, handles, client, uses>>

\* Mutant: the lookup of the handle is not checked.
HandlesNotChecked(k) == TRUE

\* The handles Init needs are in the application context.
HandlesPresent(k) == \A d \in Requires(k) : d \in Keys /\ handles[d] # 0

\* What the Init of a provider with key k may do now.
InitResults(k) ==
  IF HandlesPresent(k)
  THEN InitOutcomes[k]
  ELSE Errs({"not_configured"}, "none")

InitSucceeds(i) ==
  /\ At(i)
  /\ registered[i] \in enabled \cap features
  /\ \E o \in InitResults(registered[i]) :
       /\ o.err = "ok"
       /\ client' = [client EXCEPT ![i] = o.client]
  /\ handles' = [handles EXCEPT ![registered[i]] = i]
  /\ uses' = [uses EXCEPT ![i] = {handles[d] : d \in Requires(registered[i])}]
  /\ \E c \in HealthChecks[registered[i]] :
       checks' = IF c = {} THEN checks ELSE checks \cup {i}
  /\ retained' = retained \cup {i}
  /\ index' = i
  /\ UNCHANGED <<phase, failure, registered, features, enabled, required,
                 degraded>>

\* Mutant: the error is not compared with Required.
InitFailsAlwaysDegrades(i) ==
  /\ At(i)
  /\ registered[i] \in enabled \cap features
  /\ \E o \in InitResults(registered[i]) :
       /\ o.err # "ok"
       /\ client' = [client EXCEPT ![i] = o.client]
  /\ degraded' = degraded \cup {i}
  /\ index' = i
  /\ UNCHANGED <<phase, failure, registered, features, enabled, required,
                 retained, checks, handles, uses>>

\* Init fails: abort if the provider is required, go on degraded if not.
\* An abort shuts none of the providers initialised before it down.
InitFails(i) ==
  /\ At(i)
  /\ registered[i] \in enabled \cap features
  /\ \E o \in InitResults(registered[i]) :
       /\ o.err # "ok"
       /\ client' = [client EXCEPT ![i] = o.client]
  /\ \/ /\ Required(registered[i])
        /\ phase' = "failed"
        /\ failure' = "init"
        /\ UNCHANGED <<degraded, index>>
     \/ /\ ~Required(registered[i])
        /\ degraded' = degraded \cup {i}
        /\ index' = i
        /\ UNCHANGED <<phase, failure>>
  /\ UNCHANGED <<registered, features, enabled, required, retained, checks,
                 handles, uses>>

\* app.BuildRouter belongs to the application; it may fail.
BuildRouter ==
  /\ phase = "providers"
  /\ index = Len(registered)
  /\ \/ phase' = "built" /\ UNCHANGED failure
     \/ phase' = "failed" /\ failure' = "router"
  /\ UNCHANGED <<registered, features, enabled, required, index, retained,
                 degraded, checks, handles, client, uses>>
----------------------------------------------------------------------------
Next ==
  \/ \E k \in Keys : WithProvider(k) \/ WithFeature(k) \/ PassProvider(k)
  \/ LoadOk
  \/ LoadFails
  \/ ValidateFeatureMapping
  \/ \E i \in Positions :
       Skip(i) \/ FeatureMismatch(i) \/ InitSucceeds(i) \/ InitFails(i)
  \/ BuildRouter

Spec == Init /\ [][Next]_bootVars
----------------------------------------------------------------------------
(***************************************************************************)
(* Properties                                                              *)
(***************************************************************************)

\* The variables have the types of the Go values they stand for.
TypeOK ==
  /\ phase \in {"options", "validate", "providers", "built", "failed"}
  /\ failure \in {"none", "config", "feature", "init", "router"}
  /\ registered \in Seq(Keys)
  /\ Len(registered) <= MaxProviders
  /\ features \subseteq Keys
  /\ enabled \subseteq Keys
  /\ required \subseteq Keys
  /\ index \in 0 .. Len(registered)
  /\ retained \subseteq Positions
  /\ degraded \subseteq Positions
  /\ checks \subseteq Positions
  /\ handles \in [Keys -> 0 .. MaxProviders]
  /\ client \in [Positions -> ClientStates]
  /\ uses \in [Positions -> SUBSET Positions]

\* An application is handed out only when BootstrapWith has dealt with every
\* enabled provider: it is initialised, or it is optional and recorded as
\* degraded, and not both.
BuiltAccountsForEnabled ==
  phase = "built" =>
    \A i \in Registered :
      registered[i] \in enabled =>
        \/ i \in retained \ degraded
        \/ i \in degraded \ retained /\ ~Required(registered[i])

\* Whatever fails on the way, the application context holds only handles of
\* providers whose Init succeeded, and a client that is not released belongs
\* to a provider that Serve will shut down: a failed or degraded Init leaves
\* neither a handle nor an open client behind.
OnlyRetainedLeaveTraces ==
  /\ \A k \in Keys :
       handles[k] # 0 => /\ handles[k] \in retained
                         /\ registered[handles[k]] = k
  /\ \A i \in Positions : client[i] = "open" => i \in retained
  /\ checks \subseteq retained

\* A provider that was initialised has captured what it requires, and only
\* clients of providers initialised before it: the scheduler never runs on a
\* pool that does not exist or that comes later in the registration order.
CapturesEarlierOnly ==
  \A j \in retained :
    /\ \A i \in uses[j] :
         i \in retained /\ i < j /\ registered[i] \in Requires(registered[j])
    /\ \A d \in Requires(registered[j]) :
         \E i \in uses[j] : registered[i] = d
=============================================================================
