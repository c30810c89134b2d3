----------------------------- MODULE Providers -----------------------------
(***************************************************************************)
(* What the integration providers (src/integration/*, src/scheduler) can   *)
(* do when the bootstrap pipeline and the server call them.  A call is     *)
(* described by the set of its outcomes: the kind of the error it returns  *)
(* ("ok" for nil) and the state in which it leaves the client it works on. *)
(* The remote systems and their drivers are external; which outcomes exist *)
(* follows from the provider's own control flow.                           *)
(***************************************************************************)

\* Every key a shipped provider answers to.
AllKeys == {"postgres", "redis", "mongodb", "nats", "qdrant", "neo4j",
            "s3", "oss", "llm", "scheduler"}

(***************************************************************************)
(* A client is                                                             *)
(*   "none"     never created, or stateless: there is nothing to release;  *)
(*   "open"     usable;                                                    *)
(*   "closing"  its close has begun and has not finished;                  *)
(*   "closed"   released.                                                  *)
(***************************************************************************)
ClientStates == {"none", "open", "closing", "closed"}

ErrKinds == {"not_configured", "invalid_url", "invalid_config",
             "connect_failed", "auth_failed", "timeout", "integration",
             "driver"}  \* a driver's error handed on as it is

Outcome == [err : ErrKinds \cup {"ok"}, client : ClientStates]

Ok(client) == [err |-> "ok", client |-> client]
Errs(kinds, client) == [err : kinds, client : {client}]

\* postgres and redis sort a driver error into a kind (classify).
Classified == {"timeout", "auth_failed", "connect_failed", "integration"}
----------------------------------------------------------------------------
(***************************************************************************)
(* Init: validate the settings, open the client, probe it.  A failed probe *)
(* closes the client before the error is returned.                         *)
(***************************************************************************)
\* Mutant: the pool is not closed when the ping fails.
PostgresInitNoClose == {Ok("open")} \cup Errs({"invalid_url"}, "none")
                         \cup Errs(Classified, "open")

PostgresInit == {Ok("open")}
                  \cup Errs({"invalid_url"}, "none")   \* prefix, ParseConfig
                  \cup Errs(Classified, "none")        \* NewWithConfig
                  \cup Errs(Classified, "closed")      \* Ping

RedisInit == {Ok("open")}
               \cup Errs({"not_configured", "invalid_url"}, "none")
               \cup Errs(Classified, "closed")         \* Ping

MongodbInit == {Ok("open")}
                 \cup Errs({"not_configured", "connect_failed"}, "none")
                 \cup Errs({"connect_failed"}, "closed")

NatsInit == {Ok("open")}
              \cup Errs({"not_configured", "connect_failed"}, "none")
              \cup Errs({"integration"}, "closed")     \* jetstream.New

QdrantInit == {Ok("open")}
                \cup Errs({"connect_failed"}, "none")
                \cup Errs({"connect_failed"}, "closed")

Neo4jInit == {Ok("open")}
               \cup Errs({"not_configured", "connect_failed"}, "none")
               \cup Errs({"connect_failed"}, "closed")

\* s3, oss and llm build HTTP clients that hold nothing to release.
S3Init == {Ok("none")} \cup Errs({"invalid_config", "connect_failed"}, "none")

OssInit == {Ok("none")} \cup Errs({"not_configured", "connect_failed"}, "none")

LlmInit == {Ok("none")} \cup Errs({"not_configured"}, "none")

\* Apart from the missing pool, which Requires below describes.
SchedulerInit == {Ok("open")} \cup Errs({"integration"}, "none")

InitOutcomes ==
  [k \in AllKeys |->
     CASE k = "postgres"  -> PostgresInit
       [] k = "redis"     -> RedisInit
       [] k = "mongodb"   -> MongodbInit
       [] k = "nats"      -> NatsInit
       [] k = "qdrant"    -> QdrantInit
       [] k = "neo4j"     -> Neo4jInit
       [] k = "s3"        -> S3Init
       [] k = "oss"       -> OssInit
       [] k = "llm"       -> LlmInit
       [] k = "scheduler" -> SchedulerInit]

\* The keys whose handle Init fetches from the application context; without
\* it Init fails with "not_configured".
Requires(k) == IF k = "scheduler" THEN {"postgres"} ELSE {}
----------------------------------------------------------------------------
(***************************************************************************)
(* Shutdown.                                                               *)
(***************************************************************************)

\* The pool closes in a goroutine; the call waits for it, for the provider's
\* own timeout (an error) or for the caller's context (reported as success).
PostgresShutdown == {Ok("closed"), Ok("closing")} \cup Errs({"timeout"}, "closing")

RedisShutdown == {Ok("closed"), Ok("closing")} \cup Errs({"timeout"}, "closing")

\* Disconnect under the shorter of the two timeouts; after an error the
\* client may or may not have let go of its connections.
MongodbShutdown == {Ok("closed")} \cup Errs({"integration"}, "closed")
                     \cup Errs({"integration"}, "closing")

\* Drain only starts the drain; Close is the fallback when it cannot start.
NatsShutdown == {Ok("closing"), Ok("closed")}

QdrantShutdown == {Ok("closed")} \cup Errs({"driver"}, "closed")

Neo4jShutdown == {Ok("closed")} \cup Errs({"driver"}, "closed")
                   \cup Errs({"driver"}, "closing")

\* Stop waits for the running jobs; when its context ends first the jobs are
\* still running.
SchedulerShutdown == {Ok("closed")} \cup Errs({"driver"}, "closing")

\* s3 returns nil; oss and llm inherit BaseProvider.Shutdown.
NoopShutdown == {Ok("none")}

ShutdownOutcomes ==
  [k \in AllKeys |->
     CASE k = "postgres"  -> PostgresShutdown
       [] k = "redis"     -> RedisShutdown
       [] k = "mongodb"   -> MongodbShutdown
       [] k = "nats"      -> NatsShutdown
       [] k = "qdrant"    -> QdrantShutdown
       [] k = "neo4j"     -> Neo4jShutdown
       [] k = "scheduler" -> SchedulerShutdown
       [] OTHER           -> NoopShutdown]
----------------------------------------------------------------------------
(***************************************************************************)
(* HealthCheck: the checks it may return, each as the set of ways in which *)
(* a probe of it can end; {} stands for nil.  "answer" is the remote's own *)
(* answer, the others end the wait for it: the provider's probe timeout,   *)
(* the context of the caller, a timeout inside the driver.                 *)
(***************************************************************************)
PostgresHealthCheck == {{"answer", "probe_timeout", "ctx"}}

RedisHealthCheck == {{"answer", "probe_timeout", "ctx"}}

MongodbHealthCheck == {{"answer", "probe_timeout", "ctx"}}

\* RTT takes no context.
NatsHealthCheck == {{"answer", "driver_timeout"}}

QdrantHealthCheck == {{"answer", "probe_timeout", "ctx"}}

Neo4jHealthCheck == {{"answer", "probe_timeout", "ctx"}}

\* Without a bucket in the configuration there is nothing to probe.
S3HealthCheck == {{}, {"answer", "probe_timeout", "ctx"}}

\* Mutant: the check calls the client itself, which takes no context.
OssAsksOnly == {{}, {"answer"}}

\* The client takes no context: a goroutine asks, and the check waits for it,
\* for the context and for a timer of two seconds.
OssHealthCheck == {{}, {"answer", "probe_timeout", "ctx"}}

\* llm and scheduler inherit the nil of BaseProvider.
BaseHealthCheck == {{}}

HealthChecks ==
  [k \in AllKeys |->
     CASE k = "postgres" -> PostgresHealthCheck
       [] k = "redis"    -> RedisHealthCheck
       [] k = "mongodb"  -> MongodbHealthCheck
       [] k = "nats"     -> NatsHealthCheck
       [] k = "qdrant"   -> QdrantHealthCheck
       [] k = "neo4j"    -> Neo4jHealthCheck
       [] k = "s3"       -> S3HealthCheck
       [] k = "oss"      -> OssHealthCheck
       [] OTHER          -> BaseHealthCheck]

\* scheduler does not override BaseProvider.Required, which returns true.
AlwaysRequired == {"scheduler"}
=============================================================================
