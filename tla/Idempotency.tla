---------------------------- MODULE Idempotency ----------------------------
(***************************************************************************)
(* The Idempotency-Key middleware (src/idempotency/middleware.go).  Each   *)
(* request runs the middleware as a thread of its own, on any instance of  *)
(* the service; they share a Redis that holds, per scope, a cached         *)
(* response and a lock.  A scope is the triple (method, path, key) from    *)
(* which both Redis keys are built.  One action is one Redis command or    *)
(* one step of the wrapped handler.                                        *)
(*                                                                         *)
(* Redis itself is external.  Its entries expire, its commands may fail,   *)
(* and a SETNX whose reply is lost may have been applied.                  *)
(***************************************************************************)
EXTENDS Naturals, FiniteSets

CONSTANTS Requests,  \* the requests
          Scopes,    \* the (method, path, key) triples
          None,      \* no request
          CommandsFail  \* may the commands GET, SETNX and DEL report errors?

ASSUME CommandsFailAssumption == CommandsFail \in BOOLEAN
ASSUME NoneAssumption == None \notin Requests

VARIABLES
  pc,       \* request -> where it is in the middleware
  scope,    \* request -> its scope (meaningful once it has started)
  status,   \* request -> the class of the status its recorder holds
  replayed, \* request -> the request whose cached response it replayed
  cache,    \* scope -> the request whose response is stored, None if none is
  lock,     \* scope -> the request that set the lock, None if it is free
            \* (the value in Redis is "1": only the model knows the owner)
  expired,  \* requests whose lock ran out of LockTTL while they held it
  robbed    \* requests whose lock another request deleted

vars == <<pc, scope, status, replayed, cache, lock, expired, robbed>>

\* Between the SETNX that was granted and the deferred DEL.
Holding(r) == pc[r] \in {"handler", "put", "unlock"}

\* The handler has been called for r and its outcome is not stored yet.
Executing(r) == pc[r] \in {"handler", "put"}
----------------------------------------------------------------------------
Init ==
  /\ pc = [r \in Requests |-> "idle"]
  /\ scope \in [Requests -> Scopes]
  /\ status = [r \in Requests |-> "none"]
  /\ replayed = [r \in Requests |-> None]
  /\ cache = [s \in Scopes |-> None]
  /\ lock = [s \in Scopes |-> None]
  /\ expired = {}
  /\ robbed = {}

\* A mutating request with a key enters the middleware.
Start(r) ==
  /\ pc[r] = "idle"
  /\ pc' = [pc EXCEPT ![r] = "get"]
  /\ UNCHANGED <<scope, status, replayed, cache, lock, expired, robbed>>

\* No key, or a method that does not mutate: straight to the handler.
PassThrough(r) ==
  /\ pc[r] = "idle"
  /\ pc' = [pc EXCEPT ![r] = "passed"]
  /\ UNCHANGED <<scope, status, replayed, cache, lock, expired, robbed>>

GetHit(r) ==
  /\ pc[r] = "get"
  /\ cache[scope[r]] # None
  /\ pc' = [pc EXCEPT ![r] = "replayed"]
  /\ replayed' = [replayed EXCEPT ![r] = cache[scope[r]]]
  /\ UNCHANGED <<scope, status, cache, lock, expired, robbed>>

GetMiss(r) ==
  /\ pc[r] = "get"
  /\ cache[scope[r]] = None
  /\ pc' = [pc EXCEPT ![r] = "setnx"]
  /\ UNCHANGED <<scope, status, replayed, cache, lock, expired, robbed>>

\* An error of GET is treated like a miss.
GetError(r) ==
  /\ CommandsFail
  /\ pc[r] = "get"
  /\ pc' = [pc EXCEPT ![r] = "setnx"]
  /\ UNCHANGED <<scope, status, replayed, cache, lock, expired, robbed>>

\* Mutant: a SET that does not ask whether the key exists.
SetWithoutNX(r) ==
  /\ pc[r] = "setnx"
  /\ lock' = [lock EXCEPT ![scope[r]] = r]
  /\ pc' = [pc EXCEPT ![r] = "handler"]
  /\ UNCHANGED <<scope, status, replayed, cache, expired, robbed>>

SetNXGot(r) ==
  /\ pc[r] = "setnx"
  /\ lock[scope[r]] = None
  /\ lock' = [lock EXCEPT ![scope[r]] = r]
  /\ pc' = [pc EXCEPT ![r] = "handler"]
  /\ UNCHANGED <<scope, status, replayed, cache, expired, robbed>>

SetNXRefused(r) ==
  /\ pc[r] = "setnx"
  /\ lock[scope[r]] # None
  /\ pc' = [pc EXCEPT ![r] = "conflict"]
  /\ UNCHANGED <<scope, status, replayed, cache, lock, expired, robbed>>

\* SETNX reports an error, 500.  The command may have been applied; there is
\* no DEL on this path.
SetNXError(r) ==
  /\ CommandsFail
  /\ pc[r] = "setnx"
  /\ pc' = [pc EXCEPT ![r] = "lock_error"]
  /\ \/ lock[scope[r]] = None /\ lock' = [lock EXCEPT ![scope[r]] = r]
     \/ UNCHANGED lock
  /\ UNCHANGED <<scope, status, replayed, cache, expired, robbed>>
----------------------------------------------------------------------------
\* What the recorder may hold when the handler returns: a status from 200 to
\* 299, another one, or 0 because nothing was written.
Statuses == {"success", "failure", "silent"}

\* Mutant: every response is stored.
AnyStatusIsStored(st) == TRUE

\* Is a response with this status stored?
IsStored(st) == st = "success"

HandlerReturns(r) ==
  /\ pc[r] = "handler"
  /\ \E st \in Statuses :
       /\ status' = [status EXCEPT ![r] = st]
       /\ pc' = [pc EXCEPT ![r] = IF IsStored(st) THEN "put" ELSE "unlock"]
  /\ UNCHANGED <<scope, replayed, cache, lock, expired, robbed>>

\* Mutant: the DEL is not deferred.
PanicSkipsDel(r) ==
  /\ pc[r] = "handler"
  /\ pc' = [pc EXCEPT ![r] = "done"]
  /\ UNCHANGED <<scope, status, replayed, cache, lock, expired, robbed>>

\* Mutant: the response is stored by a deferred call, so after a panic as well.
PanicStores(r) ==
  /\ pc[r] = "handler"
  /\ pc' = [pc EXCEPT ![r] = "put"]
  /\ UNCHANGED <<scope, status, replayed, cache, lock, expired, robbed>>

\* A panic unwinds through the middleware: nothing is stored, the deferred
\* DEL runs.
HandlerPanics(r) ==
  /\ pc[r] = "handler"
  /\ pc' = [pc EXCEPT ![r] = "unlock"]
  /\ UNCHANGED <<scope, status, replayed, cache, lock, expired, robbed>>

PutOk(r) ==
  /\ pc[r] = "put"
  /\ cache' = [cache EXCEPT ![scope[r]] = r]
  /\ pc' = [pc EXCEPT ![r] = "unlock"]
  /\ UNCHANGED <<scope, status, replayed, lock, expired, robbed>>

\* The SET fails, or the request's context ended with its client: ignored.
PutError(r) ==
  /\ pc[r] = "put"
  /\ pc' = [pc EXCEPT ![r] = "unlock"]
  /\ UNCHANGED <<scope, status, replayed, cache, lock, expired, robbed>>

\* The deferred DEL removes whatever lock is there.
Unlock(r) ==
  /\ pc[r] = "unlock"
  /\ robbed' = IF lock[scope[r]] \in {None, r}
               THEN robbed
               ELSE robbed \cup {lock[scope[r]]}
  /\ lock' = [lock EXCEPT ![scope[r]] = None]
  /\ pc' = [pc EXCEPT ![r] = "done"]
  /\ UNCHANGED <<scope, status, replayed, cache, expired>>

\* The DEL fails; its error is dropped.
UnlockError(r) ==
  /\ CommandsFail
  /\ pc[r] = "unlock"
  /\ pc' = [pc EXCEPT ![r] = "undeleted"]
  /\ UNCHANGED <<scope, status, replayed, cache, lock, expired, robbed>>

\* The instance that serves r dies.
Crash(r) ==
  /\ pc[r] \in {"get", "setnx"} \/ Holding(r)
  /\ pc' = [pc EXCEPT ![r] = "crashed"]
  /\ UNCHANGED <<scope, status, replayed, cache, lock, expired, robbed>>
----------------------------------------------------------------------------
\* LockTTL passes.
LockExpires(s) ==
  /\ lock[s] # None
  /\ expired' = IF Holding(lock[s]) THEN expired \cup {lock[s]} ELSE expired
  /\ lock' = [lock EXCEPT ![s] = None]
  /\ UNCHANGED <<pc, scope, status, replayed, cache, robbed>>

\* TTL passes.
CacheExpires(s) ==
  /\ cache[s] # None
  /\ cache' = [cache EXCEPT ![s] = None]
  /\ UNCHANGED <<pc, scope, status, replayed, lock, expired, robbed>>

Step(r) ==
  \/ Start(r) \/ PassThrough(r)
  \/ GetHit(r) \/ GetMiss(r) \/ GetError(r)
  \/ SetNXGot(r) \/ SetNXRefused(r) \/ SetNXError(r)
  \/ HandlerReturns(r) \/ HandlerPanics(r)
  \/ PutOk(r) \/ PutError(r)
  \/ Unlock(r) \/ UnlockError(r)
  \/ Crash(r)

Expire(s) == LockExpires(s) \/ CacheExpires(s)

\* Every request has been answered.
Quiet ==
  /\ \A r \in Requests :
       pc[r] \in {"passed", "replayed", "conflict", "lock_error", "done",
                  "undeleted", "crashed"}
  /\ UNCHANGED vars

Next ==
  \/ \E r \in Requests : Step(r)
  \/ \E s \in Scopes : Expire(s)
  \/ Quiet

Spec == Init /\ [][Next]_vars
----------------------------------------------------------------------------
(***************************************************************************)
(* Properties                                                              *)
(***************************************************************************)

\* Types of the threads' state and of the two Redis keyspaces; only a
\* request with a 2xx status is on its way to the cache.
TypeOK ==
  /\ pc \in [Requests -> {"idle", "passed", "get", "replayed", "setnx",
                          "conflict", "lock_error", "handler", "put",
                          "unlock", "done", "undeleted", "crashed"}]
  /\ scope \in [Requests -> Scopes]
  /\ status \in [Requests -> Statuses \cup {"none"}]
  /\ replayed \in [Requests -> Requests \cup {None}]
  /\ cache \in [Scopes -> Requests \cup {None}]
  /\ lock \in [Scopes -> Requests \cup {None}]
  /\ expired \subseteq Requests
  /\ robbed \subseteq Requests
  /\ \A r \in Requests : pc[r] = "put" => status[r] = "success"

\* Two executions of the handler for one scope overlap only when a lock of
\* that scope has run out under its holder: errors of Redis, crashes, panics
\* and the DEL that does not check the owner never cause the first overlap.
OverlapNeedsExpiry ==
  \A r, q \in Requests :
    r # q /\ scope[r] = scope[q] /\ Executing(r) /\ Executing(q) =>
      \E x \in expired : scope[x] = scope[r]

\* A request is replayed only the response of an execution for its own scope
\* that ended with a 2xx status: whatever failed, panicked, wrote nothing or
\* died with its instance is never replayed, so that a retry of it executes,
\* and no key is answered with the response of another one.
ReplaysOnlySuccess ==
  \A r \in Requests :
    replayed[r] # None =>
      /\ scope[replayed[r]] = scope[r]
      /\ status[replayed[r]] = "success"

\* A lock belongs to a request that is between SETNX and DEL, unless that
\* request crashed, or Redis failed on its SETNX or its DEL: in particular a
\* handler that panics or fails leaves no lock behind that would turn the
\* client's retry into a 409.
LockHasReason ==
  \A s \in Scopes :
    lock[s] # None =>
      /\ scope[lock[s]] = s
      /\ Holding(lock[s]) \/ pc[lock[s]] \in {"crashed", "lock_error", "undeleted"}

\* What the design document says: "Subsequent same-key within TTL: replay
\* stored response".  No handler is running for a scope whose response is
\* stored, as long as no lock of the scope has run out.
StoredMeansReplay ==
  \A r \in Requests :
    pc[r] = "handler" /\ cache[scope[r]] # None =>
      \E x \in expired : scope[x] = scope[r]
=============================================================================
