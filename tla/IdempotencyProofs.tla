------------------------- MODULE IdempotencyProofs -------------------------
(***************************************************************************)
(* Proofs about the idempotency middleware, for any set of requests and    *)
(* scopes.                                                                 *)
(***************************************************************************)
EXTENDS Idempotency, TLAPS

\* Every step of a request, of Redis or none keeps the types.
LEMMA NextKeepsTypes == TypeOK /\ [Next]_vars => TypeOK'
<1> SUFFICES ASSUME TypeOK, [Next]_vars PROVE TypeOK'
  OBVIOUS
<1> USE DEF TypeOK, Statuses
<1>1. ASSUME NEW r \in Requests, Step(r) PROVE TypeOK'
  <2>1. CASE Start(r) \/ PassThrough(r)
    BY <2>1 DEF Start, PassThrough
  <2>2. CASE GetHit(r) \/ GetMiss(r) \/ GetError(r)
    BY <2>2 DEF GetHit, GetMiss, GetError
  <2>3. CASE SetNXGot(r) \/ SetNXRefused(r) \/ SetNXError(r)
    BY <2>3 DEF SetNXGot, SetNXRefused, SetNXError
  <2>4. CASE HandlerReturns(r)
    BY <2>4 DEF HandlerReturns, IsStored
  <2>5. CASE HandlerPanics(r) \/ PutOk(r) \/ PutError(r)
    BY <2>5 DEF HandlerPanics, PutOk, PutError
  <2>6. CASE Unlock(r)
    BY <2>6 DEF Unlock
  <2>7. CASE UnlockError(r) \/ Crash(r)
    BY <2>7 DEF UnlockError, Crash
  <2> QED BY <1>1, <2>1, <2>2, <2>3, <2>4, <2>5, <2>6, <2>7 DEF Step
<1>2. ASSUME NEW s \in Scopes, Expire(s) PROVE TypeOK'
  BY <1>2 DEF Expire, LockExpires, CacheExpires
<1>3. CASE Quiet \/ UNCHANGED vars
  BY <1>3 DEF Quiet, vars
<1> QED BY <1>1, <1>2, <1>3 DEF Next

\* The types of Idempotency hold throughout.
THEOREM TypeCorrect == Spec => []TypeOK
<1>1. Init => TypeOK
  BY DEF Init, TypeOK, Statuses
<1> QED BY <1>1, NextKeepsTypes, PTL DEF Spec
----------------------------------------------------------------------------
(***************************************************************************)
(* Why executions overlap only after an expiry.  The invariant says what   *)
(* the lock still tells about its holders: it carries the name of a holder *)
(* unless that one has lost it, and whoever lost it to a DEL of another    *)
(* request shares its scope with one that lost it to the TTL.              *)
(***************************************************************************)

\* A request between SETNX and DEL still has the lock, or has lost it.
HolderHasLock ==
  \A r \in Requests :
    Holding(r) => lock[scope[r]] = r \/ r \in expired \/ r \in robbed

\* Only a request whose own lock had run out deletes a lock of another one.
RobbedAfterExpiry ==
  \A r \in robbed : \E x \in expired : scope[x] = scope[r]

LockInv == TypeOK /\ HolderHasLock /\ RobbedAfterExpiry /\ LockHasReason

\* Every step keeps it.
LEMMA LockInvInductive == LockInv /\ [Next]_vars => LockInv'
<1> SUFFICES ASSUME LockInv, [Next]_vars PROVE LockInv'
  OBVIOUS
<1>t. TypeOK'
  BY NextKeepsTypes DEF LockInv
<1> USE DEF LockInv, TypeOK, HolderHasLock, RobbedAfterExpiry, LockHasReason,
            Holding
<1>1. ASSUME NEW r \in Requests, Step(r) PROVE LockInv'
  <2>1. CASE Start(r) \/ PassThrough(r)
    BY <1>t, <2>1, NoneAssumption DEF Start, PassThrough
  <2>2. CASE GetHit(r) \/ GetMiss(r) \/ GetError(r)
    BY <1>t, <2>2, NoneAssumption DEF GetHit, GetMiss, GetError
  <2>3. CASE SetNXGot(r)
    BY <1>t, <2>3, NoneAssumption DEF SetNXGot
  <2>4. CASE SetNXRefused(r)
    BY <1>t, <2>4, NoneAssumption DEF SetNXRefused
  <2>5. CASE SetNXError(r)
    BY <1>t, <2>5, NoneAssumption DEF SetNXError
  <2>6. CASE HandlerReturns(r) \/ HandlerPanics(r)
    BY <1>t, <2>6, NoneAssumption DEF HandlerReturns, HandlerPanics
  <2>7. CASE PutOk(r) \/ PutError(r)
    BY <1>t, <2>7, NoneAssumption DEF PutOk, PutError
  <2>8. CASE Unlock(r)
    BY <1>t, <2>8, NoneAssumption DEF Unlock
  <2>9. CASE UnlockError(r) \/ Crash(r)
    BY <1>t, <2>9, NoneAssumption DEF UnlockError, Crash
  <2> QED BY <1>1, <2>1, <2>2, <2>3, <2>4, <2>5, <2>6, <2>7, <2>8, <2>9 DEF Step
<1>2. ASSUME NEW s \in Scopes, LockExpires(s) PROVE LockInv'
  BY <1>t, <1>2, NoneAssumption DEF LockExpires
<1>3. ASSUME NEW s \in Scopes, CacheExpires(s) PROVE LockInv'
  BY <1>t, <1>3 DEF CacheExpires
<1>4. CASE Quiet \/ UNCHANGED vars
  BY <1>t, <1>4 DEF Quiet, vars
<1> QED BY <1>1, <1>2, <1>3, <1>4 DEF Next, Expire

\* It holds throughout.
LEMMA LockInvHolds == Spec => []LockInv
<1>1. Init => LockInv
  BY DEF Init, LockInv, TypeOK, Statuses, HolderHasLock, RobbedAfterExpiry,
         LockHasReason, Holding
<1> QED BY <1>1, LockInvInductive, PTL DEF Spec

\* Two executions for one scope overlap only after a lock of that scope has
\* run out under its holder.
THEOREM OverlapOnlyAfterExpiry == Spec => []OverlapNeedsExpiry
<1>1. LockInv => OverlapNeedsExpiry
  BY NoneAssumption DEF LockInv, TypeOK, HolderHasLock, RobbedAfterExpiry,
     OverlapNeedsExpiry, Executing, Holding
<1> QED BY <1>1, LockInvHolds, PTL

\* A lock without a running owner was left by a crash or by an error of Redis.
THEOREM LockAlwaysHasReason == Spec => []LockHasReason
<1>1. LockInv => LockHasReason
  BY DEF LockInv
<1> QED BY <1>1, LockInvHolds, PTL
----------------------------------------------------------------------------
(***************************************************************************)
(* Why only successes are replayed: what is stored ended with 2xx and is   *)
(* stored under its own scope, and a status is never changed once the      *)
(* handler has returned.                                                   *)
(***************************************************************************)

\* A request about to store ended with success.
StoresOnlySuccess == \A r \in Requests : pc[r] = "put" => status[r] = "success"

\* A stored response ended with success in its scope, and its request is past
\* the handler.
CacheHoldsSuccess ==
  \A s \in Scopes :
    cache[s] # None => /\ scope[cache[s]] = s
                       /\ status[cache[s]] = "success"

\* A request that has a status is past its handler.
StatusMeansReturned ==
  \A r \in Requests :
    status[r] # "none" =>
      pc[r] \in {"put", "unlock", "done", "undeleted", "crashed"}

ReplayInv == /\ TypeOK /\ StoresOnlySuccess /\ CacheHoldsSuccess
             /\ StatusMeansReturned /\ ReplaysOnlySuccess

\* Every step keeps it.
LEMMA ReplayInvInductive == ReplayInv /\ [Next]_vars => ReplayInv'
<1> SUFFICES ASSUME ReplayInv, [Next]_vars PROVE ReplayInv'
  OBVIOUS
<1>t. TypeOK'
  BY NextKeepsTypes DEF ReplayInv
<1> USE NoneAssumption
    DEF ReplayInv, TypeOK, StoresOnlySuccess, CacheHoldsSuccess,
        StatusMeansReturned, ReplaysOnlySuccess
<1>1. ASSUME NEW r \in Requests, Step(r) PROVE ReplayInv'
  <2>1. CASE Start(r) \/ PassThrough(r)
    BY <1>t, <2>1 DEF Start, PassThrough
  <2>2. CASE GetHit(r)
    BY <1>t, <2>2 DEF GetHit
  <2>3. CASE GetMiss(r) \/ GetError(r)
    BY <1>t, <2>3 DEF GetMiss, GetError
  <2>4. CASE SetNXGot(r) \/ SetNXRefused(r) \/ SetNXError(r)
    BY <1>t, <2>4 DEF SetNXGot, SetNXRefused, SetNXError
  <2>5. CASE HandlerReturns(r)
    BY <1>t, <2>5 DEF HandlerReturns, IsStored, Statuses
  <2>6. CASE HandlerPanics(r)
    BY <1>t, <2>6 DEF HandlerPanics
  <2>7. CASE PutOk(r)
    BY <1>t, <2>7 DEF PutOk
  <2>8. CASE PutError(r) \/ Unlock(r) \/ UnlockError(r)
    BY <1>t, <2>8 DEF PutError, Unlock, UnlockError
  <2>9. CASE Crash(r)
    BY <1>t, <2>9 DEF Crash, Holding
  <2> QED BY <1>1, <2>1, <2>2, <2>3, <2>4, <2>5, <2>6, <2>7, <2>8, <2>9 DEF Step
<1>2. ASSUME NEW s \in Scopes, Expire(s) PROVE ReplayInv'
  BY <1>t, <1>2 DEF Expire, LockExpires, CacheExpires
<1>3. CASE Quiet \/ UNCHANGED vars
  BY <1>t, <1>3 DEF Quiet, vars
<1> QED BY <1>1, <1>2, <1>3 DEF Next

\* Only the response of a successful execution for the same scope is replayed.
THEOREM ReplayIsOfSuccess == Spec => []ReplaysOnlySuccess
<1>1. Init => ReplayInv
  BY DEF Init, ReplayInv, TypeOK, Statuses, StoresOnlySuccess,
         CacheHoldsSuccess, StatusMeansReturned, ReplaysOnlySuccess
<1>2. ReplayInv => ReplaysOnlySuccess
  BY DEF ReplayInv
<1> QED BY <1>1, <1>2, ReplayInvInductive, PTL DEF Spec
=============================================================================
