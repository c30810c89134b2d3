---------------------------- MODULE AtomicScope ----------------------------
(***************************************************************************)
(* What tenant.Scope promises its callers: Put, Get and Remove take effect *)
(* on one map from tenants to instances, each at a single moment between   *)
(* its call and its return.  A Get of a tenant that is absent may create   *)
(* the instance (a lazy scope) or miss.                                    *)
(***************************************************************************)
CONSTANTS Callers, Tenants, Values, None

VARIABLES
  values,  \* tenant -> instance, None if absent
  op,      \* caller -> the operation it is in, None if idle
  stage,   \* caller -> "idle", "called" or "done" (took effect)
  ret      \* caller -> what its Get returns

atomicVars == <<values, op, stage, ret>>

Operation == [name : {"get", "remove"}, tid : Tenants, val : {None}]
               \cup [name : {"put"}, tid : Tenants, val : Values]

Init ==
  /\ values = [t \in Tenants |-> None]
  /\ stage = [c \in Callers |-> "idle"]
  /\ op = [c \in Callers |-> None]
  /\ ret = [c \in Callers |-> None]

Call(c) ==
  /\ stage[c] = "idle"
  /\ \E o \in Operation : op' = [op EXCEPT ![c] = o]
  /\ stage' = [stage EXCEPT ![c] = "called"]
  /\ UNCHANGED <<values, ret>>

\* The operation of c takes effect: v is what its tenant has from now on, r
\* what c will return.
Effect(c, v, r) ==
  /\ values' = [values EXCEPT ![op[c].tid] = v]
  /\ ret' = [ret EXCEPT ![c] = r]
  /\ stage' = [stage EXCEPT ![c] = "done"]
  /\ UNCHANGED op

Called(c, name) == stage[c] = "called" /\ op[c].name = name

Put(c) == Called(c, "put") /\ Effect(c, op[c].val, None)

Remove(c) == Called(c, "remove") /\ Effect(c, None, None)

\* A Get returns the instance it finds, None if it misses.
Get(c) ==
  /\ Called(c, "get")
  /\ Effect(c, values[op[c].tid], values[op[c].tid])

\* Only an absent instance is created, and the creator returns it.
GetCreates(c) ==
  /\ Called(c, "get")
  /\ values[op[c].tid] = None
  /\ \E v \in Values : Effect(c, v, v)

Return(c) ==
  /\ stage[c] = "done"
  /\ stage' = [stage EXCEPT ![c] = "idle"]
  /\ op' = [op EXCEPT ![c] = None]
  /\ ret' = [ret EXCEPT ![c] = None]
  /\ UNCHANGED values

Next ==
  \E c \in Callers :
    Call(c) \/ Put(c) \/ Remove(c) \/ Get(c) \/ GetCreates(c) \/ Return(c)

Spec == Init /\ [][Next]_atomicVars
=============================================================================
