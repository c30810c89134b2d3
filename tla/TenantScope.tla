---------------------------- MODULE TenantScope ----------------------------
(***************************************************************************)
(* tenant.Scope (src/tenant/tenant.go): instances per tenant behind a      *)
(* read-write mutex.  Get of a lazy scope looks up under the read lock,    *)
(* runs the factory with no lock held, and looks again under the write     *)
(* lock before it stores what the factory made.  Every section under a     *)
(* lock is one step.                                                       *)
(*                                                                         *)
(* Callers are handlers of requests; the tenant of a request is what the   *)
(* extractor middleware put into its context.                              *)
(***************************************************************************)
CONSTANTS Callers,
          Tenants,        \* the tenant IDs requests may carry
          Values,         \* bound: the instances that are ever made
          None,           \* nil, and the empty tenant ID
          DefaultTenant,  \* of ExtractorMiddleware; None if empty
          Lazy            \* the scope has a factory

ASSUME NoneAssumption == None \notin Tenants \cup Values
ASSUME DefaultTenantAssumption == DefaultTenant \in Tenants \cup {None}
ASSUME LazyAssumption == Lazy \in BOOLEAN

VARIABLES
  values,  \* Scope.values: tenant -> instance, None if absent
  made,    \* instances that exist: made by a caller of Put or by a factory
  pc,      \* caller -> where its operation is
  op,      \* caller -> the operation it is in, None if idle
  fresh,   \* caller -> what the factory made for it
  ret      \* caller -> what its Get returns

vars == <<values, made, pc, op, fresh, ret>>

Operation == [name : {"get", "remove"}, tid : Tenants, val : {None}]
               \cup [name : {"put"}, tid : Tenants, val : Values]

Init ==
  /\ values = [t \in Tenants |-> None]
  /\ made = {}
  /\ pc = [c \in Callers |-> "idle"]
  /\ op = [c \in Callers |-> None]
  /\ fresh = [c \in Callers |-> None]
  /\ ret = [c \in Callers |-> None]
----------------------------------------------------------------------------
\* ByHeader and ExtractorMiddleware: the header, or else the default.
TenantOf(header) == IF header = None THEN DefaultTenant ELSE header

\* FromContext finds a tenant unless it is empty.
FromContext(header) == {TenantOf(header)} \ {None}

\* A handler calls an operation of the scope for the tenant of its request.
Call(c) ==
  /\ pc[c] = "idle"
  /\ \E h \in Tenants \cup {None} : \E t \in FromContext(h) :
       \E o \in Operation :
         /\ o.tid = t
         /\ o.val \notin made
         /\ op' = [op EXCEPT ![c] = o]
         /\ made' = made \cup ({o.val} \ {None})
         /\ pc' = [pc EXCEPT ![c] = o.name]
  /\ UNCHANGED <<values, fresh, ret>>

Put(c) ==
  /\ pc[c] = "put"
  /\ values' = [values EXCEPT ![op[c].tid] = op[c].val]
  /\ pc' = [pc EXCEPT ![c] = "done"]
  /\ UNCHANGED <<made, op, fresh, ret>>

Remove(c) ==
  /\ pc[c] = "remove"
  /\ values' = [values EXCEPT ![op[c].tid] = None]
  /\ pc' = [pc EXCEPT ![c] = "done"]
  /\ UNCHANGED <<made, op, fresh, ret>>

Held(c) == values[op[c].tid]

\* The lookup under the read lock: a hit, or a miss without a factory.
Lookup(c) ==
  /\ pc[c] = "get"
  /\ Held(c) # None \/ ~Lazy
  /\ ret' = [ret EXCEPT ![c] = Held(c)]
  /\ pc' = [pc EXCEPT ![c] = "done"]
  /\ UNCHANGED <<values, made, op, fresh>>

\* A miss: the factory runs.  Whether it will fail is settled here; it knows
\* nothing of the scope, so it makes no difference when.
Miss(c) ==
  /\ pc[c] = "get"
  /\ Held(c) = None
  /\ Lazy
  /\ \E next \in {"making", "failing"} : pc' = [pc EXCEPT ![c] = next]
  /\ UNCHANGED <<values, made, op, fresh, ret>>

\* Mutant: an error is looked at, a nil instance is not.
FactoryNilStored(c) ==
  /\ pc[c] = "failing"
  /\ pc' = [pc EXCEPT ![c] = "store"]
  /\ UNCHANGED <<values, made, op, fresh, ret>>

\* The factory returns an error or nil.
FactoryFails(c) ==
  /\ pc[c] = "failing"
  /\ pc' = [pc EXCEPT ![c] = "done"]
  /\ UNCHANGED <<values, made, op, fresh, ret>>

\* The factory returns a new instance.
FactoryMakes(c) ==
  /\ pc[c] = "making"
  /\ \E v \in Values \ made :
       /\ fresh' = [fresh EXCEPT ![c] = v]
       /\ made' = made \cup {v}
  /\ pc' = [pc EXCEPT ![c] = "store"]
  /\ UNCHANGED <<values, op, ret>>

\* Mutant: the second look keeps the existing instance but its result is
\* not returned.
StoreReturnsOwn(c) ==
  /\ pc[c] = "store"
  /\ values' = [values EXCEPT ![op[c].tid] = IF @ = None THEN fresh[c] ELSE @]
  /\ ret' = [ret EXCEPT ![c] = fresh[c]]
  /\ pc' = [pc EXCEPT ![c] = "done"]
  /\ UNCHANGED <<made, op, fresh>>

\* Under the write lock: an instance that turned up meanwhile wins.
Store(c) ==
  /\ pc[c] = "store"
  /\ values' = [values EXCEPT ![op[c].tid] = IF @ = None THEN fresh[c] ELSE @]
  /\ ret' = [ret EXCEPT ![c] = IF Held(c) = None THEN fresh[c] ELSE Held(c)]
  /\ pc' = [pc EXCEPT ![c] = "done"]
  /\ UNCHANGED <<made, op, fresh>>

Return(c) ==
  /\ pc[c] = "done"
  /\ pc' = [pc EXCEPT ![c] = "idle"]
  /\ op' = [op EXCEPT ![c] = None]
  /\ fresh' = [fresh EXCEPT ![c] = None]
  /\ ret' = [ret EXCEPT ![c] = None]
  /\ UNCHANGED <<values, made>>

Next ==
  \E c \in Callers :
    \/ Call(c) \/ Put(c) \/ Remove(c)
    \/ Lookup(c) \/ Miss(c) \/ FactoryFails(c) \/ FactoryMakes(c) \/ Store(c)
    \/ Return(c)

Spec == Init /\ [][Next]_vars
----------------------------------------------------------------------------
(***************************************************************************)
(* Properties                                                              *)
(***************************************************************************)
Pcs == {"idle", "put", "remove", "get", "making", "failing", "store", "done"}

\* The variables have the types of the Go values they stand for, and where an
\* operation is agrees with what it is.
TypeOK ==
  /\ values \in [Tenants -> Values \cup {None}]
  /\ made \subseteq Values
  /\ pc \in [Callers -> Pcs]
  /\ op \in [Callers -> Operation \cup {None}]
  /\ fresh \in [Callers -> Values \cup {None}]
  /\ ret \in [Callers -> Values \cup {None}]
  /\ \A c \in Callers :
       /\ pc[c] # "idle" => op[c] \in Operation
       /\ pc[c] \in {"put", "remove"} => op[c].name = pc[c]
       /\ pc[c] \in {"get", "making", "failing", "store"} => op[c].name = "get"
       /\ pc[c] \notin {"store", "done"} => ret[c] = None
       /\ pc[c] = "store" => fresh[c] # None

\* A Get never replaces an instance: whatever was created, put or removed
\* while its factory ran without the lock, only a Put or a Remove of the
\* tenant takes an instance away that some caller may be using.
GetNeverReplaces ==
  [][\A t \in Tenants :
       values[t] # None /\ values'[t] # values[t] =>
         \E c \in Callers : /\ pc[c] \in {"put", "remove"}
                            /\ op[c].tid = t
                            /\ pc'[c] = "done"]_vars

\* Where an operation is, as its caller may see it: a Get whose factory will
\* fail has already missed.
StageOf(p) == CASE p = "idle"              -> "idle"
                [] p \in {"failing", "done"} -> "done"
                [] OTHER                   -> "called"

Atomic == INSTANCE AtomicScope WITH stage <- [c \in Callers |-> StageOf(pc[c])]

\* The scope behaves like one map whose operations are atomic, although the
\* factory runs outside the lock: every caller of Get that finds the tenant
\* present, or loses the race to create it, gets the one instance the map
\* holds, and what it returns was there at one moment of the call.
ImplementsAtomic == Atomic!Spec
=============================================================================
