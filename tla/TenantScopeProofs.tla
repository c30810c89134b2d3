------------------------- MODULE TenantScopeProofs -------------------------
(***************************************************************************)
(* Proofs about tenant.Scope for any set of callers, tenants and instances *)
(* and for lazy and plain scopes: the type invariant, that a Get never     *)
(* replaces an instance, and that the scope implements AtomicScope.        *)
(***************************************************************************)
EXTENDS TenantScope, TLAPS

USE NoneAssumption, LazyAssumption

\* What an operation holds, and that None is not one.
LEMMA OperationFacts ==
  ASSUME NEW o \in Operation
  PROVE  /\ o.tid \in Tenants
         /\ o.val \in Values \cup {None}
         /\ o.name \in {"get", "put", "remove"}
         /\ o.name = "put" => o.val \in Values
BY DEF Operation

\* Every step keeps the types.
LEMMA TypeInductive == TypeOK /\ [Next]_vars => TypeOK'
<1> SUFFICES ASSUME TypeOK, [Next]_vars PROVE TypeOK'
  OBVIOUS
<1> USE DEF TypeOK, Pcs
<1>1. ASSUME NEW c \in Callers, Call(c) PROVE TypeOK'
  <2>1. PICK o \in Operation :
          /\ op' = [op EXCEPT ![c] = o]
          /\ made' = made \cup ({o.val} \ {None})
          /\ pc' = [pc EXCEPT ![c] = o.name]
    BY <1>1 DEF Call
  <2>2. UNCHANGED <<values, fresh, ret>> /\ pc[c] = "idle"
    BY <1>1 DEF Call
  <2> QED BY <2>1, <2>2, OperationFacts
<1>2. ASSUME NEW c \in Callers, Put(c) PROVE TypeOK'
  BY <1>2, OperationFacts DEF Put
<1>3. ASSUME NEW c \in Callers, Remove(c) PROVE TypeOK'
  BY <1>3, OperationFacts DEF Remove
<1>4. ASSUME NEW c \in Callers, Lookup(c) PROVE TypeOK'
  BY <1>4, OperationFacts DEF Lookup, Held
<1>5. ASSUME NEW c \in Callers, Miss(c) PROVE TypeOK'
  BY <1>5 DEF Miss
<1>6. ASSUME NEW c \in Callers, FactoryFails(c) PROVE TypeOK'
  BY <1>6 DEF FactoryFails
<1>7. ASSUME NEW c \in Callers, FactoryMakes(c) PROVE TypeOK'
  BY <1>7 DEF FactoryMakes
<1>8. ASSUME NEW c \in Callers, Store(c) PROVE TypeOK'
  BY <1>8, OperationFacts DEF Store, Held
<1>9. ASSUME NEW c \in Callers, Return(c) PROVE TypeOK'
  BY <1>9 DEF Return
<1>10. CASE UNCHANGED vars
  BY <1>10 DEF vars
<1> QED BY <1>1, <1>2, <1>3, <1>4, <1>5, <1>6, <1>7, <1>8, <1>9, <1>10 DEF Next

\* The types of the scope hold throughout.
THEOREM ScopeTypeCorrect == Spec => []TypeOK
<1>1. Init => TypeOK
  BY DEF Init, TypeOK, Pcs
<1> QED BY <1>1, TypeInductive, PTL DEF Spec

\* A Get never replaces an instance: only Put and Remove do.
THEOREM GetKeepsInstances == Spec => GetNeverReplaces
<1>1. TypeOK /\ [Next]_vars =>
        [\A t \in Tenants :
           values[t] # None /\ values'[t] # values[t] =>
             \E c \in Callers : /\ pc[c] \in {"put", "remove"}
                                /\ op[c].tid = t
                                /\ pc'[c] = "done"]_vars
  <2> SUFFICES ASSUME TypeOK, Next, NEW t \in Tenants,
                      values[t] # None, values'[t] # values[t]
               PROVE  \E c \in Callers : /\ pc[c] \in {"put", "remove"}
                                         /\ op[c].tid = t
                                         /\ pc'[c] = "done"
    OBVIOUS
  <2>1. PICK c \in Callers :
          \/ Call(c) \/ Put(c) \/ Remove(c)
          \/ Lookup(c) \/ Miss(c) \/ FactoryFails(c) \/ FactoryMakes(c)
          \/ Store(c) \/ Return(c)
    BY DEF Next
  <2>2. CASE Put(c) \/ Remove(c)
    BY <2>2, OperationFacts DEF Put, Remove, TypeOK
  <2>3. CASE Store(c)
    BY <2>3, OperationFacts DEF Store, TypeOK
  <2>4. CASE \/ Call(c) \/ Lookup(c) \/ Miss(c) \/ FactoryFails(c)
             \/ FactoryMakes(c) \/ Return(c)
    BY <2>4 DEF Call, Lookup, Miss, FactoryFails, FactoryMakes, Return
  <2> QED BY <2>1, <2>2, <2>3, <2>4
<1> QED BY <1>1, ScopeTypeCorrect, PTL DEF Spec, GetNeverReplaces
----------------------------------------------------------------------------
(***************************************************************************)
(* Refinement.  stg is the abstract stage of every caller.                 *)
(***************************************************************************)
stg == [c \in Callers |-> StageOf(pc[c])]

\* A step that moves one program counter moves one abstract stage.
LEMMA StageMoves ==
  ASSUME TypeOK, NEW c \in Callers, NEW p \in Pcs,
         pc' = [pc EXCEPT ![c] = p]
  PROVE  stg' = [stg EXCEPT ![c] = StageOf(p)]
BY DEF TypeOK, stg

\* Every step of the scope is a step of the atomic map or leaves it alone.
LEMMA StepRefines == TypeOK /\ TypeOK' /\ [Next]_vars => [Atomic!Next]_(Atomic!atomicVars)
<1> SUFFICES ASSUME TypeOK, TypeOK', [Next]_vars
             PROVE  [Atomic!Next]_(Atomic!atomicVars)
  OBVIOUS
<1> USE DEF Pcs
<1>1. ASSUME NEW c \in Callers, Call(c) PROVE Atomic!Call(c)
  <2>1. PICK o \in Operation :
          /\ op' = [op EXCEPT ![c] = o]
          /\ pc' = [pc EXCEPT ![c] = o.name]
    BY <1>1 DEF Call
  <2>2. UNCHANGED <<values, ret>> /\ stg[c] = "idle"
    BY <1>1 DEF Call, stg, StageOf
  <2>3. StageOf(o.name) = "called" /\ o.name \in Pcs
    BY OperationFacts DEF StageOf
  <2>4. stg' = [stg EXCEPT ![c] = "called"]
    BY <2>1, <2>3, StageMoves
  <2>5. o \in Atomic!Operation
    BY DEF Operation, Atomic!Operation
  <2> QED BY <2>1, <2>2, <2>4, <2>5 DEF Atomic!Call, stg
<1>2. ASSUME NEW c \in Callers, Put(c) PROVE Atomic!Put(c)
  <2>1. stg[c] = "called" /\ op[c].name = "put" /\ ret[c] = None
    BY <1>2 DEF Put, TypeOK, stg, StageOf
  <2>2. stg' = [stg EXCEPT ![c] = "done"]
    BY <1>2, StageMoves DEF Put, StageOf
  <2>3. ret' = [ret EXCEPT ![c] = None]
    BY <1>2, <2>1 DEF Put, TypeOK
  <2> QED BY <1>2, <2>1, <2>2, <2>3
          DEF Put, Atomic!Put, Atomic!Called, Atomic!Effect, stg
<1>3. ASSUME NEW c \in Callers, Remove(c) PROVE Atomic!Remove(c)
  <2>1. stg[c] = "called" /\ op[c].name = "remove" /\ ret[c] = None
    BY <1>3 DEF Remove, TypeOK, stg, StageOf
  <2>2. stg' = [stg EXCEPT ![c] = "done"]
    BY <1>3, StageMoves DEF Remove, StageOf
  <2>3. ret' = [ret EXCEPT ![c] = None]
    BY <1>3, <2>1 DEF Remove, TypeOK
  <2> QED BY <1>3, <2>1, <2>2, <2>3
          DEF Remove, Atomic!Remove, Atomic!Called, Atomic!Effect, stg
<1>4. ASSUME NEW c \in Callers, Lookup(c) PROVE Atomic!Get(c)
  <2>1. stg[c] = "called" /\ op[c].name = "get"
    BY <1>4 DEF Lookup, TypeOK, stg, StageOf
  <2>2. stg' = [stg EXCEPT ![c] = "done"]
    BY <1>4, StageMoves DEF Lookup, StageOf
  <2>3. values' = [values EXCEPT ![op[c].tid] = values[op[c].tid]]
    BY <1>4 DEF Lookup, TypeOK
  <2> QED BY <1>4, <2>1, <2>2, <2>3
          DEF Lookup, Held, Atomic!Get, Atomic!Called, Atomic!Effect, stg
<1>5. ASSUME NEW c \in Callers, Miss(c)
      PROVE  Atomic!Get(c) \/ UNCHANGED Atomic!atomicVars
  <2>1. /\ stg[c] = "called" /\ op[c].name = "get" /\ ret[c] = None
        /\ values[op[c].tid] = None
        /\ UNCHANGED <<values, op, ret>>
    BY <1>5 DEF Miss, Held, TypeOK, stg, StageOf
  <2>2. PICK p \in {"making", "failing"} : pc' = [pc EXCEPT ![c] = p]
    BY <1>5 DEF Miss
  <2>3. CASE p = "making"
    <3>1. stg' = [stg EXCEPT ![c] = "called"]
      BY <2>2, <2>3, StageMoves DEF StageOf
    <3>2. stg' = stg
      BY <2>1, <3>1 DEF stg
    <3> QED BY <2>1, <3>2 DEF Atomic!atomicVars, stg
  <2>4. CASE p = "failing"
    <3>1. stg' = [stg EXCEPT ![c] = "done"]
      BY <2>2, <2>4, StageMoves DEF StageOf
    <3>2. /\ values' = [values EXCEPT ![op[c].tid] = values[op[c].tid]]
          /\ ret' = [ret EXCEPT ![c] = values[op[c].tid]]
      BY <2>1 DEF TypeOK
    <3> QED BY <2>1, <3>1, <3>2
            DEF Atomic!Get, Atomic!Called, Atomic!Effect, stg
  <2> QED BY <2>2, <2>3, <2>4
<1>6. ASSUME NEW c \in Callers, FactoryFails(c) \/ FactoryMakes(c)
      PROVE  UNCHANGED Atomic!atomicVars
  <2>1. UNCHANGED <<values, op, ret>>
    BY <1>6 DEF FactoryFails, FactoryMakes
  <2>2. PICK p \in Pcs : /\ pc' = [pc EXCEPT ![c] = p]
                         /\ StageOf(p) = StageOf(pc[c])
    BY <1>6 DEF FactoryFails, FactoryMakes, StageOf
  <2>3. stg' = [stg EXCEPT ![c] = StageOf(p)]
    BY <2>2, StageMoves
  <2>4. stg' = stg
    BY <2>2, <2>3 DEF stg
  <2> QED BY <2>1, <2>4 DEF Atomic!atomicVars, stg
<1>7. ASSUME NEW c \in Callers, Store(c)
      PROVE  Atomic!Get(c) \/ Atomic!GetCreates(c)
  <2>1. /\ stg[c] = "called" /\ op[c].name = "get"
        /\ fresh[c] \in Values /\ op[c].tid \in Tenants
    BY <1>7, OperationFacts DEF Store, TypeOK, stg, StageOf
  <2>2. stg' = [stg EXCEPT ![c] = "done"]
    BY <1>7, StageMoves DEF Store, StageOf
  <2>3. CASE values[op[c].tid] = None
    <3>1. /\ values' = [values EXCEPT ![op[c].tid] = fresh[c]]
          /\ ret' = [ret EXCEPT ![c] = fresh[c]]
          /\ op' = op
      BY <1>7, <2>1, <2>3 DEF Store, Held, TypeOK
    <3> QED BY <2>1, <2>2, <2>3, <3>1
            DEF Atomic!GetCreates, Atomic!Called, Atomic!Effect, stg
  <2>4. CASE values[op[c].tid] # None
    <3>1. /\ values' = [values EXCEPT ![op[c].tid] = values[op[c].tid]]
          /\ ret' = [ret EXCEPT ![c] = values[op[c].tid]]
          /\ op' = op
      BY <1>7, <2>1, <2>4 DEF Store, Held, TypeOK
    <3> QED BY <2>1, <2>2, <2>4, <3>1
            DEF Atomic!Get, Atomic!Called, Atomic!Effect, stg
  <2> QED BY <2>3, <2>4
<1>8. ASSUME NEW c \in Callers, Return(c) PROVE Atomic!Return(c)
  <2>1. stg[c] = "done"
    BY <1>8 DEF Return, stg, StageOf
  <2>2. stg' = [stg EXCEPT ![c] = "idle"]
    BY <1>8, StageMoves DEF Return, StageOf
  <2> QED BY <1>8, <2>1, <2>2 DEF Return, Atomic!Return, stg
<1>9. CASE UNCHANGED vars
  BY <1>9 DEF vars, Atomic!atomicVars
<1> QED BY <1>1, <1>2, <1>3, <1>4, <1>5, <1>6, <1>7, <1>8, <1>9
        DEF Next, Atomic!Next

\* The scope implements the atomic map.
THEOREM ScopeIsAtomic == Spec => ImplementsAtomic
<1>1. Init => Atomic!Init
  BY DEF Init, Atomic!Init, StageOf
<1>2. TypeOK /\ TypeOK' /\ [Next]_vars => [Atomic!Next]_(Atomic!atomicVars)
  BY StepRefines
<1> QED BY <1>1, <1>2, ScopeTypeCorrect, PTL
        DEF Spec, ImplementsAtomic, Atomic!Spec
=============================================================================
