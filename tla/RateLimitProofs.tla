-------------------------- MODULE RateLimitProofs --------------------------
(***************************************************************************)
(* Proofs about the limiter, for every Limit, Window and Burst, any number *)
(* of concurrent requests and no bound on time other than MaxTime.         *)
(***************************************************************************)
EXTENDS RateLimit, TLAPS

USE LimitAssumption, WindowAssumption, BurstAssumption, SecondAssumption,
    MaxTimeAssumption

\* A full bucket holds at least one token.
LEMMA FullFacts == Full \in Nat /\ Full >= Window
<1>1. \A b, w \in Nat \ {0} : b * w \in Nat /\ b * w >= w
  OBVIOUS
<1> QED BY <1>1 DEF Full

\* A refill is a number of units, and never more than a full bucket.
LEMMA RefilledFacts ==
  ASSUME TypeOK, NEW now \in Nat
  PROVE  /\ Refilled(now) \in 0 .. Full
         /\ Refilled(now) <= ReadTokens + Max0(now - ReadTs(now)) * Limit
<1> DEFINE gain == Max0(now - ReadTs(now)) * Limit
<1>1. Max0(now - ReadTs(now)) \in Nat
  BY DEF Max0, ReadTs, TypeOK
<1>2. gain \in Nat
  <2>1. \A a, l \in Nat : a * l \in Nat
    OBVIOUS
  <2> QED BY <1>1, <2>1
<1>3. ReadTokens \in 0 .. Full
  BY FullFacts DEF ReadTokens, TypeOK
<1> HIDE DEF gain
<1>4. AtMost(ReadTokens + gain, Full) \in 0 .. Full
        /\ AtMost(ReadTokens + gain, Full) <= ReadTokens + gain
  BY <1>2, <1>3, FullFacts DEF AtMost
<1> QED BY <1>4 DEF Refilled, gain

\* Rounding up: the wait is enough to earn the missing units, and one
\* millisecond less is not.
LEMMA WaitFacts ==
  ASSUME NEW units \in Nat, units < Window
  PROVE  /\ Wait(units) \in Nat \ {0}
         /\ units + Wait(units) * Limit >= Window
         /\ units + (Wait(units) - 1) * Limit < Window
<1> DEFINE n == Window - units + Limit - 1
<1>1. n \in Nat /\ n >= Limit
  OBVIOUS
<1>2. /\ n \div Limit \in Nat
      /\ (n \div Limit) * Limit <= n
      /\ n < (n \div Limit) * Limit + Limit
  <2> HIDE DEF n
  <2> QED BY <1>1
<1>3. n \div Limit # 0
  BY <1>1, <1>2
<1>4. (n \div Limit - 1) * Limit = (n \div Limit) * Limit - Limit
  BY <1>2
<1> QED BY <1>2, <1>3, <1>4 DEF Wait

\* Seconds in the header cover the wait in milliseconds.
LEMMA RetryAfterFacts ==
  ASSUME NEW wait \in Nat
  PROVE  RetryAfter(wait) \in Nat /\ RetryAfter(wait) * Second >= wait
<1>1. /\ wait \div Second \in Nat
      /\ wait < (wait \div Second) * Second + Second
  OBVIOUS
<1>2. (wait \div Second + 1) * Second = (wait \div Second) * Second + Second
  BY <1>1
<1> QED BY <1>1, <1>2 DEF RetryAfter
----------------------------------------------------------------------------
\* Every step keeps the types.
LEMMA NextKeepsTypes == TypeOK /\ [Next]_vars => TypeOK'
<1> SUFFICES ASSUME TypeOK, [Next]_vars PROVE TypeOK'
  OBVIOUS
<1>1. CASE Tick
  BY <1>1 DEF Tick, TypeOK
<1>2. ASSUME NEW r \in Requests, Stamp(r) PROVE TypeOK'
  BY <1>2 DEF Stamp, TypeOK
<1>3. ASSUME NEW r \in Requests, Admit(r) PROVE TypeOK'
  <2>1. stamp[r] \in Nat
    BY <1>3 DEF Admit, TypeOK
  <2>2. Refilled(stamp[r]) - Window \in 0 .. Full
    BY <1>3, <2>1, RefilledFacts, FullFacts DEF Admit
  <2> QED BY <1>3, <2>1, <2>2 DEF Admit, Store, NoDeny, Max0, TypeOK, Full
<1>4. ASSUME NEW r \in Requests, Deny(r) PROVE TypeOK'
  <2>1. stamp[r] \in Nat
    BY <1>4 DEF Deny, TypeOK
  <2>2. Refilled(stamp[r]) \in 0 .. Full
    BY <2>1, RefilledFacts
  <2>3. Wait(Refilled(stamp[r])) \in Nat
    BY <1>4, <2>2, FullFacts, WaitFacts DEF Deny
  <2>4. RetryAfter(Wait(Refilled(stamp[r]))) \in Nat
    BY <2>3, RetryAfterFacts
  <2> QED BY <1>4, <2>1, <2>2, <2>3, <2>4 DEF Deny, Store, Max0, TypeOK, Full
<1>5. ASSUME NEW r \in Requests, Unavailable(r) PROVE TypeOK'
  BY <1>5 DEF Unavailable, TypeOK
<1>6. CASE Expire
  <2>1. \A a, b \in Int : a * b \in Int
    OBVIOUS
  <2>2. (expireAt - credited) * Limit \in Int
    BY <2>1 DEF TypeOK
  <2>3. granted' \in Nat
    BY <1>6, <2>2, FullFacts DEF Expire, Max0, TypeOK
  <2> QED BY <1>6, <2>3 DEF Expire, NoDeny, TypeOK, Full
<1>7. CASE UNCHANGED vars
  BY <1>7 DEF vars, TypeOK
<1> QED BY <1>1, <1>2, <1>3, <1>4, <1>5, <1>6, <1>7 DEF Next

\* The initial state has the types.
LEMMA InitTypes == Init => TypeOK
<1> SUFFICES ASSUME Init PROVE TypeOK
  OBVIOUS
<1>1. tokens \in 0 .. Full
  BY FullFacts DEF Init
<1>2. stamp \in [Requests -> Nat \cup {-1}]
  BY DEF Init
<1>3. deny \in [denied : BOOLEAN, at : Nat, wait : Nat, header : Nat]
  BY DEF Init, NoDeny
<1> QED BY <1>1, <1>2, <1>3 DEF Init, TypeOK

\* The types of RateLimit hold throughout, the size of the bucket included.
THEOREM TypeCorrect == Spec => []TypeOK
<1>1. Init => TypeOK
  BY InitTypes
<1> QED BY <1>1, NextKeepsTypes, PTL DEF Spec
----------------------------------------------------------------------------
(***************************************************************************)
(* The admission bound.  AdmissionAccount alone is not inductive: what has *)
(* been admitted must be seen together with what is still in the bucket,   *)
(* and time with the point up to which the bucket was refilled.            *)
(***************************************************************************)

\* No time in the system is ahead of the clock, and a bucket that exists was
\* refilled up to its ts and outlives it by two windows.
TimeInv ==
  /\ \A r \in Requests : stamp[r] <= clock
  /\ credited <= clock
  /\ exists => credited = ts /\ expireAt >= ts + 2 * Window

\* What was admitted and what the bucket holds came from somewhere.
CreditInv ==
  admitted * Window + ReadTokens
    <= Full + Limit * (credited + rewound) + granted

BoundInv == TypeOK /\ TimeInv /\ CreditInv

\* Steps keep the order of times.
LEMMA TimeInvInductive == TypeOK /\ TimeInv /\ [Next]_vars => TimeInv'
<1> SUFFICES ASSUME TypeOK, TimeInv, [Next]_vars PROVE TimeInv'
  OBVIOUS
<1> USE DEF TypeOK, TimeInv
<1>1. CASE Tick
  BY <1>1 DEF Tick
<1>2. ASSUME NEW r \in Requests, Stamp(r) \/ Unavailable(r) PROVE TimeInv'
  BY <1>2 DEF Stamp, Unavailable
<1>3. ASSUME NEW r \in Requests, Admit(r) \/ Deny(r) PROVE TimeInv'
  BY <1>3 DEF Admit, Deny, Store
<1>4. CASE Expire
  BY <1>4 DEF Expire
<1>5. CASE UNCHANGED vars
  BY <1>5 DEF vars
<1> QED BY <1>1, <1>2, <1>3, <1>4, <1>5 DEF Next

\* A run of the script spends only what it was credited.
LEMMA StoreCredit ==
  ASSUME BoundInv, NEW now \in Nat
  PROVE  admitted * Window + Refilled(now)
           <= Full + Limit * (now + rewound + Max0(credited - now)) + granted
<1> DEFINE gain == Max0(now - ReadTs(now))
<1>1. gain \in Nat /\ credited + gain <= now + Max0(credited - now)
  BY DEF BoundInv, TypeOK, TimeInv, Max0, ReadTs
<1>2. Refilled(now) <= ReadTokens + gain * Limit
  BY RefilledFacts DEF BoundInv
<1>3. Refilled(now) \in Int /\ ReadTokens \in Int /\ Full \in Int
  BY RefilledFacts, FullFacts DEF BoundInv, ReadTokens, TypeOK
<1>4. Max0(credited - now) \in Nat
  BY DEF Max0, BoundInv, TypeOK
<1> HIDE DEF gain
<1>5. Limit * (credited + gain + rewound)
        <= Limit * (now + rewound + Max0(credited - now))
  <2>1. \A a, b, l \in Nat : a <= b => l * a <= l * b
    OBVIOUS
  <2>2. credited + gain + rewound <= now + rewound + Max0(credited - now)
    BY <1>1, <1>4 DEF BoundInv, TypeOK
  <2> QED BY <2>1, <2>2, <1>1, <1>4 DEF BoundInv, TypeOK
<1>6. Limit * (credited + gain + rewound)
        = Limit * (credited + rewound) + gain * Limit
  BY <1>1 DEF BoundInv, TypeOK
<1> QED BY <1>1, <1>2, <1>3, <1>4, <1>5, <1>6 DEF BoundInv, TypeOK, CreditInv

\* Every step keeps the bound's invariant.
LEMMA BoundInvInductive == BoundInv /\ [Next]_vars => BoundInv'
<1> SUFFICES ASSUME BoundInv, [Next]_vars PROVE CreditInv'
  BY NextKeepsTypes, TimeInvInductive DEF BoundInv
<1>t. TypeOK /\ TypeOK'
  BY NextKeepsTypes DEF BoundInv
<1>1. CASE Tick
  BY <1>1 DEF Tick, BoundInv, CreditInv, ReadTokens
<1>2. ASSUME NEW r \in Requests, Stamp(r) \/ Unavailable(r) PROVE CreditInv'
  BY <1>2 DEF Stamp, Unavailable, BoundInv, CreditInv, ReadTokens
<1>3. ASSUME NEW r \in Requests, Admit(r) PROVE CreditInv'
  <2>1. stamp[r] \in Nat
    BY <1>3 DEF Admit, BoundInv, TypeOK
  <2>2. admitted * Window + Refilled(stamp[r])
          <= Full + Limit * (stamp[r] + rewound + Max0(credited - stamp[r]))
                  + granted
    BY <2>1, StoreCredit
  <2>3. admitted' * Window <= admitted * Window + Window
    <3>1. (admitted + 1) * Window = admitted * Window + Window
      BY <1>t DEF TypeOK
    <3>2. admitted * Window \in Int
      BY <1>t DEF TypeOK
    <3> QED BY <1>3, <3>1, <3>2 DEF Admit
  <2>4. credited' + rewound' = stamp[r] + rewound + Max0(credited - stamp[r])
    BY <1>3, <2>1 DEF Admit, Store, BoundInv, TypeOK, Max0
  <2>5. Full' = Full /\ granted' = granted
          /\ ReadTokens' = Refilled(stamp[r]) - Window
    BY <1>3 DEF Admit, Store, ReadTokens, Full
  <2>6. Refilled(stamp[r]) \in Int /\ Full \in Int
    BY <2>1, RefilledFacts, FullFacts DEF BoundInv
  <2>7. /\ admitted * Window \in Int
        /\ admitted' * Window \in Int
        /\ Limit * (credited' + rewound') \in Int
    BY <1>t DEF TypeOK
  <2>8. admitted * Window + Refilled(stamp[r])
          <= Full + Limit * (credited' + rewound') + granted
    BY <2>2, <2>4
  <2>9. \A a, b, c, d, e, f \in Int :
          a + c <= d + e + f /\ b <= a + Window => b + (c - Window) <= d + e + f
    OBVIOUS
  <2>10. granted \in Int
    BY <1>t DEF TypeOK
  <2>11. admitted' * Window + (Refilled(stamp[r]) - Window)
           <= Full + Limit * (credited' + rewound') + granted
    BY <2>3, <2>6, <2>7, <2>8, <2>9, <2>10
  <2> QED BY <2>5, <2>11 DEF CreditInv
<1>4. ASSUME NEW r \in Requests, Deny(r) PROVE CreditInv'
  <2>1. stamp[r] \in Nat
    BY <1>4 DEF Deny, BoundInv, TypeOK
  <2>2. admitted * Window + Refilled(stamp[r])
          <= Full + Limit * (stamp[r] + rewound + Max0(credited - stamp[r]))
                  + granted
    BY <2>1, StoreCredit
  <2>3. credited' + rewound' = stamp[r] + rewound + Max0(credited - stamp[r])
    BY <1>4, <2>1 DEF Deny, Store, BoundInv, TypeOK, Max0
  <2>4. /\ Full' = Full /\ granted' = granted /\ admitted' = admitted
        /\ ReadTokens' = Refilled(stamp[r])
    BY <1>4 DEF Deny, Store, ReadTokens, Full
  <2> QED BY <2>2, <2>3, <2>4 DEF CreditInv
<1>5. CASE Expire
  <2> DEFINE due == (expireAt - credited) * Limit
  <2>1. due \in Int
    BY <1>t DEF TypeOK
  <2>2. Limit * (expireAt + rewound) = Limit * (credited + rewound) + due
    BY <1>t DEF TypeOK
  <2>3. /\ ReadTokens = tokens /\ ReadTokens' = Full
        /\ credited' = expireAt /\ rewound' = rewound /\ admitted' = admitted
        /\ Full' = Full /\ granted' = granted + Max0(Full - (tokens + due))
    BY <1>5 DEF Expire, ReadTokens, Full
  <2> HIDE DEF due
  <2>4. tokens + due + Max0(Full - (tokens + due)) >= Full
          /\ Max0(Full - (tokens + due)) \in Nat
    BY <2>1, <1>t, FullFacts DEF Max0, TypeOK
  <2>5. admitted * Window \in Int /\ Limit * (credited + rewound) \in Int
    BY <1>t DEF TypeOK
  <2>6. admitted * Window + tokens
          <= Full + Limit * (credited + rewound) + granted
    BY <2>3 DEF BoundInv, CreditInv
  <2> QED BY <1>t, <2>1, <2>2, <2>3, <2>4, <2>5, <2>6, FullFacts
          DEF CreditInv, TypeOK
<1>6. CASE UNCHANGED vars
  BY <1>6 DEF vars, BoundInv, CreditInv, ReadTokens
<1> QED BY <1>1, <1>2, <1>3, <1>4, <1>5, <1>6 DEF Next

\* The invariant holds throughout.
LEMMA BoundInvHolds == Spec => []BoundInv
<1>1. Init => BoundInv
  <2> SUFFICES ASSUME Init PROVE BoundInv
    OBVIOUS
  <2>1. TypeOK
    BY InitTypes
  <2>2. TimeInv
    BY DEF Init, TimeInv
  <2>3. CreditInv
    BY FullFacts DEF Init, CreditInv, ReadTokens
  <2> QED BY <2>1, <2>2, <2>3 DEF BoundInv
<1> QED BY <1>1, BoundInvInductive, PTL DEF Spec

\* The limiter admits at most the bucket, the refill and the two leaks.
THEOREM AdmissionsAccountedFor == Spec => []AdmissionAccount
<1>1. BoundInv => AdmissionAccount
  <2> SUFFICES ASSUME BoundInv PROVE AdmissionAccount
    OBVIOUS
  <2>1. \A a, b, l \in Nat : a <= b => l * a <= l * b
    OBVIOUS
  <2>2. Limit * (credited + rewound) <= Limit * (clock + rewound)
    BY <2>1 DEF BoundInv, TypeOK, TimeInv
  <2>3. ReadTokens \in Nat
    BY FullFacts DEF BoundInv, TypeOK, ReadTokens
  <2>4. /\ admitted * Window \in Int
        /\ Limit * (credited + rewound) \in Int
        /\ Limit * (clock + rewound) \in Int
    BY DEF BoundInv, TypeOK
  <2> QED BY <2>2, <2>3, <2>4, FullFacts
          DEF BoundInv, TypeOK, CreditInv, AdmissionAccount
<1> QED BY <1>1, BoundInvHolds, PTL
----------------------------------------------------------------------------
\* With Burst at most 2 * Limit the expiry of the key is never a gift.
THEOREM ExpiryGrantsNothing == Spec => []ExpiryIsHarmless
<1>1. Init => ExpiryIsHarmless
  BY DEF Init, ExpiryIsHarmless
<1>2. BoundInv /\ ExpiryIsHarmless /\ [Next]_vars => ExpiryIsHarmless'
  <2> SUFFICES ASSUME BoundInv, ExpiryIsHarmless, [Next]_vars,
                      Burst <= 2 * Limit
               PROVE  granted' = 0
    BY DEF ExpiryIsHarmless
  <2>1. granted = 0
    BY DEF ExpiryIsHarmless
  <2>2. CASE Expire
    <3>1. expireAt - credited >= 2 * Window
      BY <2>2 DEF Expire, BoundInv, TypeOK, TimeInv
    <3>2. \A d, l, w, b \in Nat : d >= 2 * w /\ b <= 2 * l => b * w <= d * l
      <4> SUFFICES ASSUME NEW d \in Nat, NEW l \in Nat, NEW w \in Nat,
                          NEW b \in Nat, d >= 2 * w, b <= 2 * l
                   PROVE  b * w <= d * l
        OBVIOUS
      <4>1. b * w <= (2 * l) * w
        OBVIOUS
      <4>2. (2 * w) * l <= d * l
        OBVIOUS
      <4> QED BY <4>1, <4>2
    <3>3. Full <= (expireAt - credited) * Limit
      BY <3>1, <3>2 DEF Full, BoundInv, TypeOK
    <3>4. (expireAt - credited) * Limit \in Int
      BY DEF BoundInv, TypeOK
    <3> QED BY <2>1, <2>2, <3>3, <3>4, FullFacts
            DEF Expire, Max0, BoundInv, TypeOK
  <2>3. CASE ~Expire
    BY <2>1, <2>3 DEF Next, Tick, Stamp, Admit, Deny, Unavailable, vars
  <2> QED BY <2>2, <2>3
<1> QED BY <1>1, <1>2, BoundInvHolds, PTL DEF Spec

\* Both together: the limit that the limiter enforces.
THEOREM AdmissionIsBounded == Spec => []AdmissionBound
<1>1. AdmissionAccount /\ ExpiryIsHarmless => AdmissionBound
  BY DEF AdmissionBound
<1> QED BY <1>1, AdmissionsAccountedFor, ExpiryGrantsNothing, PTL
----------------------------------------------------------------------------
\* After a denial the bucket is as the script left it.
DenyInv ==
  deny.denied =>
    /\ exists
    /\ ts = deny.at
    /\ tokens < Window
    /\ deny.wait = Wait(tokens)
    /\ deny.header = RetryAfter(deny.wait)

\* Every step keeps it.
LEMMA DenyInvInductive == TypeOK /\ DenyInv /\ [Next]_vars => DenyInv'
<1> SUFFICES ASSUME TypeOK, DenyInv, [Next]_vars PROVE DenyInv'
  OBVIOUS
<1> USE DEF DenyInv
<1>1. CASE Tick \/ UNCHANGED vars
  BY <1>1 DEF Tick, vars, Wait, RetryAfter
<1>2. ASSUME NEW r \in Requests, Stamp(r) \/ Unavailable(r) PROVE DenyInv'
  BY <1>2 DEF Stamp, Unavailable, Wait, RetryAfter
<1>3. ASSUME NEW r \in Requests, Admit(r) PROVE DenyInv'
  BY <1>3 DEF Admit, NoDeny
<1>4. ASSUME NEW r \in Requests, Deny(r) PROVE DenyInv'
  BY <1>4 DEF Deny, Store, Wait, RetryAfter
<1>5. CASE Expire
  BY <1>5 DEF Expire, NoDeny
<1> QED BY <1>1, <1>2, <1>3, <1>4, <1>5 DEF Next

\* Retry-After is long enough and computed from the shortest wait.
THEOREM RetryAfterHonest == Spec => []RetryAfterIsHonest
<1>1. Init => DenyInv
  BY DEF Init, DenyInv, NoDeny
<1>2. TypeOK /\ DenyInv => RetryAfterIsHonest
  <2> SUFFICES ASSUME TypeOK, DenyInv, deny.denied
               PROVE  /\ Refilled(deny.at + deny.header * Second) >= Window
                      /\ Refilled(deny.at + deny.wait - 1) < Window
    BY DEF RetryAfterIsHonest
  <2> DEFINE w == deny.wait
             h == deny.header * Second
  <2>1. tokens \in Nat /\ tokens < Window /\ ts \in Nat /\ exists
          /\ ts = deny.at /\ Full \in Nat /\ Full >= Window
    BY FullFacts DEF DenyInv, TypeOK
  <2>2. /\ w \in Nat \ {0}
        /\ tokens + w * Limit >= Window
        /\ tokens + (w - 1) * Limit < Window
    BY <2>1, WaitFacts DEF DenyInv
  <2>3. h \in Nat /\ h >= w
    BY <2>2, RetryAfterFacts DEF DenyInv
  <2>4. \A x \in Nat : Refilled(ts + x) = AtMost(tokens + x * Limit, Full)
    BY <2>1 DEF Refilled, ReadTokens, ReadTs, Max0
  <2> HIDE DEF w, h
  <2>5. h * Limit >= w * Limit
    <3>1. \A a, b, l \in Nat : a <= b => a * l <= b * l
      OBVIOUS
    <3> QED BY <2>2, <2>3, <3>1
  <2>6. Refilled(ts + h) >= Window
    <3>1. tokens + h * Limit >= Window
      BY <2>1, <2>2, <2>3, <2>5
    <3> QED BY <2>1, <2>3, <2>4, <3>1 DEF AtMost
  <2>7. Refilled(ts + (w - 1)) < Window
    <3>1. w - 1 \in Nat
      BY <2>2
    <3> QED BY <2>1, <2>2, <2>4, <3>1 DEF AtMost
  <2>8. ts + (w - 1) = ts + w - 1
    BY <2>1, <2>2
  <2> QED BY <2>1, <2>6, <2>7, <2>8 DEF w, h
<1> QED BY <1>1, <1>2, DenyInvInductive, TypeCorrect, PTL DEF Spec
=============================================================================
