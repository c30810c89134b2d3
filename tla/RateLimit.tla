----------------------------- MODULE RateLimit -----------------------------
(***************************************************************************)
(* The token-bucket limiter (src/ratelimit/middleware.go) for one key.     *)
(* Requests on any instance read the clock in Allow and then have Redis    *)
(* run the Lua script, which is atomic; between the two, other requests    *)
(* may do the same, so the script does not see the clock in order.  All    *)
(* instances are given the same clock: what follows needs no skew.         *)
(*                                                                         *)
(* Time is in milliseconds.  The script counts in fractions of a token;    *)
(* the model multiplies by Window, so that a token is Window units, one    *)
(* millisecond refills Limit units and everything is an integer.  The      *)
(* rounding of the floating-point numbers in Redis is left out.            *)
(***************************************************************************)
EXTENDS Integers

CONSTANTS Requests,  \* requests that may be in Allow at the same time
          Limit,     \* tokens per window
          Window,    \* length of the window
          Burst,     \* size of the bucket, after the default of New
          Second,    \* milliseconds in the unit of Retry-After
          MaxTime    \* bound on the clock

ASSUME LimitAssumption == Limit \in Nat \ {0}
ASSUME WindowAssumption == Window \in Nat \ {0}
ASSUME BurstAssumption == Burst \in Nat \ {0}
ASSUME SecondAssumption == Second \in Nat \ {0}
ASSUME MaxTimeAssumption == MaxTime \in Nat

VARIABLES
  clock,     \* the time
  stamp,     \* request -> the time it read, -1 if it is not in Allow
  exists,    \* the key of the bucket exists in Redis
  tokens,    \* field "tokens" of the key, in units
  ts,        \* field "ts" of the key
  expireAt,  \* when the key expires (PEXPIRE)
  deny,      \* the last script run denied: what it answered
  admitted,  \* requests let through so far
  credited,  \* the time up to which the bucket has been refilled
  rewound,   \* how far ts has been moved back, in total
  granted    \* units that expiry of the key added beyond the refill

vars == <<clock, stamp, exists, tokens, ts, expireAt, deny, admitted, credited,
          rewound, granted>>

Max0(x) == IF x > 0 THEN x ELSE 0
AtMost(x, y) == IF x > y THEN y ELSE x

Full == Burst * Window
----------------------------------------------------------------------------
(***************************************************************************)
(* The script.                                                             *)
(***************************************************************************)

\* HMGET with the defaults for a key that does not exist.
ReadTokens == IF exists THEN tokens ELSE Full
ReadTs(now) == IF exists THEN ts ELSE now

\* Mutant: the refill is not capped at burst.
RefilledUncapped(now) == ReadTokens + Max0(now - ReadTs(now)) * Limit

\* The tokens at time now: refilled for the time since ts, capped.
Refilled(now) ==
  AtMost(ReadTokens + Max0(now - ReadTs(now)) * Limit, Full)

\* math.ceil((1 - tokens) / (limit / window)).
Wait(units) == (Window - units + Limit - 1) \div Limit

\* Mutant: the seconds are cut off, and that is all.
RetryAfterTruncated(wait) == wait \div Second

\* int(retry.Seconds()) + 1.
RetryAfter(wait) == wait \div Second + 1

NoDeny == [denied |-> FALSE, at |-> 0, wait |-> 0, header |-> 0]

\* Mutant: a denial stores the refilled tokens and the old time.
StoreKeepsTs(units, now) ==
  /\ exists' = TRUE
  /\ tokens' = units
  /\ ts' = ReadTs(now)
  /\ expireAt' = clock + 2 * Window
  /\ credited' = now
  /\ rewound' = rewound + Max0(credited - now)

\* HMSET and PEXPIRE at the end of both branches; the rest is bookkeeping.
Store(units, now) ==
  /\ exists' = TRUE
  /\ tokens' = units
  /\ ts' = now
  /\ expireAt' = clock + 2 * Window
  /\ credited' = now
  /\ rewound' = rewound + Max0(credited - now)
----------------------------------------------------------------------------
Init ==
  /\ clock = 0
  /\ stamp = [r \in Requests |-> -1]
  /\ exists = FALSE
  /\ tokens = 0
  /\ ts = 0
  /\ expireAt = 0
  /\ deny = NoDeny
  /\ admitted = 0
  /\ credited = 0
  /\ rewound = 0
  /\ granted = 0

Tick ==
  /\ clock < MaxTime
  /\ clock' = clock + 1
  /\ UNCHANGED <<stamp, exists, tokens, ts, expireAt, deny, admitted, credited,
                 rewound, granted>>

\* Allow reads the clock.
Stamp(r) ==
  /\ stamp[r] = -1
  /\ stamp' = [stamp EXCEPT ![r] = clock]
  /\ UNCHANGED <<clock, exists, tokens, ts, expireAt, deny, admitted, credited,
                 rewound, granted>>

\* A key that is past its time is gone when a script touches it.
Fresh == exists => clock <= expireAt

\* The script takes a token.  The reply may be lost: the middleware then
\* answers 500 and the token is gone.
Admit(r) ==
  /\ stamp[r] # -1
  /\ Fresh
  /\ Refilled(stamp[r]) >= Window
  /\ Store(Refilled(stamp[r]) - Window, stamp[r])
  /\ deny' = NoDeny
  /\ admitted' \in {admitted, admitted + 1}
  /\ stamp' = [stamp EXCEPT ![r] = -1]
  /\ UNCHANGED <<clock, granted>>

\* The script finds less than a token: 429 with Retry-After.
Deny(r) ==
  /\ stamp[r] # -1
  /\ Fresh
  /\ Refilled(stamp[r]) < Window
  /\ Store(Refilled(stamp[r]), stamp[r])
  /\ LET w == Wait(Refilled(stamp[r]))
     IN  deny' = [denied |-> TRUE, at |-> stamp[r], wait |-> w,
                  header |-> RetryAfter(w)]
  /\ stamp' = [stamp EXCEPT ![r] = -1]
  /\ UNCHANGED <<clock, admitted, granted>>

\* The script does not run: 500.
Unavailable(r) ==
  /\ stamp[r] # -1
  /\ stamp' = [stamp EXCEPT ![r] = -1]
  /\ UNCHANGED <<clock, exists, tokens, ts, expireAt, deny, admitted, credited,
                 rewound, granted>>

\* Redis drops the key; the next run starts from a full bucket.  The refill
\* that the bucket had coming until expireAt is credited with it.
Expire ==
  /\ exists
  /\ clock >= expireAt
  /\ exists' = FALSE
  /\ deny' = NoDeny
  /\ credited' = expireAt
  /\ granted' = granted + Max0(Full - (tokens + (expireAt - credited) * Limit))
  /\ UNCHANGED <<clock, stamp, tokens, ts, expireAt, admitted, rewound>>

Next ==
  \/ Tick
  \/ \E r \in Requests : Stamp(r) \/ Admit(r) \/ Deny(r) \/ Unavailable(r)
  \/ Expire

Spec == Init /\ [][Next]_vars
----------------------------------------------------------------------------
(***************************************************************************)
(* Properties                                                              *)
(***************************************************************************)

\* Types; the bucket never holds more than Burst nor less than nothing.
TypeOK ==
  /\ clock \in Nat
  /\ stamp \in [Requests -> Nat \cup {-1}]
  /\ exists \in BOOLEAN
  /\ tokens \in 0 .. Full
  /\ ts \in Nat
  /\ expireAt \in Nat
  /\ deny \in [denied : BOOLEAN, at : Nat, wait : Nat, header : Nat]
  /\ admitted \in Nat
  /\ credited \in Nat
  /\ rewound \in Nat
  /\ granted \in Nat

\* The limit the limiter really enforces, over every interleaving of clock
\* readings and script runs: at any time no more requests have been let
\* through than the bucket, the refill for the time passed, and two leaks
\* allow.  The leaks are the time by which late runs moved ts back, which is
\* refilled twice, and what expiry of the key grants beyond the refill.
AdmissionAccount ==
  admitted * Window <= Full + Limit * (clock + rewound) + granted

\* Expiry after two windows forgets nothing as long as Burst is not more than
\* two windows' worth of tokens: the bucket would have been full by then.
ExpiryIsHarmless == Burst <= 2 * Limit => granted = 0

\* So with such a burst only a late script run lets more requests through than
\* a token bucket of that size and rate.
AdmissionBound == AdmissionAccount /\ ExpiryIsHarmless

\* The answer to a denied request is honest: after Retry-After seconds a
\* token is there if nobody else took one, and the wait it was computed from
\* is the shortest one.
RetryAfterIsHonest ==
  deny.denied =>
    /\ Refilled(deny.at + deny.header * Second) >= Window
    /\ Refilled(deny.at + deny.wait - 1) < Window
=============================================================================
