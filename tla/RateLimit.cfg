SPECIFICATION Spec
CONSTANTS
  Requests = {r1, r2}
  Limit = 2
  Window = 3
  Burst = 3
  Second = 2
  MaxTime = 7
INVARIANTS
  TypeOK
  AdmissionBound
  RetryAfterIsHonest
