SPECIFICATION Spec
CONSTANTS
  Requests = {r1, r2, r3}
  Scopes = {s1, s2}
  None = None
  CommandsFail = TRUE
INVARIANTS
  TypeOK
  OverlapNeedsExpiry
  ReplaysOnlySuccess
  LockHasReason
