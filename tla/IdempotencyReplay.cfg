SPECIFICATION Spec
CONSTANTS
  Requests = {r1, r2}
  Scopes = {s1}
  None = None
  CommandsFail = FALSE
INVARIANT
  StoredMeansReplay
