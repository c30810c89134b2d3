SPECIFICATION SSpec
CONSTANTS
  Keys <- MCKeys
  MaxProviders = 3
  Requests = {r1, r2}
  HandlerTimeoutSet = TRUE
INVARIANTS
  STypeOK
  BuiltAccountsForEnabled
  OnlyRetainedLeaveTraces
  CapturesEarlierOnly
  DrainBeforeRelease
  DependentsReleasedFirst
  ReturnReleasesAll
PROPERTY
  ReturnsAfterSignal
