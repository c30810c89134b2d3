SPECIFICATION Spec
CONSTANTS
  Calls = {c1, c2, c3}
  MaxFailures = 2
  Interval = 2
  Timeout = 1
  HalfOpenMaxCalls = 2
INVARIANTS
  TypeOK
  HalfOpenHasWayOut
PROPERTIES
  TripsOnStreak
  RecoversWithUpstream
