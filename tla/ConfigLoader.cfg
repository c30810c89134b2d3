SPECIFICATION Spec
CONSTANTS
  MaxSet = 2
  ClientTimeout = 2
  ShortTimeout = 1
  LongTimeout = 3
INVARIANTS
  TypeOK
  PrecedenceHolds
  AppliedIsTrue
PROPERTY
  LoadEnds
