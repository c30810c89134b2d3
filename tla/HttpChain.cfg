SPECIFICATION Spec
CONSTANTS
  CheckAudience = TRUE
  CheckIssuer = TRUE
  MaxOps = 4
INVARIANTS
  TypeOK
  AnswerIsRight
  RecordsAreTrue
  ReplayIsOriginal
  SuccessIsKept
  VerdictIsRight
PROPERTY
  AnswersInTime
