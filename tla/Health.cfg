SPECIFICATION HFairSpec
CONSTANTS
  Checks = {"oss", "nats", "app"}
  ReadyRequests = {r1}
INVARIANTS
  HTypeOK
  ReadyIsEarned
PROPERTY
  ReadinessAnswers
