SPECIFICATION Spec
CONSTANTS
  DefaultChat = "known_prefix"
  DefaultEmbed = "empty"
  Capacity = 2
  MaxEvents = 4
INVARIANTS
  TypeOK
  StreamIsFaithful
  BodyIsReleased
  AnthropicReportsBreak
PROPERTY
  ClosesForReaders
