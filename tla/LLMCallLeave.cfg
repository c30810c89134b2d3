SPECIFICATION Spec
CONSTANTS
  DefaultChat = "known_prefix"
  DefaultEmbed = "empty"
  Capacity = 2
  MaxEvents = 4
PROPERTY
  AlwaysCloses
