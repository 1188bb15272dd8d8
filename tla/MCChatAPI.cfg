CONSTANTS
  Names = {a, b}
  NoName = NoName
  QueueCap = 2
  MaxAttempts = 2
  MaxGen = 3
  MaxMsgs = 3
SPECIFICATION Spec
CHECK_DEADLOCK FALSE
SYMMETRY Symmetry
INVARIANTS
  QueueInv
  OneSocket
PROPERTIES
  JoinFirst
  JoinOnlyByOwnSocket
