CONSTANTS
  Names = {a}
  NoName = NoName
  QueueCap = 2
  MaxAttempts = 2
  MaxGen = 3
  MaxMsgs = 2
SPECIFICATION Spec
CHECK_DEADLOCK FALSE
INVARIANTS RetryGoesOn
