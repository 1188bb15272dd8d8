CONSTANTS
  a = a
  b = b
  a1 = a1
  a2 = a2
  b1 = b1
  Users = {a, b}
  Conns = {a1, a2, b1}
  Owner <- MCOwner
  None = None
  Texts = {"x"}
  Edits = {"y"}
  Stored <- MCStored
  JoinPage = 1
  OlderPage = 1
  MessageCap = 3
  HistoryCap = 4
  TwinScan = 2
  ChanCap = 1
  MaxAsked = 2
SPECIFICATION FeedSpec
CHECK_DEADLOCK FALSE
INVARIANTS
  OptimisticSettles
  LiveConverges
  CaughtUp
  WindowInv
