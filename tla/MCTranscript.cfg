CONSTANTS
  me = me
  ann = ann
  Me = me
  Bot = Bot
  None = None
  Author <- MCAuthor
  Private <- MCPrivate
  Rows = 2
  Page = 2
  JoinPage = 1
  MaxVisible = 2
  GroupWindow = 4
  MaxAsk = 2
  MaxDrops = 1
  MessageCap = 2
  HistoryCap = 3
  TwinScan = 2
CONSTRAINT Few
SPECIFICATION FairSpec
CHECK_DEADLOCK FALSE
INVARIANTS
  BeginningReached
  WindowInv
  BadgeHonest
PROPERTIES
  Anchored
  SpinnerEnds
