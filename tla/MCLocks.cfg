CONSTANTS
  Threads = {t1, t2, t3}
  Nobody = Nobody
  Calls = {"roomMessages", "storeWrite", "verifyUser", "allUserStatus", "setLastSeen"}
SPECIFICATION LocksFairSpec
CHECK_DEADLOCK FALSE
INVARIANTS
  LocksInv
PROPERTIES
  CallsReturn
