CONSTANTS
  Threads = {t1, t2}
  Nobody = Nobody
  Calls = {"roomMessages", "storeWrite"}
SPECIFICATION LocksSpec
INVARIANTS
  NeverDeadlocked
