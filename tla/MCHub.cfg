CONSTANTS
  Clients = {c1, c2}
  Users = {u1}
  NoName = NoName
  Torn = Torn
  ChanCap = 1
  SendCap = 1
  MaxConns = 2
  MaxJoins = 1
  Chatty = {c1, c2}
  MayShutdown = TRUE
SPECIFICATION Spec
SYMMETRY Symmetry
INVARIANTS
  SessionUnique
  LifecycleInv
  ZombieCause
  LoopSafe
