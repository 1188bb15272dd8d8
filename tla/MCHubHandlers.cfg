CONSTANTS
  Clients = {c1, c2}
  Users = {u1}
  NoName = NoName
  Torn = Torn
  ChanCap = 2
  SendCap = 2
  MaxConns = 2
  MaxJoins = 1
  Chatty = {c1, c2}
  MayShutdown = FALSE
SPECIFICATION Spec
INVARIANTS
  HandlersNeverPanic
