CONSTANTS
  Clients = {c1, c2}
  Users = {u1, u2}
  NoName = NoName
  Torn = Torn
  ChanCap = 1
  SendCap = 1
  MaxConns = 2
  MaxJoins = 1
  Chatty = {}
  MayShutdown = TRUE
SPECIFICATION Spec
SYMMETRY Symmetry
PROPERTIES
  ImplementsSessions
