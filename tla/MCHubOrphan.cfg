CONSTANTS
  Clients = {c1}
  Users = {u1}
  NoName = NoName
  Torn = Torn
  ChanCap = 2
  SendCap = 1
  MaxConns = 1
  MaxJoins = 1
  Chatty = {}
  MayShutdown = FALSE
SPECIFICATION FairSpec
PROPERTIES
  OrphansRemoved
