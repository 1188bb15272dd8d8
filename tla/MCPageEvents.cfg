CONSTANTS
  p = p
  q = q
  d = d
  x = x
  y = y
  bob = bob
  cat = cat
  u = u
  w = w
  None = None
  PublicAnswers = {p, q}
  PrivateAnswers = {d}
  Bot = "bot"
  Typists = {"bot", "ann"}
  Me = "me"
  Other = "other"
  Options = {x, y}
  MaxChunks = 2
  MaxLost = 1
  MaxMounts = 2
  MaxSets = 3
  MaxSeen = 2
  Others = {bob, cat}
  MaxJoins = 2
  MaxQueue = 2
  Urls = {u, w}
  Fans = {bob, cat}
  MaxEdits = 2
  MaxChanges = 4
  Room = 2
SYMMETRY Symmetry
VIEW Seen
CONSTRAINT OnePart
SPECIFICATION Spec
CHECK_DEADLOCK FALSE
INVARIANTS
  StreamsInv
  TextOfOne
  PollsInv
  OneVotePerMount
  NoticesInv
  PeopleInv
  MarksInv
