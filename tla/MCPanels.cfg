CONSTANTS
  q = q
  r = r
  m = m
  n = n
  ann = ann
  bob = bob
  Nothing = Nothing
  Queries = {q, r}
  Hits <- HitsOf
  Messages = {m, n}
  Users = {ann, bob}
  MaxOut = 2
  MaxClose = 1
SYMMETRY Symmetry
CONSTRAINT TwoAreas
SPECIFICATION PanelsSpec
CHECK_DEADLOCK FALSE
INVARIANTS
  SearchInv
  ThreadSettles
PROPERTIES
  HistoryIsWanted
