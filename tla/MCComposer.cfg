CONSTANTS
  s = s
  t = t
  None = None
  Tokens = {s, t}
  MaxNames = 2
  MaxRoom = 2
SYMMETRY Symmetry
CONSTRAINT OneAside
SPECIFICATION Spec
INVARIANTS
  InputInv
  TypingHonest
PROPERTIES
  SentOnce
