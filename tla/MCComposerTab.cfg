CONSTANTS
  s = s
  t = t
  None = None
  Tokens = {s, t}
  MaxNames = 2
  MaxRoom = 2
SYMMETRY Symmetry
SPECIFICATION Spec
INVARIANTS
  PickerShows
