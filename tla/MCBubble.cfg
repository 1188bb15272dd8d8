CONSTANTS
  a = a
  b = b
  None = None
  Messages = {a, b}
  Mine = {a}
  Dead = {}
  MaxPress = 2
VIEW Hands
SPECIFICATION Spec
CHECK_DEADLOCK FALSE
INVARIANTS
  GesturesInv
  SelectionInMode
PROPERTIES
  RequestsAreDue
