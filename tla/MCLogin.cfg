CONSTANTS
  ann = ann
  bob = bob
  guest = guest
  cat = cat
  None = None
  Accounts = {ann, bob}
  Guests = {guest, cat}
  GuestName = guest
SYMMETRY Symmetry
SPECIFICATION Spec
INVARIANTS
  StoredInv
  PageInv
  FormWaits
