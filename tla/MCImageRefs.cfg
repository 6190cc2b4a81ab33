CONSTANTS
  c1 = c1
  c2 = c2
  c3 = c3
  f = f
  g = g
  x = x
  Clients = {c1, c2, c3}
  Paths = {f, g}
  Hdus = {1}
  FirstHdu = 0
  Names = {}
  MaxMinted = 3
  None = None
  NoAnswer = NoAnswer
SPECIFICATION Spec
SYMMETRY Interchangeable
INVARIANTS
  RefsAgree
PROPERTIES
  OneImagePerRef
CHECK_DEADLOCK FALSE
