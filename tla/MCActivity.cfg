SPECIFICATION Spec
CONSTANTS
  Requests = {r1, r2}
  Sessions = {s1}
  Global = Global
  Refs = {i1, i2}
  None = None
  Capacity = 2
  Limits = {1}
  NoLimit = NoLimit
  Watched = {s1}
  MaxSeq = 3
SYMMETRY Symmetry
INVARIANTS
  LogIsTold
  OwnWhenUndisturbed
CHECK_DEADLOCK FALSE
