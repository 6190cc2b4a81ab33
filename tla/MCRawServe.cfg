SPECIFICATION Spec
CONSTANTS
  Files = {f1, f2}
  None = None
  MaxLength = 3
  Packed <- MCPacked
  MaxBreaks = 2
  MaxChanges = 2
INVARIANTS
  ServedExactly
PROPERTIES
  CopyEnds
CHECK_DEADLOCK FALSE
