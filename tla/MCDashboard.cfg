CONSTANTS
  MaxSessions = 2
  None = None
  MaxVersion = 1
  MaxSnaps = 1
  MaxWakes = 1

SPECIFICATION Spec
INVARIANTS
  Coherent
PROPERTIES
  PinnedWhileAlive
  BecomesCurrent
