SPECIFICATION CompositeSpec
CONSTANTS
  Tasks = {t1, t2}
  Kinds = {"compose", "blend", "open", "restretch", "reset", "calibrate", "balance", "stretch", "masked", "tones", "export", "clear", "update_r", "update_g"}
  Sizes = {1, 2}
  MaxPreview = 1
  MaxFiles = 1
  MaxCommands = 2
  None = None
SYMMETRY Symmetry
INVARIANTS
  CompositeIsSound
PROPERTIES
  ShowsWhatIsHeld
  FailureKeepsComposite
CHECK_DEADLOCK FALSE
