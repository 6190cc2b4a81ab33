SPECIFICATION Spec
CONSTANTS
  Tasks = {t1, t2}
  MaxPolls = 2
  Factors = {1, 2}
  Scale = 12
  MaxCommands = 2
  MaxCrashes = 1
  None = None
INVARIANTS
  AnsweredRight
PROPERTIES
  SettingsKept
  Ends
CHECK_DEADLOCK FALSE
