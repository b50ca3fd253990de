SPECIFICATION Spec
CONSTANTS
  SleepLimit = 2
  ChangeLimit = 0
  FaultLimit = 2
INVARIANTS
  SleepIsRemembered
