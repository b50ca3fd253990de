SPECIFICATION Spec
CONSTANTS
  Targets = {"keyboard", "logo"}
  Zones <- TwoAndOne
  Colours = {"dark", "red"}
  Dark = "dark"
  None = None
  SleepLimit = 1
  FaultLimit = 0
INVARIANTS
  ResumeRestores
