SPECIFICATION DesktopSpec
CONSTANTS
  SleepLimit = 2
  ChangeLimit = 2
  FaultLimit = 2
  Count = 3
  Offsets = {0, 100, 150}
  Accepted = {0, 100}
  NoRequest = NoRequest
  OffsetRefresh = 1
  Grace = 3
  Debounce = 2
  UiStalls = {FALSE}
  ReaderFails = TRUE
  Selections = 2
  Disturbances = 1
  Wakes = 1
  Launches = {l1, l2, l3}
  NoLaunch = none
INVARIANTS
  LossIsRemembered
  NoFalseMismatch
PROPERTIES
  LossIsRepaired
  ImplementsOffsetApply
  ImplementsOneAnswer
  EveryRequestEnds
  
  OpenLeavesFreshWindow
