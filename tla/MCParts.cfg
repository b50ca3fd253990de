SPECIFICATION PartsSpec
CONSTANTS
  Setpoints = {20, 57, 100}
  OthersWrite = {"fan_mode"}
  SettingTrouble = 2
  IdleRelease = 5
  ReopenHoldoff = 5
  RetryMax = 30
  SlowRefresh = 2
  UsageShown = {TRUE, FALSE}
  IdleShown = {TRUE, FALSE}
  Faults = TRUE
  Dragged <- DraggedSizes
  Own <- OwnSize
  Moves = 3
  Switches = 1
  Timers = 2
  Backlog = 2
  Numbers = {0, 1}
  Chips <- FewChips
  Handlers = {"acer-wmi", "acer", "foreign"}
  FanGroups <- FewGroups
  Offered <- FewSets
  NoDevice = NoDevice
  NoSize = NoSize
  NoDirection = NoDirection
  DragOver = DragOver
INVARIANTS
  RestsInShape
  HealthyChannelIsSafe
  HealthyMachineObeys
  NoFlapping
  WriterIsNoAccident
  AnnouncedIsAccepted
PROPERTIES
  ImplementsFanApply
  SettingsEndWhole
  WindowSettles
