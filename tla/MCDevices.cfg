SPECIFICATION DevicesSpec
CONSTANTS
  Targets = {"keyboard", "logo"}
  Zones <- TwoAndOne
  Colours = {"dark", "red"}
  Dark = "dark"
  None = None
  SleepLimit = 1
  FaultLimit = 1
  RgbColours = {"green"}
  Black = "black"
  Brightest = 1
  RgbTrouble = 2
  RgbStores = 2
  Buses = {1, 2}
  Home = 1
  Cards <- FewCards
  Libraries <- FewLibraries
  NoCard = NoCard
  NoHandle = NoHandle
  Numbers = {0, 1}
  Chips = {}
  Handlers = {}
  FanGroups = {}
  Offered = {}
  NoDevice = NoDevice
  HidNumbers = {0, 1, 2, 3}
  MaxCandidates = 3
  MaxTargets = 4
  MaxDepth = 2
  MaxReports = 1
  MaxBytes = 70000
  MaxPayload = 6
  MaxChoices = 3
  MaxSupplies = 1
  MaxInstances = 2
  ReportMachines <- FewReportMachines
  ChangedMachines <- FewChangedMachines
  DriverChanges = 1
INVARIANTS
  NoMixedLooks
  CacheIsLastAccepted
  RestoresTheRest
  
  
  InventoryIsNoAccident
  
  OneCardIsShown
PROPERTIES
  StoreEndsWhole
  ResumeRestoresLast
