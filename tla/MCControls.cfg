SPECIFICATION ControlsSpec
CONSTANTS
  Entries = {e1, e2}
  Offsets = {"reset", "oem", "custom"}
  Profiles = {"quiet", "balanced", "turbo"}
  KeyLimit = 2
  Machines <- FewMachines
  Tints = {"red", "blue"}
  DefaultTints <- RedAndBlue
  Presses = 3
  Disturbances = 1
  NoCaps = NoCaps
  NoItem = NoItem
INVARIANTS
  RolledBackIsTruth
  RequestsAreAccepted
  
  
PROPERTIES
  CustomOffsetsSurvive
  RaisedClocksNeedTurbo
