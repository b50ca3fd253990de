SPECIFICATION FairNvmlSpec
CONSTANTS
  IdleRelease = 5
  ReopenHoldoff = 5
  RetryMax = 30
  SlowRefresh = 10
  UsageShown = {TRUE}
  IdleShown = {TRUE}
  Faults = FALSE
PROPERTIES
  UnusedGpuSleeps
