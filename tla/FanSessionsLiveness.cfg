SPECIFICATION FairSpec
CONSTANTS
  Clients = {c1, c2}
  MaxControlClients = 2
  GamingWmi = FALSE
  Events = {"heat", "resume", "stop"}
  FaultLimit = 0
  NoClient = NoClient
PROPERTIES
  HotManualEnds
  LostLeaseReturnsAuto
  StopReturnsAuto
