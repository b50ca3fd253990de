SPECIFICATION Spec
CONSTANTS
  Clients = {c1, c2}
  MaxControlClients = 2
  GamingWmi = FALSE
  Events = {"heat", "reload", "resume", "stop"}
  FaultLimit = 0
  NoClient = NoClient
PROPERTIES
  ConfirmedMaximumOutlivesDisconnects
