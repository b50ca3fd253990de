SPECIFICATION Spec
CONSTANTS
  Clients = {c1, c2, c3}
  MaxControlClients = 2
  GamingWmi = TRUE
  Events = {"heat", "reload", "resume", "stop"}
  FaultLimit = 1
  NoClient = NoClient
SYMMETRY ClientSymmetry
INVARIANTS
  OneLeaseHolder
  FansAccountedFor
  ManualIsWatched
PROPERTIES
  ConfirmedMaximumOutlivesItsClient
