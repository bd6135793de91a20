SPECIFICATION LifeSpec

CONSTANTS
  None = None
  Keys = {k1}
  w1 = w1
  w2 = w2
  Workers <- TwoWorkers
  Clients <- AnyClients
  Deployments <- ByRequestsOrTask
  GcEvery = 1
  GcThreshold = 2
  MaxAge = 1
  MaxClock = 3
  Ttls = {1}
  Windows = {0, 1}
  MaxCount = 2

INVARIANTS
  LifeInv
  OnlyExpiredVanish

PROPERTIES
  ShutdownHeard
