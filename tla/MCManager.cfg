SPECIFICATION Spec

CONSTANTS
  None = None
  Keys <- StoredKeys
  Workers = {w1}
  Managers <- ThreeManagers
  Requests <- TwoClients
  First <- FirstOf
  Extract <- ByApiKeyOrIp
  GcThreshold = 0
  MaxAge = 1
  MaxClock = 3
  MaxLatency = 0

INVARIANTS
  ManagerInv
  RouteQuotaKept

PROPERTIES
  OwnQuotaOnly
