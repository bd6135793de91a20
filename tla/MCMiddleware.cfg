SPECIFICATION FrontSpec

CONSTANTS
  None = None
  Keys <- StoredKeys
  Workers = {w1}
  Frameworks = {"axum", "actix"}
  Requests <- OneClient
  Connections = 1
  MsPerSecond = 3
  MaxClock = 11
  MaxLatency = 2
  MaxRequests = 1
  WindowMs = 4
  Burst = 1
  Width = 8

INVARIANTS
  FrontInv
  Conforms
  ExpiryCoversDebt

PROPERTIES
  RequestsEnd
