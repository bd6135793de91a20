SPECIFICATION OpsSpec

CONSTANTS
  None = None
  Keys = {k1}
  w1 = w1
  w2 = w2
  w3 = w3
  Workers <- Tasks
  Clients <- AnyClients
  Connections = 2
  MsPerSecond = 2
  MaxClock = 2
  Ttls = {1, 2}
  Windows = {0, 1}
  MaxCount = 2

INVARIANTS
  OpsInv
  NeverOvercounted
  IncrementsCounted

PROPERTIES
  CallsEnd
