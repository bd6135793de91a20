SPECIFICATION SafeSpec

CONSTANTS
  None = None
  Keys = {k1}
  Workers = {w1}
  Connections = 1
  MsPerSecond = 10
  MaxClock = 3
  MaxLatency = 1
  MaxRequests = 1
  WindowMs = 1
  Burst = 5

INVARIANTS
  CallsSucceed
