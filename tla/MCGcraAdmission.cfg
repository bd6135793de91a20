SPECIFICATION AdmissionSpec

CONSTANTS
  None = None
  Keys = {k1}
  Workers = {w1}
  GcThreshold = 2
  MaxAge = 2
  MaxClock = 8
  MaxLatency = 4
  MaxRequests = 1
  WindowMs = 2
  Burst = 2

INVARIANTS
  AdmissionInv
  Conforms
  RemainingIsSafe

PROPERTIES
  RefinesContract
  RetryHonoured
