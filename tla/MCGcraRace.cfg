SPECIFICATION AdmissionSpec

CONSTANTS
  None = None
  Keys = {k1}
  Workers = {w1, w2}
  GcThreshold = 0
  MaxAge = 1
  MaxClock = 4
  MaxLatency = 1
  MaxRequests = 1
  WindowMs = 2
  Burst = 1

INVARIANTS
  Conforms
