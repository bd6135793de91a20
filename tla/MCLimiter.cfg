SPECIFICATION Spec

CONSTANTS
  None = None
  Keys = {k1}
  Workers = {w1}
  Algorithms = {"token_bucket", "leaky_bucket", "sliding_log", "sliding_window", "fixed_window"}
  GcThreshold = 2
  MaxAge = 1
  MaxClock = 6
  MaxLatency = 2
  MaxStep = 1
  MaxRequests = 2
  WindowMs = 3
  Burst = 2
  MinTtl = 2
  RefillRate = 4
  MaxCount = 4
  MaxAdmitted = 4

INVARIANTS
  LimiterInv
  RateKept
  LogKept
  WindowKept
  BoundaryKept

PROPERTIES
  RemainingHonoured
  FixedRetryHonoured
