SPECIFICATION FairSpec

CONSTANTS
  None = None
  Keys = {k1}
  Workers = {w1, w2}
  GcThreshold = 2
  MaxAge = 1
  MaxClock = 3
  MaxLatency = 1

INVARIANTS
  LockoutBounded
  ExpiryCoversDebt
  GcExclusive
  MemoryInv

PROPERTIES
  CallsEnd
