SPECIFICATION Spec

CONSTANTS
  Tasks = {t1, t2, t3, t4}
  MaxConcurrent = 2

INVARIANTS
  LimiterInv
  PermitsConserved
  CountWithinLimit
  NoIdlePermit

PROPERTIES
  WaitersServed
  ImplementsPool
