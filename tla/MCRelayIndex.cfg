CONSTANTS
  r1 = r1
  File = {a, b}
  Index = index
  Request = {r1, r2, r3}
  MaxFiles = 1
  MaxCachedFiles = 1
SPECIFICATION Spec
INVARIANTS FailureHasAStatus CacheIsBounded LeaseOutlivesFetches
CHECK_DEADLOCK FALSE
