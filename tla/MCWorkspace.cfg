CONSTANTS
  a1 = a1  a2 = a2  b1 = b1  va = va  vb = vb  o1 = o1  o2 = o2
  Commit = {a1, a2, b1}
  Version = {va, vb}
  VersionOf <- MCVersionOf
  Op = {o1, o2}
  None = None
SPECIFICATION Spec
INVARIANTS
  EveryTreeIsNamed NeverWithoutARepository StaleReadyIsCovered
  RunningIsReady SwapIsRecoverable
PROPERTIES
  RetiredOutlivesReady ImplementsActivation
