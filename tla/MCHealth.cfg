CONSTANTS
  Stream = {out}
  MaxLines = 1
  Budget = TRUE
  ConsecutiveSuccesses = 2
  MaxProbeErrors = 2
SPECIFICATION Spec
INVARIANTS OwnedByItsJob WaitTellsTheTruth ReadyIsEarned
PROPERTIES CancelKillsTheTree
CHECK_DEADLOCK FALSE
