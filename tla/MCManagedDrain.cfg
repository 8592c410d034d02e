CONSTANTS
  Stream = {out}
  MaxLines = 2
  Budget = FALSE
SPECIFICATION MSpec
PROPERTIES EmptyJobEndsCleanup SlowSinkLosesNothing
CHECK_DEADLOCK FALSE
