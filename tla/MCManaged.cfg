CONSTANTS
  Stream = {out, err}
  MaxLines = 1
  Budget = TRUE
SPECIFICATION MSpec
INVARIANTS MTypeOK OwnedByItsJob WaitTellsTheTruth
PROPERTIES CancelKillsTheTree StoppedReadersEnd CleanupEnds
CHECK_DEADLOCK FALSE
