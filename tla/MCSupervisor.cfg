SPECIFICATION Spec
CONSTANTS
  Status = {s1}
  Cancel = {c1}
  Shutdown = {d1}
  Eof = Eof
  None = None
  Capacity = 1
  Faults = {"interrupt", "cleanup", "panic", "slow", "stdout", "log"}
INVARIANTS StoppedMeansGone BackendIsCovered TerminalIsDelivered FirstTerminalDecides
PROPERTIES Lifecycle ShutdownIsGraceful
