SPECIFICATION FairSpec
CONSTANTS
  Status = {s1, s2}
  Cancel = {c1}
  Shutdown = {d1}
  Eof = Eof
  None = None
  Capacity = 1
  Faults = {"interrupt"}
INVARIANTS EveryStatusIsAnswered
PROPERTIES SupervisionEnds
