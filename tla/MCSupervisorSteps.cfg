SPECIFICATION Spec
CONSTANTS
  Status = {s1}
  Cancel = {c1}
  Shutdown = {d1}
  Eof = Eof
  None = None
  Capacity = 1
  Faults = {"cleanup", "stdout"}
PROPERTIES FailureUsesTheRestart EveryEdgeIsPublished OutputFaultIsGraceful AnswersAreCurrent
