CONSTANTS
  p1 = p1  p2 = p2
  Process = {p1, p2}
  MaxObject = 3
  Classic = TRUE
SPECIFICATION Spec
INVARIANTS EveryRestIsRecoverable
PROPERTIES ImplementsRegister
