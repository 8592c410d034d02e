CONSTANTS
  Process = {me, p1, p2}
  Me = me
  None = None
  Id = {c1, c2}
  MaxLines = 2
  MaxEvents = 1
  Entries = 1
  Days = 1
  Sequences = 2
  Room = 2
  Keep = 2
  Age = 1
  LogFaults = {"list", "open", "remove", "write"}
SYMMETRY Symmetric
SPECIFICATION MCSpec
INVARIANTS FailureIsRecorded
