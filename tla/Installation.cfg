SPECIFICATION Spec
CONSTANTS
  Procs = {p1, p2}
  NoProc = NoProc
  Versions = {1, 2}
  MaxOperations = 3
  MaxStops = 2
  MaxEdits = 1
SYMMETRY Commands
CHECK_DEADLOCK FALSE
INVARIANTS
  TracesAreRecorded
  SuccessIsComplete
PROPERTIES
  ExecutableLast
  UserContentKept
