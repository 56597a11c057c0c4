SPECIFICATION Spec
CONSTANTS
  c1 = c1
  c2 = c2
  a1 = a1
  a2 = a2
  r1 = r1
  r2 = r2
  r3 = r3
  Calls = {c1}
  Clients = {r1, r2, r3}
  Aliases = {a1, a2}
  Asks <- OneProfileBusy
  MaxActive = 1
  MaxWaiting = 1
  MaxManagement = 2
  MaxDiagnostics = 1
  MaxEnds = 1
CHECK_DEADLOCK FALSE
INVARIANTS
  SlotsBalanced
  WorkSeesPublished
PROPERTIES
  EditsReplaceWhatTheySaw
  EveryRequestEnds
