SPECIFICATION Spec
CONSTANTS
  c1 = c1
  c2 = c2
  r1 = r1
  r2 = r2
  r3 = r3
  a1 = a1
  a2 = a2
  Calls = {c1, c2}
  Clients = {r1}
  Aliases = {a1}
  Asks <- TwoCalls
  MaxActive = 2
  MaxWaiting = 0
  MaxManagement = 1
  MaxDiagnostics = 0
  MaxEnds = 1
CHECK_DEADLOCK FALSE
PROPERTY CancellationSparesOthers
