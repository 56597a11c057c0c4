SPECIFICATION Spec
CONSTANTS
  Clients <- MCClients
  one = one
  two = two
  Nobody = Nobody
  Connections <- MCConnections
  MaxReservations = 2
  MaxKeys = 2
  MaxRevision = 3
SYMMETRY MCSymmetry
INVARIANT RetryFindsItem
INVARIANT PurgeLeavesNoKey
INVARIANT UsageReserved
INVARIANT CredentialsReadable
PROPERTY NeverReplaced
CHECK_DEADLOCK FALSE
