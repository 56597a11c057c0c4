SPECIFICATION Spec
CONSTANTS
  Operations = {o1, o2}
  Accesses <- TwoProfiles
  Pools = {q1, q2}
  Conns = {c1, c2}
  NoConn = NoConn
  Slots = 1
  PoolLimit = 1
SYMMETRY Callers
CHECK_DEADLOCK FALSE
INVARIANTS
  EveryConnectionOwned
  ConnectionsBounded
  UnusedPoolsExpire
PROPERTIES
  EvictionSparesWork
