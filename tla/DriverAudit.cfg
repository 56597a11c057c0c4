SPECIFICATION Spec
CONSTANTS
  Operations = {o1, o2, o3}
  Accesses <- OneAccess
  Pools = {q1}
  Conns = {c1, c2}
  NoConn = NoConn
  Slots = 2
  PoolLimit = 1
CHECK_DEADLOCK FALSE
INVARIANTS
  VouchedBeforeUse
PROPERTIES
  WaitersWoken
