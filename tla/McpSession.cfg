SPECIFICATION Spec
CONSTANTS
  Ids = {1, 2, 3}
  Methods = {"initialize", "ping", "work"}
  MaxConcurrentRequests = 2
  MaxLines = 4
INVARIANT OneAnswerEachInOrder
INVARIANT TableMatchesWork
PROPERTY EveryCallAnswered
PROPERTY SessionEnds
CHECK_DEADLOCK FALSE
