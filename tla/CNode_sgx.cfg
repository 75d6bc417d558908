CONSTANTS
  n1 = n1
  n2 = n2
  p1 = p1
  p2 = p2
  p3 = p3
  Node = {n1, n2}
  Proc = {p1, p2, p3}
  NodeOf <- MCNodeOf
  SGX = TRUE
  Garbage <- MCGarbage
  Backlog = 1
  IntMax = 1
  MaxCalls = 1
  MaxStarts = 2
  NoNode = NoNode
  NoMsg = NoMsg
  NoAnswer = NoAnswer
SPECIFICATION FairSpec
INVARIANTS TypeOK SingleFlight OnePeer
PROPERTIES LostIsForever ImplementsCounterService ServedWhileLinked ExitsWithConnection
CHECK_DEADLOCK FALSE
