CONSTANTS
  n1 = n1
  n2 = n2
  p1 = p1
  p2 = p2
  p3 = p3
  Node = {n1}
  Proc = {p1}
  NodeOf <- MCNodeOf
  SGX = TRUE
  Garbage <- MCGarbage
  Backlog = 1
  IntMax = 1
  MaxCalls = 2
  MaxStarts = 1
  NoNode = NoNode
  NoMsg = NoMsg
  NoAnswer = NoAnswer
SPECIFICATION Spec
INVARIANTS AnswersLikePlainNode
CHECK_DEADLOCK FALSE
