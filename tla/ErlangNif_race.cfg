CONSTANTS
  t1 = t1
  t2 = t2
  Thread = {t1, t2}
  SGX = TRUE
  TCSNum = 2
  MaxLoads = 3
  MaxCalls = 2
  IntMax = 3
  NoAnswer = NoAnswer
SPECIFICATION FairSpec
INVARIANTS TypeOK AbortOnlyWithout CounterBounds
PROPERTIES CallsReturn
CHECK_DEADLOCK FALSE
