CONSTANTS
  t1 = t1
  t2 = t2
  Thread = {t1}
  SGX = TRUE
  TCSNum = 1
  MaxLoads = 4
  MaxCalls = 4
  IntMax = 1
  NoAnswer = NoAnswer
SPECIFICATION Spec
PROPERTIES ImplementsCounterService
CHECK_DEADLOCK FALSE
