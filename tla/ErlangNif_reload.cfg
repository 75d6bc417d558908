CONSTANTS
  t1 = t1
  t2 = t2
  Thread = {t1}
  SGX = TRUE
  TCSNum = 1
  MaxLoads = 3
  MaxCalls = 1
  IntMax = 4
  NoAnswer = NoAnswer
SPECIFICATION Spec
PROPERTIES PurgeKillsOldest
CHECK_DEADLOCK FALSE
