CONSTANTS
  t1 = t1
  t2 = t2
  Thread = {t1}
  SGX = TRUE
  HeapKeys = 1
  MaxLoads = 2
  MaxGens = 2
  MaxCalls = 2
  IntMax = 2
SPECIFICATION Spec
PROPERTIES KeyGenReports
CHECK_DEADLOCK FALSE
