CONSTANTS
  t1 = t1
  t2 = t2
  Thread = {t1}
  SGX = TRUE
  HeapKeys = 4
  MaxLoads = 2
  MaxGens = 3
  MaxCalls = 6
  IntMax = 2
SPECIFICATION Spec
PROPERTIES ImplementsKeyService
CHECK_DEADLOCK FALSE
