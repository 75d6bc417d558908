CONSTANTS
  t1 = t1
  t2 = t2
  Thread = {t1, t2}
  SGX = FALSE
  HeapKeys = 3
  MaxLoads = 2
  MaxGens = 3
  MaxCalls = 2
  IntMax = 1
SPECIFICATION FairSpec
INVARIANTS TypeOK  
PROPERTIES CallsReturn
CHECK_DEADLOCK FALSE
