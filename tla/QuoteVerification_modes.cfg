CONSTANTS
  MaxTime <- MCMaxTime
SPECIFICATION Spec
INVARIANTS TypeOK VerdictIsTheLibrarys NothingHeld GenuineDataMatches AcceptedIfAllPassed
CHECK_DEADLOCK FALSE
