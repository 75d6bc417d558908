CONSTANTS
  MaxLost <- MCMaxLost
SPECIFICATION FairSpec
PROPERTIES MainReturns
CHECK_DEADLOCK FALSE
