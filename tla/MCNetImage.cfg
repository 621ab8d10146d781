SPECIFICATION FairSpec
CONSTANTS
  Room <- MCOneAndOne
  NMax = 1
  MaxData = 2
  NSync = 2
  Tout = 2
  MaxFlaps = 1
PROPERTIES ImageCatchesUp UserServed
CHECK_DEADLOCK FALSE
