SPECIFICATION Spec
CONSTANTS
  Room <- MCRoom
  NMax = 2
  MaxData = 2
  NSync = 2
  Tout = 0
  MaxFlaps = 1
INVARIANT StopOvertakes
PROPERTIES ImageSound
CHECK_DEADLOCK FALSE
