SPECIFICATION FairSpec
CONSTANTS
  RetryAfter = 1
  Silence = 0
  NET_T2 = FALSE
  INPUT_T2 = FALSE
  OtherAdcs = {7}
  MaxStanding = 4
INVARIANTS ExitLeavesNoFlag SilenceClearsInTime
PROPERTIES OnlySensorT2 T2ComesBack
CHECK_DEADLOCK FALSE
