SPECIFICATION PaceSpec
CONSTANTS
  Limit = 5
  Slip = 6
  Tsec = 17
  Least = 1
  BufMax = 2
INVARIANT TenPerSecond
