SPECIFICATION RainSpec
CONSTANTS
  MaxTime = 18
  Warn = 6
  Again = 4
  Pause = 2
  Sure = 1
PROPERTY AlarmOncePerMinute
CHECK_DEADLOCK FALSE
