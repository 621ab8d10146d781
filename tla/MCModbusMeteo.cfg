SPECIFICATION FairSpec
CONSTANTS
  Regs <- MCRegs
  Silence = 1
  MaxCrashes = 1
PROPERTIES RightRegister SilenceClearsFlags
CHECK_DEADLOCK FALSE
