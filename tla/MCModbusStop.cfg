SPECIFICATION Spec
CONSTANTS
  Regs <- MCRegs
  Silence = 1
  MaxCrashes = 1
INVARIANTS StopClearsFlags
CHECK_DEADLOCK FALSE
