SPECIFICATION FairSpec
CONSTANTS
  CAN_RX_SIZE = 3
  Writers = {w1, w2}
  Readers = {r1}
  MaxTime = 2
  MaxFrames = 4
  MaxDeaths = 1
  Free = Free
INVARIANT HoldsAllButOne
PROPERTIES ImplementsLog IntactUnlessLapped GetReturns
