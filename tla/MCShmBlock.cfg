SPECIFICATION ShmSpec
CONSTANTS
  Bridges = {b1, b2}
  Readers = {r1}
  Nobody = Nobody
  Control = Control
  MaxMade = 2
  MaxQueued = 1
PROPERTY RefusedOnlyIfRunning
CHECK_DEADLOCK FALSE
