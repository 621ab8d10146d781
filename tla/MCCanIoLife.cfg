SPECIFICATION Spec
CONSTANTS
  Servers = {s1, s2}
  Clients = {c1}
  MaxSegs = 3
  MaxStarts = 4
  Root = TRUE
INVARIANTS OneServer SoleServerServes KeyLeadsToServer
PROPERTIES RefusedOnlyIfServed
CHECK_DEADLOCK FALSE
