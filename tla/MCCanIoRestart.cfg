SPECIFICATION Spec
CONSTANTS
  Servers = {s1, s2}
  Clients = {c1}
  MaxSegs = 3
  MaxStarts = 5
  Root = TRUE
INVARIANT RestartedServerServes
CHECK_DEADLOCK FALSE
