CONSTANTS
  c1 = c1
  c2 = c2
  Clients = {c1}
  Delays = {0, 1, 2}
  MaxTimers = 1
  MaxNow = 1
SPECIFICATION FairSpec
PROPERTIES ShutdownReturns
CHECK_DEADLOCK FALSE
