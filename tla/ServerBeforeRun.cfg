CONSTANTS
  Modes = {"perThread"}
  NSubs = 1
  Fds = {1}
  MaxConnections = 1
  Graceful = TRUE
  ExitBeforeRun = TRUE
  EndInCallback = FALSE
  MaxBatch = 1
  MaxConns = 1
SPECIFICATION FairSpec
PROPERTIES ExitReturns
CHECK_DEADLOCK FALSE
