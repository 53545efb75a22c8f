CONSTANTS
  Modes = {"perThread", "oneThread"}
  NSubs = 2
  Fds = {1, 2, 3}
  MaxConnections = 2
  Graceful = TRUE
  ExitBeforeRun = FALSE
  EndInCallback = FALSE
  MaxBatch = 2
  MaxConns = 3
SPECIFICATION FairSpec
INVARIANTS NoStaleEntry LimitKept NoOrphan QuietWhenDone FirstUseReleased
PROPERTIES ExitReturns RunReturns
CHECK_DEADLOCK FALSE
