CONSTANTS
  Modes = {"perThread"}
  NSubs = 1
  Fds = {1}
  MaxConnections = 2
  Graceful = TRUE
  ExitBeforeRun = FALSE
  EndInCallback = FALSE
  MaxBatch = 2
  MaxConns = 2
SPECIFICATION Spec
INVARIANTS AllReleased
CHECK_DEADLOCK FALSE
