CONSTANTS
  Modes = {"oneThread"}
  NSubs = 1
  Fds = {1, 2}
  MaxConnections = 2
  Graceful = TRUE
  ExitBeforeRun = FALSE
  EndInCallback = TRUE
  MaxBatch = 2
  MaxConns = 2
SPECIFICATION Spec
INVARIANTS QuietWhenDone
CHECK_DEADLOCK FALSE
