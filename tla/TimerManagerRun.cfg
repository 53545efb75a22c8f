CONSTANTS
  c1 = c1
  c2 = c2
  Clients = {c1, c2}
  Delays = {0, 1, 2}
  MaxTimers = 2
  MaxNow = 3
SPECIFICATION FairSpec
INVARIANTS BeginIsValid SameTimers NoTimerOverslept CancelledNeverRuns RunInDueOrder QuietAfterShutdown
PROPERTIES TimerRuns
CHECK_DEADLOCK FALSE
