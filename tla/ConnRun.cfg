CONSTANTS
  Roles = {"accepted", "client"}
  Sizes = {1, 3}
  Budget = 2
  SendSpace = 2
  High = 2
  Low = 1
  Timeouts = {TRUE, FALSE}
  HighOps = {"send", "shutdown", "close"}
  LowOps = {"shutdown"}
  MaxCalls = 3
  MaxRx = 1
SPECIFICATION FairSpec
INVARIANTS BytesInOrder WriteInterest WritableEdgeKept ReadableEdgeKept ClosedOnce AllReleased WatermarkHysteresis NoNullChannel
PROPERTIES FinIsLast OutputDrained ShutdownCloses ConnectAnswered
CHECK_DEADLOCK FALSE
