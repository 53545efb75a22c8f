CONSTANTS
  Roles = {"accepted"}
  Sizes = {1, 3}
  Budget = 2
  SendSpace = 2
  High = 2
  Low = 1
  Timeouts = {FALSE}
  HighOps = {}
  LowOps = {"send", "close"}
  MaxCalls = 3
  MaxRx = 0
SPECIFICATION Spec
INVARIANTS NoNullChannel
CHECK_DEADLOCK FALSE
