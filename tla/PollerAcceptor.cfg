CONSTANTS
  Backends = {"epoll", "kqueue"}
  Fds = {f1, f2}
  Conditions = {"IN", "OUT", "RDHUP"}
  ShutdownInCallback = TRUE
  MaxChannels = 4
SPECIFICATION Spec
INVARIANTS NoDanglingUse
SYMMETRY FdSymmetry
