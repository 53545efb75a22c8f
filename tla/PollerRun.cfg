CONSTANTS
  Backends = {"epoll", "kqueue"}
  Fds = {f1, f2}
  Conditions = {"IN", "OUT", "RDHUP", "HUP"}
  ShutdownInCallback = FALSE
  MaxChannels = 4
SPECIFICATION Spec
INVARIANTS TablesAgree EnsuresHold NoDanglingUse OwnEvents
PROPERTIES ImplementsDemultiplexer
SYMMETRY FdSymmetry
