CONSTANTS
  r = r
  a = a
  b = b
  Threads = {r, a, b}
  Owners = {r, a}
  Runner = r
  MaxPosts = 3
SPECIFICATION FairSpec
INVARIANTS NoLostWakeup InOrderOnce MustInIOThread
PROPERTIES ImplementsExecutor PostedIsRun ShutdownEndsRun
