SPECIFICATION FairSpec
CONSTANTS
  MaxThreads = 2
  Posters = {p1}
  Tokens = {0}
  FreshTokens = {}
  Delays = {0, 1}
  MaxTasks = 2
  MaxTime = 1
  MaxFlushes = 1
  MaxNewBlocking = 1
  LatePosters = {"task"}
  NoOne = NoOne
  NoTask = NoTask
CHECK_DEADLOCK FALSE
PROPERTIES
  ShutdownCompletes
  FlushReturns
  PoolDrains
