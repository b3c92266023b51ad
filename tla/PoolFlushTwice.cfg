SPECIFICATION FairSpec
CONSTANTS
  MaxThreads = 2
  Posters = {p1}
  Tokens = {0, 1}
  FreshTokens = {}
  Delays = {0}
  MaxTasks = 2
  MaxTime = 0
  MaxFlushes = 2
  MaxNewBlocking = 1
  LatePosters = {"task"}
  NoOne = NoOne
  NoTask = NoTask
CHECK_DEADLOCK FALSE
PROPERTIES
  FlushReturns
