SPECIFICATION Spec
CONSTANTS
  MaxThreads = 2
  Posters = {p1}
  Tokens = {0, 1}
  FreshTokens = {2}
  Delays = {0}
  MaxTasks = 3
  MaxTime = 0
  MaxFlushes = 2
  MaxNewBlocking = 1
  LatePosters = {"task"}
  NoOne = NoOne
  NoTask = NoTask
CHECK_DEADLOCK FALSE
INVARIANTS
  TypeOK
  OneTaskPerToken
  CountersAgree
  ShutdownIsFinal
  FlushIsComplete
PROPERTIES
  NothingNewAfterShutdown
  TokenOrder
