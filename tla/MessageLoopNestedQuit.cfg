SPECIFICATION Spec
CONSTANTS
  MaxTasks = 1
  MaxDepth = 2
  MaxTime = 1
  Delays = {0}
  MaxPasses = 2
  NoTask = NoTask
CHECK_DEADLOCK FALSE
INVARIANT QuitHasNoBearing
