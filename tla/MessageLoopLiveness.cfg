SPECIFICATION FairSpec
CONSTANTS
  MaxTasks = 2
  MaxDepth = 2
  MaxTime = 2
  Delays = {0, 1}
  MaxPasses = 2
  NoTask = NoTask
CHECK_DEADLOCK FALSE
PROPERTIES
  TasksAreServed
  QuitEndsLoop
