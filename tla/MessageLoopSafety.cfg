SPECIFICATION Spec
CONSTANTS
  MaxTasks = 3
  MaxDepth = 2
  MaxTime = 3
  Delays = {0, 1}
  MaxPasses = 2
  NoTask = NoTask
CHECK_DEADLOCK FALSE
INVARIANTS
  TypeOK
  NoLostWakeup
  EndsWhenAsked
  TaskConservation
PROPERTIES
  OrderUnlessDeferred
  StartsAreLegal
