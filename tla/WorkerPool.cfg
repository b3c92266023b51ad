SPECIFICATION FairSpec
CONSTANTS
  Threads = {t1, t2}
  Workers = {w1, w2, w3, w4}
  MaxTasks = 4
  NoTask = NoTask
CHECK_DEADLOCK FALSE
INVARIANTS
  TypeOK
  InstanceIsBuiltOnce
  NobodySleeps
PROPERTY TasksStart
