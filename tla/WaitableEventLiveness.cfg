SPECIFICATION FairSpec
CONSTANTS
  t1 = t1
  t2 = t2
  t3 = t3
  NoThread = NoThread
  NoEvent = NoEvent
  Threads <- MCTwoThreads
  Events <- MCEvents
  ManualReset <- MCManualReset
CHECK_DEADLOCK FALSE
PROPERTY DueWaitsReturn
