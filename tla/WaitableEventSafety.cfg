SPECIFICATION Spec
CONSTANTS
  t1 = t1
  t2 = t2
  t3 = t3
  NoThread = NoThread
  NoEvent = NoEvent
  Threads <- MCThreads
  Events <- MCEvents
  ManualReset <- MCManualReset
SYMMETRY MCThreadSymmetry
CHECK_DEADLOCK FALSE
INVARIANTS
  TypeOK
  TimedOutWaitAbsorbsNothing
  NoDanglingWaiter
  NoSleeperOnSignaledEvent
  SignalCompletesBeforeWaitReturns
  AutoResetSignalSpentOnce
  NoCircularLockWait
PROPERTY ImplementsContract
