SPECIFICATION FairSpec
CONSTANTS
  Interval = 2
  MaxVersions = 3
  ClosesBusy = FALSE
CHECK_DEADLOCK FALSE
INVARIANTS
  TypeOK
  FileIsSafe
PROPERTIES
  NeverGoesBack
  EveryRequestSettles
