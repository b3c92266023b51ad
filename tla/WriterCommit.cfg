SPECIFICATION Spec
CONSTANTS
  Interval = 2
  MaxVersions = 3
  ClosesBusy = FALSE
CHECK_DEADLOCK FALSE
INVARIANTS
  SerializerIsSet
