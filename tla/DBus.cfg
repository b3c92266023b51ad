SPECIFICATION Spec
CONSTANTS
  Proxies = {p1, p2}
  Calls = {c1}
  Owners = {o1}
  MaxRequests = 3
  MaxChanges = 2
  None = None
CHECK_DEADLOCK FALSE
INVARIANTS
  TypeOK
  OnlyLiveProxiesAreRegistered
  OwnerIsTracked
  NobodyIsForgotten
