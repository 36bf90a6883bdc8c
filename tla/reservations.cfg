CONSTANTS
  p1 = p1
  p2 = p2
  a = a
  b = b
  k = k
  None = None
  Processes = {p1, p2}
  Owners = {a, b}
  Contracts = {k}
  ProcessOf <- TwoProcesses
  KeysOf <- OneContract
  Ttl = 2
  Grace = 3
  Margin = 1
  ClockError = 1
  ClockErrors <- AheadOrBehind
  MaxSpare = 1
  MaxTime = 3
  MaxFaults = 1
  MaxSyncs = 1
SPECIFICATION Spec
INVARIANTS GuardExclusive
PROPERTIES ExposureProtected
CHECK_DEADLOCK FALSE
SYMMETRY Swap
