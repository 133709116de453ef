SPECIFICATION Spec
CONSTANTS
  Keys = {1}
  Values = {"v"}
  KeyPrefixes = {}
  WatchIds = {}
  Conns = {}
  Ttl = 6
  LogCapacity = 1
  MaxRevision = 2
  MaxLeases = 1
  MaxTime = 12
  RetryCap = 1
  MaxDelay = 1
  SweepLag = 1
INVARIANT HardDeadline
CHECK_DEADLOCK FALSE
