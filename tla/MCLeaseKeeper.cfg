SPECIFICATION Spec
CONSTANTS
  Keys = {1}
  Values = {"v"}
  KeyPrefixes = {}
  WatchIds = {}
  Conns = {}
  Ttl = 5
  LogCapacity = 1
  MaxRevision = 2
  MaxLeases = 1
  MaxTime = 14
  RetryCap = 1
  MaxDelay = 1
  SweepLag = 1
INVARIANTS TypeOK HealthyLeaseKept ZombieBounded KeysVanish PromptRevoke
PROPERTY ImplementsLeaseStore
CHECK_DEADLOCK FALSE
