SPECIFICATION Spec
CONSTANTS
  NoConn = NoConn
  ChannelCapacity = 2
  Keys = {1, 2}
  Values = {"v"}
  KeyPrefixes = {{1, 2}}
  WatchIds = {1}
  Conns = {1}
  Ttl = 0
  LogCapacity = 1
  MaxRevision = 3
  MaxLeases = 1
  MaxTime = 0
  MaxRestarts = 1
  MaxRevisionAfterRestart = 1
  MaxShutdowns = 0
INVARIANT RestartConverges
CHECK_DEADLOCK FALSE
