SPECIFICATION FairSpec
CONSTANTS
  NoConn = NoConn
  ChannelCapacity = 1
  Keys = {1, 2}
  Values = {"v"}
  KeyPrefixes = {{1, 2}}
  WatchIds = {1}
  Conns = {1}
  Ttl = 0
  LogCapacity = 1
  MaxRevision = 2
  MaxLeases = 1
  MaxTime = 0
  MaxRestarts = 0
  MaxRevisionAfterRestart = 0
  MaxShutdowns = 0
PROPERTY WatchOpens
CHECK_DEADLOCK FALSE
