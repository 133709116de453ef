SPECIFICATION FairSpec
CONSTANTS
  NoConn = NoConn
  ChannelCapacity = 1
  Keys = {1}
  Values = {"v"}
  KeyPrefixes = {{1}}
  WatchIds = {1}
  Conns = {1}
  Ttl = 0
  LogCapacity = 1
  MaxRevision = 1
  MaxLeases = 1
  MaxTime = 0
  MaxRestarts = 1
  MaxRevisionAfterRestart = 1
  MaxShutdowns = 1
PROPERTIES Reconnects ResyncEnds ShutdownEnds
CHECK_DEADLOCK FALSE
