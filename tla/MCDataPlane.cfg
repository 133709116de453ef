SPECIFICATION FairSpec
CONSTANTS
  MaxItems = 2
  RecvBuffer = 1
  SockBuffer = 1
  MaxExecs = 1
  MaxFaults = 1
  MaxSignals = 1
INVARIANTS TypeOK CleanEndComplete
PROPERTIES CallReturns WorkersEnd StopReturns
CHECK_DEADLOCK FALSE
