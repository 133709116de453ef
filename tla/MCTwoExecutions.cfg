SPECIFICATION Spec
CONSTANTS
  MaxItems = 1
  RecvBuffer = 1
  SockBuffer = 1
  MaxExecs = 2
  MaxFaults = 1
  MaxSignals = 0
INVARIANT ArrivalFits
PROPERTY LateCallHomeRejected
CHECK_DEADLOCK FALSE
