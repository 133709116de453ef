SPECIFICATION Spec
CONSTANTS
  MaxItems = 1
  RecvBuffer = 1
  SockBuffer = 1
  MaxExecs = 1
  MaxFaults = 0
  MaxSignals = 1
INVARIANT HookFires
CHECK_DEADLOCK FALSE
