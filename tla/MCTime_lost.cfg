SPECIFICATION Spec
CONSTANTS
  MaxFd = 4
  MaxMsgs = 1
INVARIANT ConnectedIsPolled
CHECK_DEADLOCK FALSE
