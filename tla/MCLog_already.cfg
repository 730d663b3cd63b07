SPECIFICATION Spec
CONSTANTS
  AtThreads = {"at"}
  Faults = {}
  MaxReqs = 3
  MaxRestarts = 0
INVARIANT AlreadyToPc
CHECK_DEADLOCK FALSE
