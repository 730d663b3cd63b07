SPECIFICATION FairSpec
CONSTANTS
  AtThreads = {"at"}
  Faults = {"error", "late", "hung"}
  MaxReqs = 2
  MaxRestarts = 1
INVARIANTS DeviceFollowsDest SlogFollowsDest
PROPERTY RequestsAnswered
CHECK_DEADLOCK FALSE
