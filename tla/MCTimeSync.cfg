SPECIFICATION FairSpec
CONSTANTS
  MaxFd = 4
  MaxMsgs = 3
INVARIANTS TypeOK PolledUntilLost ReadByOwner OneSyncPerReset
PROPERTY ResetsNoticed
CHECK_DEADLOCK FALSE
