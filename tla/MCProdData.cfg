SPECIFICATION Spec
CONSTANTS
  Threads = {t1, t2}
  MiscSize = 4
  TESTMODE_OFFSET = 3
  Requests <- MCRequests
  MaxReqs = 2
  MaxInTurn = 3
  MaxFaults = 1
  MaxKills = 1
SYMMETRY Sym
INVARIANT AckedIsStored
PROPERTIES ReadsTrue RetrySucceeds
CHECK_DEADLOCK FALSE
