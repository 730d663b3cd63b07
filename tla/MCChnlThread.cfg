SPECIFICATION FairSpec
CONSTANTS
  w1 = w1
  w2 = w2
  w3 = w3
  NoWorker = NoWorker
  Workers = {w1, w2, w3}
  m_enable = TRUE
  IsAT = FALSE
  Commands = {"enable", "disable", "dev_on", "dev_off"}
  MaxCmds = 3
INVARIANTS RunningHasWorker TransHasWorker SleeperIsSeen
PROPERTIES PacedStops PacedRuns
CHECK_DEADLOCK FALSE
