SPECIFICATION FairSpec
CONSTANTS
  Plain = {93, 94, 125, 126}
  MaxBody = 2
  MaxMsgs = 2
  MaxNoise = 1
  Links <- MCLinks
INVARIANTS TypeOK RequestsIntact CodecsAgree
PROPERTY RequestsArrive
CHECK_DEADLOCK FALSE
