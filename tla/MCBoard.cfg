SPECIFICATION Spec
CONSTANTS
  Threads = {t1, t2}
  CoarseMax = 2
  FineMax = 1
  Thresholds <- MCThresholds
  CaliRequests <- MCCali
  Kernels = {"k44", "k414", "bare"}
  Samples = 2
  Levels <- MCLevels
  ByteMax = 1
  Offset = 1
  MaxPolls = 2
  MaxJobs = 2
  MaxPlugs = 1
  PowerRequests <- MCPower
  MaxCali = 3
  MaxPower = 2
  MaxBoth = 2
  WithAmp = {"cdac", "temp", "load", "save"}
  MaxFaults = 1
INVARIANTS
  SettingsKept
  AmpFound
  CurrentSet
PROPERTIES
  RebootAsAsked
  AmpEnds
  PowersOff
CHECK_DEADLOCK FALSE
