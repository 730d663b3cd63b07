SPECIFICATION FairSpec
CONSTANTS
  r1 = r1
  w1 = w1
  w2 = w2
  NoThread = NoThread
  Threads = {r1, w1, w2}
  Readers = {r1}
  FdNums = {3, 4}
  ReopenTries = 2
  UseTimeout = TRUE
  MaxCount = 3
  Worlds <- MCWorlds
INVARIANTS TypeOK NoFdLeak RefCountExact ReaderNotForgotten
PROPERTIES SharedSpec ReaderWakes
