SPECIFICATION Spec
CONSTANTS
  bare = bare
  at1 = at1
  at2 = at2
  both = both
  diag = diag
  d1 = d1
  d2 = d2
  at = at
  wat = wat
  agdsp = agdsp
  wdiag = wdiag
  log = log
  NoMod = NoMod
  Mods <- MCMods
  Internal <- MCInternal
  Dynamic <- MCDynamic
  AtCmd <- MCAtCmd
  DiagCmd <- MCDiagCmd
  Results <- MCResults
  Kind <- MCKind
  NoFunc = {bare}
  AlsoCp = {both}
  Chans = {d1, d2, at, wat, agdsp, wdiag, log}
  ApProcess = {d1, d2, at, wat, agdsp, wdiag}
  DstLoop = {at}
  AtCmds = {"AT+BARE", "AT+X", "AT+BOTH", "AT+?"}
  DiagCmds = {"5D", "62"}
  Worlds <- MCWorlds
INVARIANTS Disposed PendingToOwner
CHECK_DEADLOCK FALSE
