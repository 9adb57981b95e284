SPECIFICATION ProgressSpec
CONSTANTS
  Thread = {t1, t2}
  ResendLimit = 2
  Stopper = stopper
  Nobody = nobody
  StopConfigs <- MCStopConfigs
  SystemBlocks = 2
  HBLKSIZE = 2
  InitialBlocks = 1
  MINHINCR = 1
  MAXHINCR = 2
  BlackListSlop = 2
  RootWords = 3
  FreeSpaceDivisor = 2
  PerFinalizer = 3
  Wanted = {1, 2}
  MaxFreed = 2
  GrowthConfigs <- MCGrowthConfigs
  Runner = {t1, t2}
  Daemon = t1
  Finalizable = {o1, o2}
  MaxNest = 2
  MaxGcNo = 2
CHECK_DEADLOCK FALSE
INVARIANTS
  CountsSound
PROPERTIES
  ImplementsAtomicStop
  NullWhenFull
  RequestsEnd
