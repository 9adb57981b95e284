SPECIFICATION HeapSpec
CONSTANTS
  N = 5
  UniqueThreshold = 2
  HugeThreshold = 4
  FlCompression = 2
  MaxJump = 1
  MaxBlackListAlloc = 1
  BlLimit = 1
  SoftLimit = 2
  DropEvery = 2
  Builds <- MCBuilds
  FalsePtrs <- MCFalsePtrs
  Requests <- MCRequests
  Growths <- MCGrowths
  NPages = 7
  PageWords = 2
  LeastIncrement = 2
  Increments = {1, 2}
  Slops = {3, 5}
  HeapLimits = {0, 5}
  FirstCapacity = 2
  SectWords = 1
  TableWords = {3, 5}
CHECK_DEADLOCK FALSE
INVARIANTS
  HeapExact
  PlaceFound
  SectionsSound
PROPERTIES
  InUseKept
