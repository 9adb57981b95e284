SPECIFICATION ObjectsSpec
CONSTANTS
  main = main
  thrA = thrA
  thrB = thrB
  i1 = i1
  i2 = i2
  q1 = q1
  q2 = q2
  LastByte = 11
  WordBytes = 2
  MAX_ROOT_SETS = 4
  MAX_EXCLUSIONS = 2
  MAX_LOAD_SEGS = 2
  RtHash <- MCRtHash
  Ranges <- MCRanges
  Excluded <- MCExcluded
  Variants = {"merge", "phdr", "maps", "linkmap", "dyld", "modules"}
  Library <- MCLibrary
  StartLibs = {1}
  MapLists <- MCMapLists
  OurMemory <- MCOurMemory
  StackBottom = 11
  TypThread = {t1, t2}
  WORDSZ = 6
  BITMAP_BITS = 4
  ED_INITIAL_SIZE = 2
  MAX_ENV = 8
  OPT_THRESHOLD = 3
  Bitmaps <- MCBitmaps
  ArraySizes <- MCArraySizes
  Rooms = {2, 9}
  MaxMade = 2
  NObj = 4
  MAX_IN = 2
  MAX_BACK_EDGE_STRUCTS = 16
  MaxBgGcs = 3
  MaxChanges = 2
  Graphs <- MCGraphs
  Luckies = {{}, {2, 3}}
  DbThread = {t1, t2}
  NDbg = 2
  BodyWords = 3
  DbSizes = {1}
  DbModes = {"plain", "leak", "delay"}
  MAX_SMASHED = 2
  MAX_LEAKED = 1
  MaxErrors = 1
  MaxDbGcs = 1
  MAX_DEPTH = 7
  MAX_LEFT_LEN = 2
  SHORT_LIMIT = 2
  SUBSTR_LIMIT = 3
  FUNCTION_BUF_SZ = 2
  LongChars = 2
  CordStrings <- MCCordStrings
  CordFns <- MCCordFns
  CordStarts <- MCCordStarts
  MaxCordLen = 10
  MaxCordOps = 2
  Reader = {t1, t2}
  FileLength = 5
  LINE_SZ = 2
  CacheLines = 2
  LineId = {l1, l2, l3, l4}
  NoLine = NoLine
  NBlocks = 4
  Sections <- MCSections
  Configs <- MCConfigs
  NPages = 7
  PageWords = 2
  BufSize = 4
  BufAlign = 4
  Regions <- MCRegions
  TsdThread = {main, thrA, thrB}
  TsdId = {i1, i2}
  TsdPage = {q1, q2}
  CacheSlot <- MCCacheSlot
  Entry = {e1, e2, e3}
  InvalidTse = inv
  NoTse = nil
  WThread = {main, thrA, thrB}
  WMain = main
  MAX_THREADS = 3
  WinGcs = 1
  Pages <- MCPages
  PageSize = 2
  StkThread = {main, thrA}
  StkSelf = main
  AreaOf <- MCAreaOf
  Private = {TRUE, FALSE}
  StackGcs = 2
CHECK_DEADLOCK FALSE
INVARIANTS
  RootsSound
  TypedSound
  
  CharactersRight
  
  SpecificSound
  WinSound
PROPERTIES
  
  NothingMissed
