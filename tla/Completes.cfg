SPECIFICATION FairSpec
CONSTANTS
  a = a
  b = b
  c = c
  Obj = {b, c}
  Field = {1}
  Null = null
  NBlocks = 2
  BlockOf <- MCBlockOf
  Kind <- UncollectableFirst
  InitStack = 1
  MaxStack = 2
  FullFreq = 1
  MaxPrior = 1
  StartIncremental = TRUE
  StopFuncs = {}
  Frees = FALSE
  TLKinds = {}
  Junk = {}
  MaxRoots = 2
  MaxPend = 1
CHECK_DEADLOCK FALSE
INVARIANTS
  UncollectableMarked
PROPERTIES
  CollectionCompletes
