SPECIFICATION Spec
CONSTANTS
  a = a
  b = b
  c = c
  Obj = {a, b}
  Field = {1}
  Null = null
  NBlocks = 1
  BlockOf <- MCBlockOf
  Kind <- NormalKinds
  InitStack = 2
  MaxStack = 2
  FullFreq = 1
  MaxPrior = 1
  StartIncremental = FALSE
  StopFuncs = {"never", "client"}
  Frees = TRUE
  TLKinds = {"normal"}
  Junk = {a}
  MaxRoots = 2
  MaxPend = 1
CHECK_DEADLOCK FALSE
INVARIANTS
  NothingToSweepInFullGc
  CollectorInv
PROPERTIES
  TLListKept
  NoFloatingGarbage
