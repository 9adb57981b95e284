SPECIFICATION Spec
CONSTANTS
  a = a
  b = b
  c = c
  Obj = {a, b, c}
  Field = {1}
  Null = null
  NBlocks = 2
  BlockOf <- MCBlockOf
  Kind <- NormalKinds
  InitStack = 1
  MaxStack = 1
  FullFreq = 1
  MaxPrior = 0
  StartIncremental = TRUE
  StopFuncs = {}
  Frees = FALSE
  TLKinds = {}
  Junk = {}
  MaxRoots = 2
  MaxPend = 1
CHECK_DEADLOCK FALSE
SYMMETRY BlockMates
INVARIANTS
  LiveKept
  MarkBitsConsistent
