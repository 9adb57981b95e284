SPECIFICATION Spec
CONSTANTS
  a = a
  b = b
  c = c
  word1 = word1
  word2 = word2
  word3 = word3
  Obj = {a, b}
  Null = null
  ShortLink = {word1, word2}
  LongLink = {word3}
  Home <- MCHome
  FinalizerKinds = {"normal", "ignore_self", "no_order", "unreachable"}
  Java = TRUE
  Overflows = FALSE
  Junk = {b}
  Thread = {1}
  MaxRoots = 2
  MaxEntries = 3
CHECK_DEADLOCK FALSE
INVARIANTS
  QueuedKept
  TablesSound
PROPERTIES
  FinalizeOrder
