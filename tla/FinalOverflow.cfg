SPECIFICATION Spec
CONSTANTS
  a = a
  b = b
  c = c
  word1 = word1
  word2 = word2
  word3 = word3
  Obj = {a, b, c}
  Null = null
  ShortLink = {word1, word2}
  LongLink = {word3}
  Home <- MCHome
  FinalizerKinds = {"normal"}
  Java = FALSE
  Overflows = TRUE
  Junk = {}
  Thread = {1}
  MaxRoots = 2
  MaxEntries = 1
CHECK_DEADLOCK FALSE
INVARIANTS
  QueuedKept
