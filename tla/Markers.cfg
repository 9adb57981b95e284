SPECIFICATION MarkersSpec
CONSTANTS
  a = a
  b = b
  c = c
  d = d
  e = e
  Obj = {a, b, c, d, e}
  Root = {a}
  MarkConfigs <- MCMarkConfigs
  MaxHelpers = 2
  EntriesToGet = 1
  NoEntry = none
  NoLock = free
  WinHelper = {h1}
  FlBuilder = {b1}
  Phases = 2
  Entries = 1
  Deposits = 1
CHECK_DEADLOCK FALSE
INVARIANTS
  NoWorkLost
  MarkersConsistent
  MarkLockSound
PROPERTIES
  FirstOnlyAdvances
  MarkingEnds
