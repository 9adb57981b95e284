SPECIFICATION ThreadsSpec
CONSTANTS
  m = m
  t1 = t1
  t2 = t2
  i1 = i1
  i2 = i2
  RegThread = {m, t1, t2}
  Main = m
  Id = {i1, i2}
  Rec = {r0, r1, r2, r3}
  FirstThread = r0
  Null = null
  Index <- MCIndex
  Profiles <- MCProfiles
  StackThread = {t1, t2}
  NoThread = nothread
  MaxFrames <- MCMaxFrames
  MaxSuspend = 3
  Builder = {t1, t2}
  Starter = t1
  Marker = {k1, k2}
  Page = {p1, p2}
  NoBuilder = nobuilder
  MaxGcs = 2
  RThread = {m, t1, t2}
  RFirst = m
  Ids = {1, 2, 3, 4}
  IdOf <- MCIdOf
  ChildId <- MCChild
  Bucket <- MCBucket
  MapIndex <- MCMap
  Flavors = {"native", "pthreads"}
  MaxFails = 1
  DThread = {m, t1, t2}
  Me = m
  First <- MCFirst
  Discover = {TRUE, FALSE}
  MaxCycles = 2
CHECK_DEADLOCK FALSE
INVARIANTS
  
  StacksSound
  BuildersSound
  
  DarwinSound
PROPERTIES
  SuspendedStays
  
