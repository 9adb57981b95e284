SPECIFICATION StopSpec
CONSTANTS
  t1 = t1
  t2 = t2
  Thread = {t1, t2}
  ResendLimit = 2
  Stopper = stopper
  Nobody = nobody
  StopConfigs <- Resending
CHECK_DEADLOCK FALSE
SYMMETRY Threads
INVARIANTS
  AllStopped
