SPECIFICATION Spec
CONSTANTS
  t1 = t1
  t2 = t2
  h1 = h1
  h2 = h2
  Nobody = Nobody
  Threads = {t1, t2}
  Handles = {h1, h2}
INVARIANTS ChildKeepsItsMemory OnlyDetachedLeaks
PROPERTIES JoinSeesResult WaitReturns
CHECK_DEADLOCK FALSE
