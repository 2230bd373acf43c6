CONSTANTS
  c1 = c1
  Callers = {c1}
  Threads = 3
  Requests <- MCPairOnly
  Generations = 2
  WaitKind = "futex"
  MaxDispatched = 3
SPECIFICATION Spec
INVARIANTS TypeOK AtMostOnce SlotExclusive NoSleeperMissed
PROPERTIES ReturnsComplete
CHECK_DEADLOCK FALSE
