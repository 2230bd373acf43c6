CONSTANTS
  c1 = c1
  c2 = c2
  Callers = {c1, c2}
  Threads = 2
  Requests <- MCUnevenInline
  Generations = 2
  WaitKind = "semaphore"
  MaxDispatched = 2
SPECIFICATION FairSpec
INVARIANTS JobStable HeldWhileRunning
PROPERTIES DispatchReturns ImplementsParallelFor
CHECK_DEADLOCK FALSE
