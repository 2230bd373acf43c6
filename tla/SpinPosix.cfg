SPECIFICATION Spec
CONSTANTS
  t1 = t1
  t2 = t2
  t3 = t3
  Threads <- MCThreads
  Primitive = "posix"
  MaxCalls = 2
INVARIANT RefCounted
