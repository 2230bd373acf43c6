SPECIFICATION Spec
CONSTANTS
  t1 = t1
  t2 = t2
  Threads = {t1, t2}
  AddressLimit = 13
  Granule = 2
  MaxRegions = 6
  MaxGeneration = 3
  IdSpan = 8
  Blocks = {2, 6}
  Capacity = 4
  Sizes = {4}
  Locals <- MCLocals
  Literals <- MCLiterals
  Resizes <- MCResizes
  Stores <- MCStores
  Word = 2
INVARIANTS ChecksSound ChecksComplete RegistryExact ValuesFollowBytes
