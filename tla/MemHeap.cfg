CONSTANTS
  t1 = t1
  t2 = t2
  Threads = {t1, t2}
  Requests = {1, 4, 5, 7}
  Granule = 2
  NumClasses = 2
  Header = 2
  PageSize = 4
  SlabBytes = 8
  SlabBlocks = 2
  QuarantineSlots = 2
  LargeSlots = 1
  MaxBlocks = 5
  MaxAllocs = 4
  MaxInvalid = 1
SYMMETRY MCSymmetry
SPECIFICATION Spec
INVARIANTS EveryBlockOnce CountersExact MappingsAccounted WrittenNeverReused
PROPERTIES ReuseIsDelayed FailedGrowthKeeps
CHECK_DEADLOCK FALSE
