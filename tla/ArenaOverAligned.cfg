SPECIFICATION Spec
CONSTANTS
  ChunkSize = 16
  DefaultAlign = 2
  HeapAlign = 4
  Offsets = {0, 1}
  Sizes <- SizesAround
  Alignments = {1, 8}
  MaxChunks = 3
  MaxSaves = 2
INVARIANT ChunksNotOverrun
CHECK_DEADLOCK FALSE
