SPECIFICATION Spec
CONSTANTS
  ChunkSize = 4
  DefaultAlign = 2
  HeapAlign = 4
  Offsets = {0}
  Sizes <- SizesAround
  Alignments = {1, 4}
  MaxChunks = 2
  MaxSaves = 2
INVARIANTS BlocksDisjoint BlocksKept ChunksNotOverrun EveryChunkOnce TotalUsedExact
CHECK_DEADLOCK FALSE
