\* Two uploaders on two threads share the allocator.
SPECIFICATION Spec
CONSTANTS
  Sizes <- MCSizes
  ChunkSize = 4
  Alignment = 2
  MaxChunks = 3
  MaxUploads = 4
INVARIANTS TypeOK ChunkPlacedOnce LiveRangesDisjoint
CHECK_DEADLOCK FALSE
