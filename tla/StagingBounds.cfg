\* A recycled chunk hands out memory behind its end.
SPECIFICATION Spec
CONSTANTS
  Sizes <- MCSizes
  ChunkSize = 4
  Alignment = 2
  MaxChunks = 3
  MaxUploads = 4
INVARIANT RangesInBounds
CHECK_DEADLOCK FALSE
