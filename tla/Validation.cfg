\* Programs of two threads, up to their first mistake.
SPECIFICATION Spec
CONSTANTS
  t1 = t1
  t2 = t2
  l1 = l1
  b1 = b1
  b2 = b2
  x1 = x1
  w1 = w1
  p1 = p1
  None = None
  Threads <- MCThreads
  Lists <- MCLists
  Owner <- MCOwner
  Buffers <- MCBuffers
  Textures <- MCTextures
  Views <- MCViews
  Parent <- MCParent
  Pipelines <- MCPipelines
  BufferSize = 2
  Values32 = 4
  Values64 = 4
  Offsets = {1, 2}
  Configs <- MCConfigs
  Programs <- MCPrograms
INVARIANTS TypeOK NoFalseReports MistakesNoticed
CHECK_DEADLOCK FALSE
