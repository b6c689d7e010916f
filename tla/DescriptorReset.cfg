\* The LINEAR pool at a heap offset: a reset loses capacity.
SPECIFICATION Spec
CONSTANTS
  linear = linear
  slots = slots
  more = more
  manual = manual
  perFrame = perFrame
  persistent = persistent
  drawn = drawn
  filled = filled
  vk1 = vk1
  vk2 = vk2
  texture = texture
  buffer = buffer
  sampler = sampler
  v1 = v1
  v2 = v2
  v3 = v3
  s1 = s1
  s2 = s2
  NoPool = NoPool
  NoVkSet = NoVkSet
  NoView = NoView
  NullView = NullView
  Emptied = Emptied
  Stale = Stale
  Orphan = Orphan
  NullRes = NullRes
  GenMod = 4
  Pools <- MCPools
  Programs <- MCPrograms
  Policy <- MCPolicy
  Path <- MCPath
  Capacity <- MCCapacity
  Stride <- MCStride
  HeapOffset <- MCHeapOffset
  Sets <- MCSets
  VkSets <- MCVkSets
  Views <- MCViews
  Kind <- MCKind
  ViewHandles <- MCHandles
  MaxEntries = 3
  MaxGen = 2
  WriteCap = 2
  MaxWrites <- MCWrites
  MaxBatch = 2
SYMMETRY Alike
INVARIANT LinearCapacity
