\* Views and initial data of buffers, over two sessions.
SPECIFICATION AllSpec
CONSTANTS
  v1 = v1
  v2 = v2
  v3 = v3
  o1 = o1
  o2 = o2
  w1 = w1
  w2 = w2
  r1 = r1
  NullRes = NullRes
  Pad = Pad
  Garbage = Garbage
  NoData = NoData
  Vars <- MCVars
  Objects <- MCObjects
  ViewVars <- MCViewVars
  Ranges <- MCRanges
  Sizes <- MCSizes
  Programs <- MCPrograms
  GenMod = 4
  MaxGen = 4
  Sessions = 2
  UploadAlign = 2
  AddrMod = 6
  MaxViews = 2
  MaxCached = 3
  MaxViewGen = 2
  MaxUsedGen = 2
  MaxUploads = 2
SYMMETRY MCSymmetry
INVARIANTS TypeOK FreeListIsNullSlots ObjectsOwnedOnce ViewNamesItsBuffer OneViewPerDescription InitialDataArrives
PROPERTY HandleTableSpec
CHECK_DEADLOCK FALSE
