\* A list that records with pipelines whose creation may fail.
SPECIFICATION Spec
CONSTANTS
  l1 = l1
  v1 = v1
  v2 = v2
  NullRes = NullRes
  Unset = Unset
  Lists <- MCLists
  LayoutVars <- MCLayoutVars
  Stages <- MCStages
  RangeSeqs <- MCRangeSeqs
  Pushes <- MCPushes
  GenMod = 4
  MaxRanges = 2
  MaxLayouts = 3
  MaxPipelines = 2
SYMMETRY MCSymmetry
INVARIANTS TypeOK LayoutFollowsPipeline PushStagesExact
CHECK_DEADLOCK FALSE
