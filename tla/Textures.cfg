\* Textures, views, samplers and the swapchain's images, over two sessions.
SPECIFICATION Spec
CONSTANTS
  t1 = t1
  t2 = t2
  w1 = w1
  s1 = s1
  s2 = s2
  NullRes = NullRes
  Pad = Pad
  Garbage = Garbage
  NoData = NoData
  TexVars <- MCTexVars
  SwapVars <- MCSwapVars
  ViewVars <- MCViewVars
  SamVars <- MCSamVars
  Programs <- MCPrograms
  Sizes <- MCSizes
  OutcomeSeqs <- MCOutcomeSeqs
  Sessions = 2
  GenMod = 4
  MaxGen = 2
  MaxSamplerGen = 3
  MaxImages = 6
  MaxViews = 5
  MaxSamplers = 2
  UploadAlign = 2
  AddrMod = 6
SYMMETRY MCSymmetry
INVARIANTS TypeOK DriverCallsSound PoolsExact SwapchainConsistent OldSamplersDead TexturesReady
CHECK_DEADLOCK FALSE
