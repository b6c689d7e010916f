\* HelloCube: three frame slots, and a swapchain with an image more; one acquire may fail.
SPECIFICATION Spec
CONSTANTS
  Graphics = Graphics
  Compute = Compute
  k1 = k1
  k2 = k2
  Queues <- MCQueues
  VkQueues <- MCVkQueues
  WaitSlots = 4
  FrameCount = 3
  SemaphoreCount = 3
  ImageCount = 4
  FewestImages = 2
  MaxIterations = 5
  MaxAcquireFailures = 1
INVARIANTS TypeOK UniformNotInUse ListsNotInFlight AcquireSemaphoreUnused RenderSemaphoreUnused DestroyedWhenIdle
PROPERTIES RendersOwnedImage LoopAdvances
CHECK_DEADLOCK FALSE
