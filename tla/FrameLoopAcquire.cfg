\* One failing vkAcquireNextImageKHR stops the loop for ever.
SPECIFICATION Spec
CONSTANTS
  Graphics = Graphics
  Compute = Compute
  k1 = k1
  k2 = k2
  Queues <- MCQueues
  VkQueues <- MCVkQueues
  WaitSlots = 4
  FrameCount = 3
  SemaphoreCount = 3
  ImageCount = 4
  FewestImages = 2
  MaxIterations = 4
  MaxAcquireFailures = 1
PROPERTY SlotFinishes
CHECK_DEADLOCK FALSE
