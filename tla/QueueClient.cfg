\* Every program of up to two submissions per queue, one of which may fail.
SPECIFICATION ClientSpec
CONSTANTS
  graphics = graphics
  compute = compute
  k1 = k1
  k2 = k2
  l1 = l1
  l2 = l2
  NoQueue = NoQueue
  Queues <- MCQueues
  VkQueues <- MCVkQueues
  CmdLists <- MCLists
  WaitSlots = 2
  MaxSubmits = 2
  MaxDeps = 3
  MaxFailures = 1
INVARIANTS ClientTypeOK HostKnowledgeSound NoDestroyedListInFlight DependenciesHonoured
PROPERTY CallsReturn
CHECK_DEADLOCK FALSE
