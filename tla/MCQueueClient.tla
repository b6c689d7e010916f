--------------------------- MODULE MCQueueClient ---------------------------
(* Two command queues on two VkQueues or on one, two command lists.      *)
EXTENDS QueueClient

CONSTANTS graphics, compute, k1, k2, l1, l2

MCQueues == {graphics, compute}
MCVkQueues == {k1, k2}
MCLists == {l1, l2}
=============================================================================
