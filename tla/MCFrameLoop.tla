---------------------------- MODULE MCFrameLoop ----------------------------
(* The two CommandQueues of HelloCube over one VkQueue or over two.        *)
EXTENDS FrameLoop

CONSTANTS k1, k2

MCQueues == {Graphics, Compute}
MCVkQueues == {k1, k2}
=============================================================================
