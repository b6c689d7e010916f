---------------------------- MODULE MCValidation ----------------------------
(* Two threads.  In one program the first records a list while the second  *)
(* creates and destroys what the list refers to; in the other both work    *)
(* with buffers, textures and descriptions.                                *)
EXTENDS Validation, TLC

CONSTANTS t1, t2, l1, b1, b2, x1, w1, p1

MCThreads == {t1, t2}
MCLists == {l1}
MCOwner == l1 :> t1
MCBuffers == {b1, b2}
MCTextures == {x1}
MCViews == {w1}
MCParent == w1 :> x1
MCPipelines == {p1}
MCPrograms ==
  {t1 :> ListOps \cup DrawOps \cup
         {"RegisterCommandList", "ValidateSetPipeline",
          "ValidateSetVertexBuffer", "ValidateSetIndexBuffer"} @@
   t2 :> {"RegisterBuffer", "UnregisterBuffer", "RegisterPipeline",
          "UnregisterPipeline", "ValidatePipeline"},
   t1 :> DescOps \cup
         {"ValidateBuffer", "OnBufferMap", "OnBufferUnmap",
          "ValidateBufferCopy", "ValidateBufferWrite", "ValidateTexture",
          "ValidateTextureView", "UnregisterTextureView"} @@
   t2 :> {"RegisterBuffer", "UnregisterBuffer", "OnBufferMap",
          "RegisterTexture", "UnregisterTexture", "RegisterTextureView"}}
MCReporting ==
  {t1 :> {"RegisterBuffer", "OnBufferMap"} @@ t2 :> {"UnregisterBuffer"}}
MCConfigs == {Categories} \cup
             {Categories \ {c} : c \in {"MEMORY", "COMMAND_LIST"}}
=============================================================================
