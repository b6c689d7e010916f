------------------------- MODULE MCDescriptorPools -------------------------
(* A program has pools in a heap, with different strides and the LINEAR    *)
(* one between the others, or it has one that is MANUAL, or it has two     *)
(* VkDescriptorPools, or one whose sets it writes to: two of them, or one  *)
(* with more writes than VKWriteSet() takes.                               *)
EXTENDS DescriptorPools, TLC

CONSTANTS linear, slots, more, manual, perFrame, persistent,
          drawn, filled,
          vk1, vk2, s1, s2, texture, buffer, sampler, v1, v2, v3

MCPools == {linear, slots, more, manual, perFrame, persistent, drawn,
            filled}
InAHeap == {linear, slots, more, manual}
MCSets == {s1, s2}
MCPrograms == {{linear, slots, more}, {linear, manual},
               {perFrame, persistent}, {drawn}, {filled}}
MCWrites == (drawn :> 2) @@ (filled :> 3) @@ [p \in MCPools |-> 0]

MCPolicy == [p \in MCPools |-> CASE p \in {linear, perFrame, drawn} -> "LINEAR"
                                 [] p = manual -> "MANUAL"
                                 [] OTHER -> "POOL"]
MCPath == [p \in MCPools |-> IF p \in InAHeap THEN "BUFFER" ELSE "SETS"]
MCCapacity == [p \in MCPools |-> IF p \in {linear, slots, persistent, drawn} THEN 2 ELSE 1]
MCStride == [p \in MCPools |-> CASE p = linear -> 2 [] p = more -> 3 [] OTHER -> 1]
MCHeapOffset == (slots :> 0) @@ (linear :> 2) @@ (more :> 6) @@ (manual :> 9)
                  @@ [p \in MCPools |-> 0]

MCVkSets == {vk1, vk2}
MCKind == (texture :> "texture") @@ (buffer :> "buffer") @@ (sampler :> "sampler")
MCViews == (texture :> {v1}) @@ (buffer :> {v2}) @@ (sampler :> {v3})
MCHandles == (texture :> {v1, Emptied, Stale}) @@ (buffer :> {v2, Orphan})
               @@ (sampler :> {v3})

(* The names of VkDescriptorSets, and of the client's variables, may be    *)
(* exchanged.                                                              *)
Alike == Permutations(MCVkSets) \cup Permutations(MCSets)
=============================================================================
