---------------------------- MODULE CommandLists ----------------------------
(***************************************************************************)
(* Pipelines, pipeline layouts (src/Vulkan/VK_Pipeline.cpp) and what a     *)
(* VulkanCommandList caches of them: setPipeline() copies the layout and   *)
(* its push constant ranges out of the pools, pushConstants() and          *)
(* setDescriptorSet() work from the copy and from the layout's handle.     *)
(* open() starts a recording and leaves the copy of the last one in place. *)
(*                                                                         *)
(* A pipeline that cannot be created takes the layout it was given with    *)
(* it, whoever else uses that layout.  Pipelines are never destroyed       *)
(* (VKDestroyPipeline is not implemented), so they are a sequence.         *)
(***************************************************************************)
EXTENDS Pool

CONSTANTS
  Lists,         \* the client's command lists
  LayoutVars,    \* its PipelineLayoutHandle variables
  Stages,        \* the shader stages
  RangeSeqs,     \* the push constant ranges a layout may have
  Pushes,        \* the <<offset, size>> pairs of pushConstants()
  MaxRanges,     \* MAX_PUSH_RANGES: 8 in the code
  Unset,         \* the members of a list before its first setPipeline()
  MaxLayouts,    \* bound: VkPipelineLayouts created
  MaxPipelines   \* bound: pipelines

ASSUME CommandListsAssumption ==
  /\ {MaxRanges, MaxLayouts, MaxPipelines} \subseteq Nat
  /\ MaxLayouts < GenMod
  /\ NullRes \notin [vk : Nat, ranges : RangeSeqs]
  /\ \A s \in RangeSeqs :
       /\ s \in Seq([off : Nat, size : Nat, stages : SUBSET Stages])
       /\ Len(s) <= MaxRanges
  /\ \A push \in Pushes : push[1] \in Nat /\ push[2] \in Nat \ {0}

VARIABLES
  layouts,       \* g_PipelineLayoutPool, of [vk, ranges]
  created,       \* VkPipelineLayouts created so far: 1 .. created
  destroyed,     \* the ones destroyed
  layoutOf,      \* the handle in each layout variable
  pipelines,     \* g_PipelinePool: the handle of the layout and, as history,
                 \* the layout the VkPipeline was made with
  lists          \* per list: see Fresh

vars == <<layouts, created, destroyed, layoutOf, pipelines, lists>>

NoPush == [pipeline |-> 0]

(* A list as Allocate() makes it.  pipeline is the one bound in the        *)
(* recording, 0 for none, and pushed the last vkCmdPushConstants; the rest *)
(* are the members m_CurrentPipelineLayoutHandle, m_BoundPipelineLayout,   *)
(* m_PushRanges and m_PushConstantStages, which nothing initialises.       *)
Fresh == [open |-> FALSE, pipeline |-> 0, pushed |-> NoPush,
          layout |-> InvalidHandle, bound |-> Unset, ranges |-> <<>>,
          stages |-> {}]

Init == /\ layouts = EmptyPool
        /\ created = 0
        /\ destroyed = {}
        /\ layoutOf = [v \in LayoutVars |-> InvalidHandle]
        /\ pipelines = <<>>
        /\ lists = [l \in Lists |-> Fresh]

Names(h) == IsAlive(layouts, h) /\ Get(layouts, h) # NullRes

-----------------------------------------------------------------------------
(* Layouts and pipelines.                                                  *)

VKCreatePipelineLayout(v, ranges) ==
  /\ created < MaxLayouts
  /\ created' = created + 1
  /\ layouts' = Allocated(layouts, [vk |-> created', ranges |-> ranges])
  /\ layoutOf' = [layoutOf EXCEPT ![v] = NewHandle(layouts)]
  /\ UNCHANGED <<destroyed, pipelines, lists>>

VKCreatePipelineLayoutFails(v) ==
  /\ layoutOf' = [layoutOf EXCEPT ![v] = InvalidHandle]
  /\ UNCHANGED <<layouts, created, destroyed, pipelines, lists>>

(* The client copies a handle, into the desc of another pipeline say.      *)
CopyLayout(v, w) ==
  /\ layoutOf' = [layoutOf EXCEPT ![w] = layoutOf[v]]
  /\ UNCHANGED <<layouts, created, destroyed, pipelines, lists>>

(* desc.layout is layoutOf[v].  Every pipeline is made with a layout: one  *)
(* whose slot is free has none, and the driver refuses.                    *)
VKCreateGraphicsPipeline(v) ==
  /\ Len(pipelines) < MaxPipelines
  /\ Names(layoutOf[v])
  /\ pipelines' = Append(pipelines, [layout |-> layoutOf[v],
                                     made   |-> Get(layouts, layoutOf[v])])
  /\ UNCHANGED <<layouts, created, destroyed, layoutOf, lists>>

(* "destroy the pipeline layout to avoid leaking it"; desc.layout is then  *)
(* the invalid handle.  Bug variant: without the test for VK_NULL_HANDLE,  *)
(* for the failure of a second pipeline with a copy of the handle.         *)
FailureFreesAny(v) ==
  /\ IsAlive(layouts, layoutOf[v])
  /\ Len(layouts.free) <= MaxLayouts
  /\ destroyed' = IF Names(layoutOf[v])
                  THEN destroyed \cup {Get(layouts, layoutOf[v]).vk}
                  ELSE destroyed
  /\ layouts' = Freed(layouts, layoutOf[v])
  /\ layoutOf' = [layoutOf EXCEPT ![v] = InvalidHandle]
  /\ UNCHANGED <<created, pipelines, lists>>

VKCreateGraphicsPipelineFails(v) ==
  /\ Names(layoutOf[v])
  /\ destroyed' = destroyed \cup {Get(layouts, layoutOf[v]).vk}
  /\ layouts' = Freed(layouts, layoutOf[v])
  /\ layoutOf' = [layoutOf EXCEPT ![v] = InvalidHandle]
  /\ UNCHANGED <<created, pipelines, lists>>

-----------------------------------------------------------------------------
(* Command lists.                                                          *)

Change(l, x) ==
  /\ lists' = [lists EXCEPT ![l] = x]
  /\ UNCHANGED <<layouts, created, destroyed, layoutOf, pipelines>>

open(l) ==
  /\ ~ lists[l].open
  /\ Change(l, [lists[l] EXCEPT !.open = TRUE, !.pipeline = 0, !.pushed = NoPush])

close(l) ==
  /\ lists[l].open
  /\ Change(l, [lists[l] EXCEPT !.open = FALSE])

(* Free() and a new Allocate().                                            *)
Reallocate(l) ==
  /\ ~ lists[l].open
  /\ Change(l, Fresh)

AllStages(ranges) == UNION {ranges[i].stages : i \in DOMAIN ranges}

(* Bug variants: the stages are not reset before they are gathered, the    *)
(* ranges are added to those of the last pipeline.                         *)
StagesGathered(x, ranges) == x.stages \cup AllStages(ranges)
StagesCached(x, ranges) == AllStages(ranges)

RangesAdded(x, ranges) == x.ranges \o ranges
RangesCached(x, ranges) == ranges

(* A layout whose slot is free is a VulkanPipelineLayout{}: no layout and  *)
(* no ranges.  For a dead handle everything cached stays.                  *)
LayoutCached(x, h) ==
  LET ranges == IF Names(h) THEN Get(layouts, h).ranges ELSE <<>>
  IN  IF ~ IsAlive(layouts, h) THEN x
      ELSE [x EXCEPT !.bound  = IF Names(h) THEN Get(layouts, h).vk ELSE NullRes,
                     !.ranges = RangesCached(x, ranges),
                     !.stages = StagesCached(x, ranges)]

setPipeline(l, p) ==
  /\ lists[l].open
  /\ Change(l, LayoutCached([lists[l] EXCEPT !.pipeline = p,
                                             !.layout = pipelines[p].layout],
                            pipelines[p].layout))

(* A range counts if it overlaps the bytes.  Bug variant: if it ends where *)
(* they begin, too.                                                        *)
OverlapsOrTouches(r, off, size) == r.off < off + size /\ r.off + r.size >= off
Overlaps(r, off, size) == r.off < off + size /\ r.off + r.size > off

(* The stages passed: found range by range if there are several, those of  *)
(* the only range otherwise.                                               *)
PushStages(x, off, size) ==
  IF Len(x.ranges) > 1
  THEN UNION {x.ranges[i].stages :
                i \in {j \in DOMAIN x.ranges : Overlaps(x.ranges[j], off, size)}}
  ELSE x.stages

(* Its assertions: a layout has been cached, by this recording or another, *)
(* and one of several ranges is overlapped.                                *)
pushConstants(l, off, size) ==
  LET x == lists[l]
  IN  /\ x.open
      /\ x.bound \notin {Unset, NullRes}
      /\ Len(x.ranges) > 1 => PushStages(x, off, size) # {}
      /\ Change(l, [x EXCEPT !.pushed = [pipeline |-> x.pipeline,
                                         layout   |-> x.bound,
                                         stages   |-> PushStages(x, off, size),
                                         off |-> off, size |-> size]])

-----------------------------------------------------------------------------
Next ==
  \/ \E v \in LayoutVars : \/ \E ranges \in RangeSeqs : VKCreatePipelineLayout(v, ranges)
                           \/ VKCreatePipelineLayoutFails(v)
                           \/ \E w \in LayoutVars : CopyLayout(v, w)
                           \/ VKCreateGraphicsPipeline(v)
                           \/ VKCreateGraphicsPipelineFails(v)
  \/ \E l \in Lists : \/ open(l)
                      \/ close(l)
                      \/ Reallocate(l)
                      \/ \E p \in DOMAIN pipelines : setPipeline(l, p)
                      \/ \E push \in Pushes : pushConstants(l, push[1], push[2])

Spec == Init /\ [][Next]_vars

-----------------------------------------------------------------------------
(* The pool holds layouts that were created; what a list caches is never   *)
(* more than MAX_PUSH_RANGES ranges.                                       *)
TypeOK ==
  /\ IsPool(layouts, [vk : 1 .. created, ranges : RangeSeqs])
  /\ created \in 0 .. MaxLayouts
  /\ destroyed \subseteq 1 .. created
  /\ layoutOf \in [LayoutVars -> [index : Nat, gen : Gens]]
  /\ \A p \in DOMAIN pipelines : pipelines[p].made.vk \in 1 .. created
  /\ \A l \in Lists : /\ lists[l].pipeline \in 0 .. Len(pipelines)
                      /\ lists[l].bound \in 1 .. created \cup {NullRes, Unset}
                      /\ Len(lists[l].ranges) <= MaxRanges

(* The pipeline a recording has bound, whatever was bound on the list in   *)
(* this recording or another before, and whatever layouts were lost to     *)
(* failed pipelines in between: unless its own layout was lost, what       *)
(* pushConstants and setDescriptorSet use is the layout it was made with.  *)
LayoutFollowsPipeline ==
  \A l \in Lists :
    LET x == lists[l]
    IN  x.pipeline # 0 /\ pipelines[x.pipeline].made.vk \notin destroyed =>
          LET made == pipelines[x.pipeline].made
          IN  /\ Names(x.layout) /\ Get(layouts, x.layout) = made
              /\ x.bound = made.vk
              /\ x.ranges = made.ranges

(* Bytes that lie inside each range they touch are pushed to exactly the   *)
(* stages whose ranges hold them, as vkCmdPushConstants demands.  (Bytes   *)
(* across the end of a range are not: an overlap is enough for the code,   *)
(* and with a single range not even that is tested.)                       *)
PushStagesExact ==
  \A l \in Lists :
    LET c == lists[l].pushed
    IN  c.pipeline # 0 /\ pipelines[c.pipeline].made.vk \notin destroyed =>
          LET ranges  == pipelines[c.pipeline].made.ranges
              Holds(i) == /\ ranges[i].off <= c.off
                          /\ c.off + c.size <= ranges[i].off + ranges[i].size
              Apart(i) == \/ ranges[i].off >= c.off + c.size
                          \/ ranges[i].off + ranges[i].size <= c.off
          IN  /\ \A i \in DOMAIN ranges : Holds(i) \/ Apart(i)
              /\ \E i \in DOMAIN ranges : Holds(i)
              => c.stages = UNION {ranges[i].stages :
                                     i \in {j \in DOMAIN ranges : Holds(j)}}
=============================================================================
