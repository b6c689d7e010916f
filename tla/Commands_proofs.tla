--------------------------- MODULE Commands_proofs ---------------------------
(***************************************************************************)
(* What a command list caches, and what becomes of the lists submitted:    *)
(* the theorems about CommandLists and about QueueClient, two systems that *)
(* share no variable.                                                      *)
(*                                                                         *)
(* For every set of lists, layouts and push constant ranges, what a list   *)
(* caches is the layout of its pipeline, and constants are pushed to the   *)
(* stages whose ranges hold them.                                          *)
(*                                                                         *)
(* What a CommandQueue tells a program is true, for any number of queues,  *)
(* driver queues, lists, submissions and dependencies.  The argument is    *)
(* that the values pending on a VkQueue lie above its semaphores: a list   *)
(* in flight has a Timeline that nobody can have learned to be reached.    *)
(***************************************************************************)
EXTENDS CommandLists, QueueClient, Lemmas, FiniteSetTheorems


Layouts == [vk : 1 .. created, ranges : RangeSeqs]
Handles == [index : Nat, gen : Gens]

(* The shape of a list, which EXCEPT needs to be known.                    *)
IsList(x) == x = [open |-> x.open, pipeline |-> x.pipeline, pushed |-> x.pushed,
                  layout |-> x.layout, bound |-> x.bound, ranges |-> x.ranges,
                  stages |-> x.stages]

(* The pool is sound, and so are the variables; of the caches what TypeOK  *)
(* says of them.                                                           *)
TypeInv ==
  /\ PoolOK(layouts, Layouts)
  /\ created \in 0 .. MaxLayouts
  /\ destroyed \subseteq 1 .. created
  /\ layoutOf \in [LayoutVars -> Handles]
  /\ pipelines \in Seq([layout : Handles, made : Layouts])
  /\ lists = [l \in Lists |-> lists[l]]
  /\ \A l \in Lists : /\ IsList(lists[l])
                      /\ lists[l].pipeline \in 0 .. Len(pipelines)
                      /\ lists[l].bound \in 1 .. created \cup {NullRes, Unset}
                      /\ Len(lists[l].ranges) \in 0 .. MaxRanges

(* Each VkPipelineLayout in the pool is alive and in one slot.             *)
LayoutsOwned ==
  /\ \A i \in Occupied(layouts) : layouts.res[i].vk \notin destroyed
  /\ \A i, j \in Occupied(layouts) :
       layouts.res[i].vk = layouts.res[j].vk => i = j

(* The layout of a pipeline that is not destroyed is where it was.         *)
Kept(p) ==
  pipelines[p].made.vk \notin destroyed =>
    /\ Names(pipelines[p].layout)
    /\ Get(layouts, pipelines[p].layout) = pipelines[p].made

PipelinesKept == \A p \in DOMAIN pipelines : Kept(p)

(* The list has cached the layout of the pipeline it has bound.            *)
Follows(x) ==
  x.pipeline # 0 =>
    LET p == pipelines[x.pipeline]
    IN  p.made.vk \notin destroyed =>
          /\ x.layout = p.layout
          /\ x.bound = p.made.vk
          /\ x.ranges = p.made.ranges
          /\ x.stages = AllStages(p.made.ranges)

(* Constants went to the stages their ranges and the layout's order.       *)
StagesOf(ranges, off, size) ==
  IF Len(ranges) > 1
  THEN UNION {ranges[i].stages :
                i \in {j \in DOMAIN ranges : Overlaps(ranges[j], off, size)}}
  ELSE AllStages(ranges)

PushedRight(x) ==
  LET c == x.pushed
  IN  c.pipeline # 0 =>
        /\ c.pipeline \in DOMAIN pipelines
        /\ c.off \in Nat /\ c.size \in Nat \ {0}
        /\ pipelines[c.pipeline].made.vk \notin destroyed =>
             c.stages = StagesOf(pipelines[c.pipeline].made.ranges, c.off, c.size)

ListsFollow == \A l \in Lists : Follows(lists[l]) /\ PushedRight(lists[l])

(* The inductive invariant.                                                *)
IInv == TypeInv /\ LayoutsOwned /\ PipelinesKept /\ ListsFollow

-----------------------------------------------------------------------------
(* A pool of resources R is one of every larger set.                       *)
LEMMA PoolGrows ==
  ASSUME NEW R, NEW S, R \subseteq S, NEW p, PoolOK(p, R)
  PROVE  PoolOK(p, S)
BY DEF PoolOK, IsPool

(* What a pipeline is.                                                     *)
LEMMA PipelineType ==
  ASSUME TypeInv, NEW p \in DOMAIN pipelines
  PROVE  pipelines[p].layout \in Handles /\ pipelines[p].made \in Layouts
<1>1. pipelines \in Seq([layout : Handles, made : Layouts])
  BY DEF TypeInv
<1> DEFINE S == [layout : Handles, made : Layouts]
<1> HIDE DEF S
<1>2. p \in 1 .. Len(pipelines)
  BY <1>1, LenProperties DEF S
<1>3. pipelines[p] \in S
  BY <1>1, <1>2, ElementOfSeq DEF S
<1> QED
  BY <1>3 DEF S

(* No layout was created, no list recorded.                                *)
LEMMA InitIInv == Init => IInv
<1> SUFFICES ASSUME Init PROVE IInv
  OBVIOUS
<1>1. PoolOK(layouts, Layouts) /\ Occupied(layouts) = {}
  BY EmptyPoolOK DEF Init
<1>2. InvalidHandle \in Handles
  BY GenModAssumption DEF InvalidHandle, Handles, Gens
<1>3. TypeInv
  <2>1. layoutOf \in [LayoutVars -> Handles]
    BY <1>2 DEF Init
  <2>2. lists = [l \in Lists |-> lists[l]] /\ \A l \in Lists : lists[l] = Fresh
    BY DEF Init
  <2>3. IsList(Fresh) /\ Fresh.pipeline = 0 /\ Fresh.bound = Unset /\ Fresh.ranges = <<>>
    BY DEF Fresh, IsList
  <2>4. MaxLayouts \in Nat /\ MaxRanges \in Nat
    BY CommandListsAssumption
  <2>5. created = 0 /\ destroyed = {} /\ pipelines = <<>>
    BY DEF Init
  <2>6. \A l \in Lists : /\ IsList(lists[l])
                         /\ lists[l].pipeline \in 0 .. Len(pipelines)
                         /\ lists[l].bound \in 1 .. created \cup {NullRes, Unset}
                         /\ Len(lists[l].ranges) \in 0 .. MaxRanges
    BY <2>2, <2>3, <2>4, <2>5
  <2> QED
    BY <1>1, <2>1, <2>2, <2>4, <2>5, <2>6 DEF TypeInv
<1>4. LayoutsOwned
  BY <1>1 DEF LayoutsOwned
<1>5. PipelinesKept
  BY DEF PipelinesKept, Init
<1>6. ListsFollow
  BY DEF ListsFollow, Follows, PushedRight, Init, Fresh, NoPush
<1> QED
  BY <1>3, <1>4, <1>5, <1>6 DEF IInv

(* Nothing about the lists but what TypeInv says changes while the         *)
(* pipelines stay and layouts are only destroyed.                          *)
LEMMA ListsUntouched ==
  ASSUME IInv, UNCHANGED <<pipelines, lists>>, destroyed \subseteq destroyed'
  PROVE  ListsFollow'
<1> SUFFICES ASSUME NEW l \in Lists PROVE (Follows(lists[l]) /\ PushedRight(lists[l]))'
  BY DEF ListsFollow
<1>1. Follows(lists[l]) /\ PushedRight(lists[l])
  BY DEF IInv, ListsFollow
<1>2. Follows(lists[l])'
  BY <1>1 DEF Follows
<1>3. PushedRight(lists[l])'
  BY <1>1 DEF PushedRight
<1> QED
  BY <1>2, <1>3

(* A new layout takes an empty slot, so the layouts of pipelines stay.     *)
LEMMA CreateLayoutStep ==
  ASSUME IInv, NEW v \in LayoutVars, NEW ranges \in RangeSeqs,
         VKCreatePipelineLayout(v, ranges)
  PROVE  IInv'
<1> DEFINE r == [vk |-> created', ranges |-> ranges]
           s == NewHandle(layouts).index
<1>1. /\ created' = created + 1 /\ created < MaxLayouts
      /\ layouts' = Allocated(layouts, r)
      /\ UNCHANGED <<destroyed, pipelines, lists>>
  BY DEF VKCreatePipelineLayout
<1>2. created \in Nat /\ MaxLayouts \in Nat /\ created' \in 0 .. MaxLayouts
  BY <1>1, CommandListsAssumption DEF IInv, TypeInv
<1>3. r \in Layouts' /\ r # NullRes /\ Layouts \subseteq Layouts'
  BY <1>1, <1>2, CommandListsAssumption DEF Layouts
<1>4. PoolOK(layouts, Layouts) /\ PoolOK(layouts, Layouts')
  BY <1>3, PoolGrows DEF IInv, TypeInv
<1>5. /\ PoolOK(layouts', Layouts')
      /\ NewHandle(layouts) \in Handles
      /\ s \notin Occupied(layouts)
      /\ Occupied(layouts') = Occupied(layouts) \cup {s}
      /\ \A i \in Occupied(layouts) : /\ layouts'.res[i] = layouts.res[i]
                                      /\ layouts'.gen[i] = layouts.gen[i]
      /\ layouts'.res[s] = r
  BY <1>1, <1>3, <1>4, AllocatedOK DEF Handles
<1>6. r.vk = created + 1
  BY <1>1
<1> HIDE DEF r, s
<1>7. LayoutsOwned'
  <2>1. \A i \in Occupied(layouts) : layouts.res[i].vk \in 1 .. created
    BY <1>4 DEF PoolOK, IsPool, Occupied, Slots, Layouts
  <2>2. created + 1 \notin destroyed /\ \A i \in Occupied(layouts) : layouts.res[i].vk # created + 1
    BY <1>2, <2>1 DEF IInv, TypeInv
  <2> QED
    BY <1>1, <1>5, <1>6, <2>2 DEF IInv, LayoutsOwned
<1>8. PipelinesKept'
  <2> SUFFICES ASSUME NEW p \in DOMAIN pipelines, pipelines[p].made.vk \notin destroyed
               PROVE  /\ Names(pipelines[p].layout)'
                      /\ Get(layouts', pipelines[p].layout) = pipelines[p].made
    BY <1>1 DEF PipelinesKept, Kept
  <2> DEFINE h == pipelines[p].layout
  <2>1. h \in Handles
    BY PipelineType DEF IInv
  <2>2. Names(h) /\ Get(layouts, h) = pipelines[p].made
    BY DEF IInv, PipelinesKept, Kept
  <2>3. isValid(h) /\ h.index \in Occupied(layouts) /\ layouts.gen[h.index] = h.gen
    BY <1>4, <2>1, <2>2, NamesOccupied DEF Names, Handles
  <2>4. /\ h.index \in Occupied(layouts')
        /\ layouts'.gen[h.index] = h.gen
        /\ layouts'.res[h.index] = layouts.res[h.index]
    BY <1>5, <2>3
  <2>5. IsAlive(layouts', h) /\ Get(layouts', h) # NullRes
    BY <1>5, <2>1, <2>3, <2>4, NamesOccupied DEF Handles
  <2> HIDE DEF h
  <2>6. Names(h)' <=> IsAlive(layouts', h') /\ Get(layouts', h') # NullRes
    BY DEF Names
  <2> QED
    BY <1>1, <2>2, <2>4, <2>5, <2>6 DEF Get, h
<1>9. TypeInv'
  <2>1. layoutOf' \in [LayoutVars -> Handles]
    BY <1>5 DEF VKCreatePipelineLayout, IInv, TypeInv
  <2>2. 1 .. created \subseteq 1 .. created'
    BY <1>1, <1>2
  <2>3. pipelines' \in Seq([layout : Handles, made : Layouts'])
    <3>1. [layout : Handles, made : Layouts] \subseteq [layout : Handles, made : Layouts']
      BY <1>3
    <3> QED
      BY <1>1, <3>1, SeqMonotonic DEF IInv, TypeInv
  <2> QED
    BY <1>1, <1>2, <1>5, <2>1, <2>2, <2>3 DEF IInv, TypeInv, IsList
<1>10. ListsFollow'
  BY <1>1, ListsUntouched
<1> QED
  BY <1>7, <1>8, <1>9, <1>10 DEF IInv

(* The variables of the client are beside the point.                       *)
LEMMA VariableStep ==
  ASSUME IInv, layoutOf' \in [LayoutVars -> Handles],
         UNCHANGED <<layouts, created, destroyed, pipelines, lists>>
  PROVE  IInv'
<1>1. TypeInv'
  BY DEF IInv, TypeInv, Layouts, IsList
<1>2. LayoutsOwned' /\ PipelinesKept'
  BY DEF IInv, LayoutsOwned, PipelinesKept, Kept, Names
<1>3. ListsFollow'
  BY ListsUntouched
<1> QED
  BY <1>1, <1>2, <1>3 DEF IInv

(* A pipeline is made with the layout its handle names.                    *)
LEMMA PipelineStep ==
  ASSUME IInv, NEW v \in LayoutVars, VKCreateGraphicsPipeline(v)
  PROVE  IInv'
<1> DEFINE h == layoutOf[v]
           n == [layout |-> h, made |-> Get(layouts, h)]
<1>1. /\ Names(h)
      /\ pipelines' = Append(pipelines, n)
      /\ UNCHANGED <<layouts, created, destroyed, layoutOf, lists>>
  BY DEF VKCreateGraphicsPipeline
<1>2. h \in Handles /\ PoolOK(layouts, Layouts)
  BY DEF IInv, TypeInv
<1>3. h.index \in Occupied(layouts) /\ Get(layouts, h) \in Layouts
  <2>1. h.index \in Occupied(layouts)
    BY <1>1, <1>2, NamesOccupied DEF Names, Handles
  <2> QED
    BY <1>2, <2>1 DEF PoolOK, IsPool, Occupied, Slots, Get
<1>4. n \in [layout : Handles, made : Layouts]
  BY <1>2, <1>3
<1>5. n.layout = h /\ n.made = Get(layouts, h)
  OBVIOUS
<1>6. pipelines \in Seq([layout : Handles, made : Layouts])
  BY DEF IInv, TypeInv
<1> HIDE DEF h, n
<1>7. /\ pipelines' \in Seq([layout : Handles, made : Layouts])
      /\ Len(pipelines) \in Nat
      /\ Len(pipelines') = Len(pipelines) + 1
      /\ DOMAIN pipelines = 1 .. Len(pipelines)
      /\ DOMAIN pipelines' = 1 .. Len(pipelines) + 1
      /\ \A p \in 1 .. Len(pipelines) : pipelines'[p] = pipelines[p]
      /\ pipelines'[Len(pipelines) + 1] = n
  <2> DEFINE S == [layout : Handles, made : Layouts]
  <2> HIDE DEF S
  <2>1. pipelines \in Seq(S) /\ n \in S
    BY <1>4, <1>6 DEF S
  <2>2. /\ Append(pipelines, n) \in Seq(S)
        /\ Len(Append(pipelines, n)) = Len(pipelines) + 1
        /\ \A p \in 1 .. Len(pipelines) : Append(pipelines, n)[p] = pipelines[p]
        /\ Append(pipelines, n)[Len(pipelines) + 1] = n
    BY <2>1, AppendProperties
  <2>3. /\ Len(pipelines) \in Nat
        /\ DOMAIN pipelines = 1 .. Len(pipelines)
        /\ DOMAIN Append(pipelines, n) = 1 .. Len(Append(pipelines, n))
    BY <2>1, <2>2, LenProperties
  <2> QED
    BY <1>1, <2>1, <2>2, <2>3 DEF S
<1>8. \A l \in Lists : lists[l].pipeline \in 0 .. Len(pipelines)
  BY DEF IInv, TypeInv
<1>9. TypeInv'
  <2>1. \A l \in Lists : lists[l].pipeline \in 0 .. Len(pipelines')
    BY <1>7, <1>8
  <2> QED
    BY <1>1, <1>7, <2>1 DEF IInv, TypeInv, Layouts, IsList
<1>10. LayoutsOwned'
  BY <1>1 DEF IInv, LayoutsOwned
<1>11. PipelinesKept'
  <2> SUFFICES ASSUME NEW p \in DOMAIN pipelines' PROVE Kept(p)'
    BY DEF PipelinesKept
  <2>1. CASE p \in 1 .. Len(pipelines)
    <3>1. pipelines'[p] = pipelines[p] /\ Kept(p)
      BY <1>7, <2>1 DEF IInv, PipelinesKept
    <3> QED
      BY <1>1, <3>1 DEF Kept, Names
  <2>2. CASE p = Len(pipelines) + 1
    BY <1>1, <1>5, <1>7, <2>2 DEF Kept, Names
  <2> QED
    BY <1>7, <2>1, <2>2
<1>12. ListsFollow'
  <2> SUFFICES ASSUME NEW l \in Lists
               PROVE  Follows(lists[l])' /\ PushedRight(lists[l])'
    BY DEF ListsFollow
  <2>1. Follows(lists[l]) /\ PushedRight(lists[l])
    BY DEF IInv, ListsFollow
  <2>2. Follows(lists[l])'
    BY <1>1, <1>7, <1>8, <2>1 DEF Follows
  <2>3. PushedRight(lists[l])'
    BY <1>1, <1>7, <2>1 DEF PushedRight
  <2> QED
    BY <2>2, <2>3
<1> QED
  BY <1>9, <1>10, <1>11, <1>12 DEF IInv

(* A pipeline that cannot be created: its layout is in no other slot, so   *)
(* the pipelines made with another one keep theirs.                        *)
LEMMA PipelineFailsStep ==
  ASSUME IInv, NEW v \in LayoutVars, VKCreateGraphicsPipelineFails(v)
  PROVE  IInv'
<1> DEFINE h == layoutOf[v]
           s == layoutOf[v].index
           vk == Get(layouts, layoutOf[v]).vk
<1>1. /\ Names(h)
      /\ destroyed' = destroyed \cup {vk}
      /\ layouts' = Freed(layouts, h)
      /\ layoutOf' = [layoutOf EXCEPT ![v] = InvalidHandle]
      /\ UNCHANGED <<created, pipelines, lists>>
  BY DEF VKCreateGraphicsPipelineFails
<1>2. h \in Handles /\ PoolOK(layouts, Layouts)
  BY DEF IInv, TypeInv
<1>3. s \in Occupied(layouts)
  BY <1>1, <1>2, NamesOccupied DEF Names, Handles
<1>4. /\ PoolOK(layouts', Layouts)
      /\ Occupied(layouts') = Occupied(layouts) \ {s}
      /\ \A i \in Occupied(layouts') : layouts'.res[i] = layouts.res[i]
      /\ layouts'.gen = layouts.gen
  <2>1. layouts'.gen = layouts.gen
    BY <1>1 DEF Freed
  <2> QED
    BY <1>1, <1>2, <1>3, <2>1, FreedOK DEF Occupied
<1>5. vk = layouts.res[s].vk /\ vk \in 1 .. created
  <2>1. layouts.res[s] \in Layouts
    BY <1>2, <1>3 DEF PoolOK, IsPool, Occupied, Slots
  <2> QED
    BY <2>1 DEF Get, Layouts
<1> HIDE DEF h, s, vk
<1>6. LayoutsOwned'
  BY <1>1, <1>3, <1>4, <1>5 DEF IInv, LayoutsOwned
<1>7. PipelinesKept'
  <2> SUFFICES ASSUME NEW p \in DOMAIN pipelines, pipelines[p].made.vk \notin destroyed'
               PROVE  /\ Names(pipelines[p].layout)'
                      /\ Get(layouts', pipelines[p].layout) = pipelines[p].made
    BY <1>1 DEF PipelinesKept, Kept
  <2> DEFINE k == pipelines[p].layout
  <2>1. k \in Handles
    BY PipelineType DEF IInv
  <2>2. Names(k) /\ Get(layouts, k) = pipelines[p].made
    BY <1>1 DEF IInv, PipelinesKept, Kept
  <2>3. isValid(k) /\ k.index \in Occupied(layouts) /\ layouts.gen[k.index] = k.gen
    BY <1>2, <2>1, <2>2, NamesOccupied DEF Names, Handles
  <2>4. k.index # s
    BY <1>1, <1>5, <2>2 DEF Get
  <2>5. /\ k.index \in Occupied(layouts')
        /\ layouts'.gen[k.index] = k.gen
        /\ layouts'.res[k.index] = layouts.res[k.index]
    BY <1>4, <2>3, <2>4
  <2>6. IsAlive(layouts', k) /\ Get(layouts', k) # NullRes
    BY <1>4, <2>1, <2>3, <2>5, NamesOccupied DEF Handles
  <2> HIDE DEF k
  <2>7. Names(k)' <=> IsAlive(layouts', k') /\ Get(layouts', k') # NullRes
    BY DEF Names
  <2> QED
    BY <1>1, <2>2, <2>5, <2>6, <2>7 DEF Get, k
<1>8. TypeInv'
  <2>1. layoutOf' \in [LayoutVars -> Handles]
    <3>1. InvalidHandle \in Handles
      BY GenModAssumption DEF InvalidHandle, Handles, Gens
    <3> QED
      BY <1>1, <3>1 DEF IInv, TypeInv
  <2> QED
    BY <1>1, <1>4, <1>5, <2>1 DEF IInv, TypeInv, Layouts, IsList
<1>9. ListsFollow'
  BY <1>1, ListsUntouched
<1> QED
  BY <1>6, <1>7, <1>8, <1>9 DEF IInv

-----------------------------------------------------------------------------
(* What a call on a list has to establish of it.                           *)
GoodList(x) ==
  /\ IsList(x)
  /\ x.pipeline \in 0 .. Len(pipelines)
  /\ x.bound \in 1 .. created \cup {NullRes, Unset}
  /\ Len(x.ranges) \in 0 .. MaxRanges
  /\ Follows(x)
  /\ PushedRight(x)

(* The invariant, list by list.                                            *)
LEMMA ListsGood ==
  ASSUME IInv, NEW l \in Lists
  PROVE  GoodList(lists[l])
BY DEF IInv, TypeInv, ListsFollow, GoodList

(* A step that changes one list to a good one keeps the invariant.         *)
LEMMA ListStep ==
  ASSUME IInv, NEW l \in Lists, NEW x, GoodList(x), Change(l, x)
  PROVE  IInv'
<1>1. /\ lists' = [lists EXCEPT ![l] = x]
      /\ UNCHANGED <<layouts, created, destroyed, layoutOf, pipelines>>
  BY DEF Change
<1>2. lists = [k \in Lists |-> lists[k]]
  BY DEF IInv, TypeInv
<1>3. /\ lists' = [k \in Lists |-> lists'[k]]
      /\ \A k \in Lists : lists'[k] = IF k = l THEN x ELSE lists[k]
  BY <1>1, <1>2
<1>4. \A k \in Lists : GoodList(lists'[k])
  BY <1>3, ListsGood
<1>5. TypeInv'
  BY <1>1, <1>3, <1>4 DEF IInv, TypeInv, GoodList, Layouts, IsList
<1>6. LayoutsOwned' /\ PipelinesKept'
  BY <1>1 DEF IInv, LayoutsOwned, PipelinesKept, Kept, Names
<1>7. ListsFollow'
  <2> SUFFICES ASSUME NEW k \in Lists
               PROVE  Follows(lists[k])' /\ PushedRight(lists[k])'
    BY DEF ListsFollow
  <2>1. Follows(lists'[k]) /\ PushedRight(lists'[k])
    BY <1>4 DEF GoodList
  <2>2. Follows(lists[k])'
    BY <1>1, <2>1 DEF Follows
  <2>3. PushedRight(lists[k])'
    BY <1>1, <2>1 DEF PushedRight
  <2>4. QED BY <2>2, <2>3
<1> QED
  BY <1>5, <1>6, <1>7 DEF IInv

(* Nothing is bound in a new recording.                                    *)
LEMMA OpenStep ==
  ASSUME IInv, NEW l \in Lists, open(l)
  PROVE  IInv'
<1> DEFINE x == lists[l]
           y == [x EXCEPT !.open = TRUE, !.pipeline = 0, !.pushed = NoPush]
<1>1. GoodList(x) /\ Change(l, y)
  BY ListsGood DEF open
<1>a. y = [x EXCEPT !.open = TRUE, !.pipeline = 0, !.pushed = NoPush]
  OBVIOUS
<1> HIDE DEF x, y
<1>2. /\ IsList(y) /\ y.pipeline = 0 /\ y.pushed = NoPush
      /\ y.bound = x.bound /\ y.ranges = x.ranges
  BY <1>1, <1>a DEF GoodList, IsList
<1>3. GoodList(y)
  BY <1>1, <1>2 DEF GoodList, Follows, PushedRight, NoPush
<1> QED
  BY <1>1, <1>3, ListStep

(* close() keeps what the list has cached.                                 *)
LEMMA CloseStep ==
  ASSUME IInv, NEW l \in Lists, close(l)
  PROVE  IInv'
<1> DEFINE x == lists[l]
           y == [x EXCEPT !.open = FALSE]
<1>1. GoodList(x) /\ Change(l, y)
  BY ListsGood DEF close
<1>a. y = [x EXCEPT !.open = FALSE]
  OBVIOUS
<1> HIDE DEF x, y
<1>2. /\ IsList(y) /\ y.pipeline = x.pipeline /\ y.pushed = x.pushed
      /\ y.layout = x.layout /\ y.bound = x.bound
      /\ y.ranges = x.ranges /\ y.stages = x.stages
  BY <1>1, <1>a DEF GoodList, IsList
<1>3. GoodList(y)
  BY <1>1, <1>2 DEF GoodList, Follows, PushedRight
<1> QED
  BY <1>1, <1>3, ListStep

(* A list allocated again has cached nothing.                              *)
LEMMA ReallocateStep ==
  ASSUME IInv, NEW l \in Lists, Reallocate(l)
  PROVE  IInv'
<1>1. Change(l, Fresh)
  BY DEF Reallocate
<1>2. /\ IsList(Fresh) /\ Fresh.pipeline = 0 /\ Fresh.pushed.pipeline = 0
      /\ Fresh.bound = Unset /\ Fresh.ranges = <<>>
  BY DEF Fresh, NoPush, IsList
<1>3. MaxRanges \in Nat /\ Len(lists[l].ranges) \in 0 .. MaxRanges
  BY CommandListsAssumption DEF IInv, TypeInv
<1>4. 0 \in 0 .. Len(pipelines)
  BY LenProperties DEF IInv, TypeInv
<1>5. GoodList(Fresh)
  BY <1>2, <1>3, <1>4 DEF GoodList, Follows, PushedRight
<1> QED
  BY <1>1, <1>5, ListStep

(* The layout of the pipeline is cached, or nothing if its slot was        *)
(* emptied.                                                                *)
LEMMA SetPipelineStep ==
  ASSUME IInv, NEW l \in Lists, NEW p \in DOMAIN pipelines, setPipeline(l, p)
  PROVE  IInv'
<1> DEFINE h == pipelines[p].layout
           z == lists[l]
           x == [z EXCEPT !.pipeline = p, !.layout = h]
           y == LayoutCached(x, h)
<1>1. GoodList(z) /\ Change(l, y)
  BY ListsGood DEF setPipeline
<1>a. x = [z EXCEPT !.pipeline = p, !.layout = h]
  OBVIOUS
<1> HIDE DEF z, h, x
<1>2. /\ IsList(x) /\ x.pipeline = p /\ x.layout = h
      /\ x.pushed = z.pushed /\ x.bound = z.bound /\ x.ranges = z.ranges
  BY <1>1, <1>a DEF GoodList, IsList
<1>3. p \in 0 .. Len(pipelines)
  BY LenProperties DEF IInv, TypeInv
<1>4. h \in Handles /\ PoolOK(layouts, Layouts) /\ Kept(p)
  BY PipelineType DEF IInv, TypeInv, PipelinesKept, h
<1>5. ASSUME Names(h)
      PROVE  /\ Get(layouts, h).vk \in 1 .. created
             /\ Get(layouts, h).ranges \in RangeSeqs
  <2>1. h.index \in Occupied(layouts)
    BY <1>4, <1>5, NamesOccupied DEF Names, Handles
  <2>2. Get(layouts, h) \in Layouts
    BY <1>4, <2>1 DEF PoolOK, IsPool, Occupied, Slots, Get
  <2> QED
    BY <2>2 DEF Layouts
<1> DEFINE bound  == IF Names(h) THEN Get(layouts, h).vk ELSE NullRes
           ranges == IF Names(h) THEN Get(layouts, h).ranges ELSE <<>>
<1>6. y = IF ~ IsAlive(layouts, h) THEN x
          ELSE [x EXCEPT !.bound = bound, !.ranges = ranges,
                         !.stages = AllStages(ranges)]
  BY DEF LayoutCached, RangesCached, StagesCached
<1>7. bound \in 1 .. created \cup {NullRes} /\ Len(ranges) \in 0 .. MaxRanges
  <2>1. CASE Names(h)
    <3>1. bound \in 1 .. created /\ ranges \in RangeSeqs
      BY <1>5, <2>1
    <3>2. /\ MaxRanges \in Nat /\ Len(ranges) <= MaxRanges
          /\ ranges \in Seq([off : Nat, size : Nat, stages : SUBSET Stages])
      BY <3>1, CommandListsAssumption
    <3>3. Len(ranges) \in Nat
      BY <3>2, LenProperties
    <3> QED
      BY <3>1, <3>2, <3>3
  <2>2. CASE ~ Names(h)
    BY <2>2, CommandListsAssumption
  <2> QED
    BY <2>1, <2>2
<1>8. pipelines[p].made.vk \notin destroyed =>
        /\ IsAlive(layouts, h) /\ Names(h)
        /\ bound = pipelines[p].made.vk /\ ranges = pipelines[p].made.ranges
  BY <1>4 DEF Kept, Names, h
<1> HIDE DEF y, bound, ranges
<1>9. /\ IsList(y) /\ y.pipeline = p /\ y.layout = h /\ y.pushed = z.pushed
      /\ IF ~ IsAlive(layouts, h)
         THEN y.bound = z.bound /\ y.ranges = z.ranges
         ELSE y.bound = bound /\ y.ranges = ranges /\ y.stages = AllStages(ranges)
  BY <1>2, <1>6 DEF IsList
<1>10. /\ y.bound \in 1 .. created \cup {NullRes, Unset}
       /\ Len(y.ranges) \in 0 .. MaxRanges
  BY <1>1, <1>7, <1>9 DEF GoodList
<1>11. Follows(y)
  BY <1>8, <1>9 DEF Follows, h
<1>12. PushedRight(y)
  BY <1>1, <1>9 DEF GoodList, PushedRight
<1>13. GoodList(y)
  BY <1>3, <1>9, <1>10, <1>11, <1>12 DEF GoodList
<1> QED
  BY <1>1, <1>13, ListStep

(* What is cached is the layout of the pipeline, so its ranges decide.     *)
LEMMA PushStep ==
  ASSUME IInv, NEW l \in Lists, NEW push \in Pushes,
         pushConstants(l, push[1], push[2])
  PROVE  IInv'
<1> DEFINE x == lists[l]
           off == push[1]
           size == push[2]
           c == [pipeline |-> x.pipeline, layout |-> x.bound,
                 stages |-> PushStages(x, off, size), off |-> off, size |-> size]
           y == [x EXCEPT !.pushed = c]
<1>1. GoodList(x) /\ Change(l, y)
  BY ListsGood DEF pushConstants
<1>2. off \in Nat /\ size \in Nat \ {0}
  BY CommandListsAssumption
<1>3. /\ c.pipeline = x.pipeline /\ c.off = off /\ c.size = size
      /\ c.stages = PushStages(x, off, size)
  OBVIOUS
<1> HIDE DEF c
<1>4. /\ IsList(y) /\ y.pipeline = x.pipeline /\ y.pushed = c
      /\ y.layout = x.layout /\ y.bound = x.bound
      /\ y.ranges = x.ranges /\ y.stages = x.stages
  BY <1>1 DEF GoodList, IsList
<1> HIDE DEF x, y, off, size
<1>5. Follows(y)
  BY <1>1, <1>4 DEF GoodList, Follows
<1>6. PushedRight(y)
  <2> SUFFICES ASSUME c.pipeline # 0
               PROVE  /\ c.pipeline \in DOMAIN pipelines
                      /\ pipelines[c.pipeline].made.vk \notin destroyed =>
                           c.stages = StagesOf(pipelines[c.pipeline].made.ranges,
                                               off, size)
    BY <1>2, <1>3, <1>4 DEF PushedRight
  <2>1. c.pipeline \in DOMAIN pipelines
    <3>1. x.pipeline \in 0 .. Len(pipelines)
      BY <1>1 DEF GoodList
    <3>2. Len(pipelines) \in Nat /\ DOMAIN pipelines = 1 .. Len(pipelines)
      BY LenProperties DEF IInv, TypeInv
    <3> QED
      BY <1>3, <3>1, <3>2
  <2>2. ASSUME pipelines[c.pipeline].made.vk \notin destroyed
        PROVE  c.stages = StagesOf(pipelines[c.pipeline].made.ranges, off, size)
    <3>1. /\ x.ranges = pipelines[c.pipeline].made.ranges
          /\ x.stages = AllStages(x.ranges)
      BY <1>1, <1>3, <2>2 DEF GoodList, Follows
    <3>2. PushStages(x, off, size) = StagesOf(x.ranges, off, size)
      BY <3>1 DEF PushStages, StagesOf
    <3> QED
      BY <1>3, <3>1, <3>2
  <2> QED
    BY <2>1, <2>2
<1>7. GoodList(y)
  BY <1>1, <1>4, <1>5, <1>6 DEF GoodList
<1> QED
  BY <1>1, <1>7, ListStep

(* So the invariant is inductive.                                          *)
LEMMA NextIInv == IInv /\ [Next]_vars => IInv'
<1> SUFFICES ASSUME IInv, [Next]_vars PROVE IInv'
  OBVIOUS
<1>1. InvalidHandle \in Handles
  BY GenModAssumption DEF InvalidHandle, Handles, Gens
<1>2. ASSUME NEW v \in LayoutVars, NEW ranges \in RangeSeqs,
             VKCreatePipelineLayout(v, ranges)
      PROVE  IInv'
  BY <1>2, CreateLayoutStep
<1>3. ASSUME NEW v \in LayoutVars, VKCreatePipelineLayoutFails(v)
      PROVE  IInv'
  <2>1. layoutOf' \in [LayoutVars -> Handles]
    BY <1>1, <1>3 DEF VKCreatePipelineLayoutFails, IInv, TypeInv
  <2> QED
    BY <1>3, <2>1, VariableStep DEF VKCreatePipelineLayoutFails
<1>4. ASSUME NEW v \in LayoutVars, NEW w \in LayoutVars, CopyLayout(v, w)
      PROVE  IInv'
  <2>1. layoutOf' \in [LayoutVars -> Handles]
    BY <1>4 DEF CopyLayout, IInv, TypeInv
  <2> QED
    BY <1>4, <2>1, VariableStep DEF CopyLayout
<1>5. ASSUME NEW v \in LayoutVars, VKCreateGraphicsPipeline(v)
      PROVE  IInv'
  BY <1>5, PipelineStep
<1>6. ASSUME NEW v \in LayoutVars, VKCreateGraphicsPipelineFails(v)
      PROVE  IInv'
  BY <1>6, PipelineFailsStep
<1>7. ASSUME NEW l \in Lists, open(l) \/ close(l) \/ Reallocate(l)
      PROVE  IInv'
  BY <1>7, OpenStep, CloseStep, ReallocateStep
<1>8. ASSUME NEW l \in Lists, NEW p \in DOMAIN pipelines, setPipeline(l, p)
      PROVE  IInv'
  BY <1>8, SetPipelineStep
<1>9. ASSUME NEW l \in Lists, NEW push \in Pushes,
             pushConstants(l, push[1], push[2])
      PROVE  IInv'
  BY <1>9, PushStep
<1>10. CASE UNCHANGED vars
  <2>1. layoutOf' \in [LayoutVars -> Handles]
    BY <1>10 DEF vars, IInv, TypeInv
  <2> QED
    BY <1>10, <2>1, VariableStep DEF vars
<1> QED
  BY <1>2, <1>3, <1>4, <1>5, <1>6, <1>7, <1>8, <1>9, <1>10 DEF Next

(* IInv holds in every reachable state.                                    *)
LEMMA Invariance == Spec => []IInv
  BY InitIInv, NextIInv, PTL DEF Spec

-----------------------------------------------------------------------------
(* The pool stays a pool of layouts that were created, and a list never    *)
(* caches more than MAX_PUSH_RANGES ranges.                                *)
THEOREM TypeCorrect == Spec => []TypeOK
<1>1. IInv => TypeOK
  <2> SUFFICES ASSUME IInv PROVE TypeOK
    OBVIOUS
  <2>1. IsPool(layouts, [vk : 1 .. created, ranges : RangeSeqs])
    BY DEF IInv, TypeInv, PoolOK, Layouts
  <2>2. layoutOf \in [LayoutVars -> [index : Nat, gen : Gens]]
    BY DEF IInv, TypeInv, Handles
  <2>3. \A p \in DOMAIN pipelines : pipelines[p].made.vk \in 1 .. created
    BY PipelineType DEF IInv, Layouts
  <2>4. \A l \in Lists : Len(lists[l].ranges) <= MaxRanges
    BY CommandListsAssumption DEF IInv, TypeInv
  <2> QED
    BY <2>1, <2>2, <2>3, <2>4 DEF IInv, TypeInv, TypeOK
<1> QED
  BY <1>1, Invariance, PTL

(* What a recording pushes constants and binds sets with is the layout its *)
(* pipeline was made with, unless a failed pipeline destroyed that layout. *)
THEOREM LayoutCorrect == Spec => []LayoutFollowsPipeline
<1>1. IInv => LayoutFollowsPipeline
  <2> SUFFICES ASSUME IInv, NEW l \in Lists, lists[l].pipeline # 0,
                      pipelines[lists[l].pipeline].made.vk \notin destroyed
               PROVE  LET x == lists[l]
                          made == pipelines[x.pipeline].made
                      IN  /\ Names(x.layout) /\ Get(layouts, x.layout) = made
                          /\ x.bound = made.vk
                          /\ x.ranges = made.ranges
    BY DEF LayoutFollowsPipeline
  <2>1. Follows(lists[l])
    BY DEF IInv, ListsFollow
  <2>2. lists[l].pipeline \in DOMAIN pipelines
    BY LenProperties DEF IInv, TypeInv
  <2>3. Kept(lists[l].pipeline)
    BY <2>2 DEF IInv, PipelinesKept
  <2> QED
    BY <2>1, <2>3 DEF Follows, Kept
<1> QED
  BY <1>1, Invariance, PTL

(* An overlap is no more than it should be where bytes lie in a range or   *)
(* outside it: constants are pushed to exactly the stages that read them.  *)
THEOREM PushCorrect == Spec => []PushStagesExact
<1>1. IInv => PushStagesExact
  <2> SUFFICES ASSUME IInv, NEW l \in Lists PROVE
        LET c == lists[l].pushed
        IN  c.pipeline # 0 /\ pipelines[c.pipeline].made.vk \notin destroyed =>
              LET ranges  == pipelines[c.pipeline].made.ranges
                  Holds(i) == /\ ranges[i].off <= c.off
                              /\ c.off + c.size <= ranges[i].off + ranges[i].size
                  Apart(i) == \/ ranges[i].off >= c.off + c.size
                              \/ ranges[i].off + ranges[i].size <= c.off
              IN  /\ \A i \in DOMAIN ranges : Holds(i) \/ Apart(i)
                  /\ \E i \in DOMAIN ranges : Holds(i)
                  => c.stages = UNION {ranges[i].stages :
                                         i \in {j \in DOMAIN ranges : Holds(j)}}
    BY DEF PushStagesExact
  <2> DEFINE c == lists[l].pushed
             ranges == pipelines[c.pipeline].made.ranges
             Holds(i) == /\ ranges[i].off <= c.off
                         /\ c.off + c.size <= ranges[i].off + ranges[i].size
             Apart(i) == \/ ranges[i].off >= c.off + c.size
                         \/ ranges[i].off + ranges[i].size <= c.off
             Held == {j \in DOMAIN ranges : Holds(j)}
  <2> SUFFICES ASSUME c.pipeline # 0,
                      pipelines[c.pipeline].made.vk \notin destroyed,
                      \A i \in DOMAIN ranges : Holds(i) \/ Apart(i),
                      \E i \in DOMAIN ranges : Holds(i)
               PROVE  c.stages = UNION {ranges[i].stages : i \in Held}
    OBVIOUS
  <2>1. /\ c.pipeline \in DOMAIN pipelines
        /\ c.off \in Nat /\ c.size \in Nat \ {0}
        /\ c.stages = StagesOf(ranges, c.off, c.size)
    BY DEF IInv, ListsFollow, PushedRight
  <2>2. ranges \in RangeSeqs
    BY <2>1, PipelineType DEF IInv, Layouts
  <2>3. ranges \in Seq([off : Nat, size : Nat, stages : SUBSET Stages])
    BY <2>2, CommandListsAssumption
  <2>4. DOMAIN ranges = 1 .. Len(ranges) /\ Len(ranges) \in Nat
    BY <2>3, LenProperties
  <2>5. \A i \in DOMAIN ranges : ranges[i] \in [off : Nat, size : Nat, stages : SUBSET Stages]
    BY <2>3, <2>4, ElementOfSeq
  <2> HIDE DEF c, ranges
  <2>6. \A i \in DOMAIN ranges : Overlaps(ranges[i], c.off, c.size) <=> Holds(i)
    <3> SUFFICES ASSUME NEW i \in DOMAIN ranges
                 PROVE  Overlaps(ranges[i], c.off, c.size) <=> Holds(i)
      OBVIOUS
    <3>1. /\ ranges[i].off \in Nat /\ ranges[i].size \in Nat
          /\ c.off \in Nat /\ c.size \in Nat /\ c.size > 0
      BY <2>1, <2>5
    <3>2. Holds(i) \/ Apart(i)
      OBVIOUS
    <3>3. Apart(i) => ~ Overlaps(ranges[i], c.off, c.size)
      BY <3>1 DEF Overlaps
    <3> QED
      BY <3>1, <3>2, <3>3 DEF Overlaps
  <2>7. CASE Len(ranges) > 1
    BY <2>1, <2>6, <2>7 DEF StagesOf
  <2>8. CASE ~ (Len(ranges) > 1)
    <3>1. Held = DOMAIN ranges
      BY <2>4, <2>8
    <3> QED
      BY <2>1, <2>8, <3>1 DEF StagesOf, AllStages
  <2> QED
    BY <2>7, <2>8
<1> QED
  BY <1>1, Invariance, PTL

-----------------------------------------------------------------------------
(* What the device works on, and what the program has concluded of it.     *)
Timelines == [queue : Queues, value : Nat]

Batches == [queue : Queues, value : Nat \ {0}, list : CmdLists,
            waits : SUBSET Timelines, waitSem : {{}}, signalSem : {{}}]

ClientType ==
  /\ home \in [CmdLists -> Queues \cup {NoQueue}]
  /\ last \in [CmdLists -> [queue : Queues \cup {NoQueue}, value : Nat]]
  /\ reusable \subseteq {l \in CmdLists : home[l] # NoQueue}
  /\ call \in {NoCall, Undefined} \cup [op : {"Wait"}, t : Timelines]
                       \cup [op : {"WaitIdle", "Destroy"}, queue : Queues]

(* A list in flight is one the program does not believe done, still has    *)
(* its home, and was submitted last with the batch that is in flight.      *)
ListKnown(b) == /\ b.list \notin reusable
                /\ home[b.list] = b.queue
                /\ last[b.list] = BatchTimeline(b)

ListsKnown == \A b \in Pending : ListKnown(b)

(* The dependencies of a submission are waits of its batch.                *)
WaitsKept ==
  \A p \in after :
    /\ p \in Timelines \X Timelines
    /\ p[1].value <= submitted[p[1].queue]
    /\ p[2].value <= submitted[p[2].queue]
    /\ \A b \in Pending : BatchTimeline(b) = p[1] => p[2] \in b.waits

Counts == /\ \A q \in Queues : submitted[q] <= MaxSubmits
          /\ waitCount \in [Queues -> Nat]

(* The queues of QueueClient, as the lemmas about FIFOs see them.          *)
QueueType(B) == QueuesTyped(Queues, VkQueues, B, vkQueue, submitted, semaphore, work)

WorkOrdered == Ordered(VkQueues, vkQueue, submitted, semaphore, work)

(* The inductive invariant: the order of the queues' work, what the        *)
(* program knows of the lists, and what became of the dependencies.        *)
ClientIInv ==
  /\ QueueType(Batches) /\ WorkOrdered /\ Counts
  /\ ClientType /\ ListsKnown
  /\ WaitsKept /\ DependenciesHonoured

-----------------------------------------------------------------------------
(* A batch of a client is one of the queues'.                              *)
LEMMA TheyAreBatches == AreBatches(Queues, Batches)
BY DEF AreBatches, Batches

(* The batches pending are those of its FIFOs.                             *)
LEMMA PendingIs ==
  Pending = InFifos(VkQueues, work) /\ Pending' = InFifos(VkQueues, work')
BY DEF Pending, Items, InFifos

(* What a pending batch is.                                                *)
LEMMA PendingBatch ==
  ASSUME ClientIInv, NEW b \in Pending
  PROVE  /\ b \in Batches /\ ListKnown(b)
         /\ semaphore[b.queue] < b.value /\ b.value <= submitted[b.queue]
<1>1. QueueType(Batches) /\ WorkOrdered /\ ListsKnown
  BY DEF ClientIInv
<1>2. /\ b \in Batches
      /\ b.value # 0 => /\ semaphore[b.queue] < b.value
                        /\ b.value <= submitted[b.queue]
  BY <1>1, PendingIs, FifoFacts DEF QueueType, WorkOrdered
<1>3. QED BY <1>1, <1>2 DEF Batches, ListsKnown

(* A Timeline that was returned is one, and its value was counted.         *)
LEMMA ReturnedFacts ==
  ASSUME QueueType(Batches), NEW t \in Returned
  PROVE  t \in Timelines /\ t.value <= submitted[t.queue]
BY DEF Returned, Timeline, Timelines, QueueType, QueuesTyped

(* The Timelines a submission depends on are returned ones, of another     *)
(* queue, and there are finitely many.                                     *)
LEMMA DepsFacts ==
  ASSUME ClientIInv, NEW q \in Queues, NEW deps \in DepSets(q)
  PROVE  /\ deps \in SUBSET Timelines
         /\ \A d \in deps : d.value <= submitted[d.queue]
         /\ WaitsUsed(deps, {}) \in Nat
<1> USE ClientAssumption
<1>1. deps \subseteq Returned
  BY DEF DepSets
<1>2. deps \in SUBSET Timelines /\ \A d \in deps : d.value <= submitted[d.queue]
  BY <1>1, ReturnedFacts DEF ClientIInv
<1>3. IsFiniteSet(deps)
  <2> DEFINE P == Queues \X (1 .. MaxSubmits)
             f == [p \in P |-> Timeline(p[1], p[2])]
             T == {f[p] : p \in P}
  <2>1. IsFiniteSet(P)
    <3>1. IsFiniteSet(1 .. MaxSubmits)
      BY FS_Interval
    <3>2. QED BY <3>1, FS_Product
  <2>2. f \in Surjection(P, T)
    BY DEF Surjection
  <2>3. IsFiniteSet(T)
    BY <2>1, <2>2, FS_Surjection
  <2>4. ASSUME NEW r \in Queues, NEW n \in 1 .. submitted[r]
        PROVE  Timeline(r, n) \in T
    <3>1. <<r, n>> \in P
      BY DEF ClientIInv, QueueType, QueuesTyped, Counts
    <3>2. f[<<r, n>>] = Timeline(r, n)
      BY <3>1
    <3>3. QED BY <3>1, <3>2
  <2>5. Returned \subseteq T
    BY <2>4 DEF Returned
  <2>6. deps \subseteq T
    BY <1>1, <2>5
  <2>7. QED BY <2>3, <2>6, FS_Subset
<1>4. Cardinality(deps) \in Nat /\ Cardinality({}) = 0
  BY <1>3, FS_CardinalityType, FS_EmptySet
<1>5. QED
  BY <1>2, <1>4 DEF WaitsUsed

-----------------------------------------------------------------------------
(* Nothing was submitted, no list allocated.                               *)
LEMMA InitClientIInv == ClientInit => ClientIInv
<1> SUFFICES ASSUME ClientInit PROVE ClientIInv
  OBVIOUS
<1> USE DEF ClientInit, QueueInit
<1>1. \A k \in VkQueues : work[k] = <<>> /\ Len(work[k]) = 0
  BY EmptySeq
<1>2. Pending = {}
  BY <1>1 DEF Pending, Items
<1>3. QueueType(Batches)
  BY EmptySeq DEF QueueType, QueuesTyped
<1>4. WorkOrdered
  BY <1>1 DEF WorkOrdered, Ordered
<1>5. Counts
  BY ClientAssumption DEF Counts
<1>6. ClientType
  BY DEF ClientType, Timeline, NoCall
<1>7. QED
  BY <1>2, <1>3, <1>4, <1>5, <1>6
     DEF ClientIInv, ListsKnown, WaitsKept, DependenciesHonoured

(* A new batch has a value no Timeline of before has.                      *)
LEMMA SubmitListStep ==
  ASSUME ClientIInv, NEW q \in Queues, NEW l \in CmdLists, NEW deps \in DepSets(q),
         SubmitList(q, l, deps)
  PROVE  ClientIInv'
<1> PICK b : b = Batch(q, l, deps, {}, {})
  OBVIOUS
<1> PICK t : t = Timeline(q, SignalValue(q))
  OBVIOUS
<1>1. /\ call = NoCall /\ submitted[q] < MaxSubmits
      /\ home[l] = q /\ l \in reusable
      /\ Submit(q, l, deps, {}, {})
      /\ last' = [last EXCEPT ![l] = t]
      /\ reusable' = reusable \ {l}
      /\ after' = after \cup {<<t, d>> : d \in deps}
      /\ UNCHANGED <<home, call, failed>>
  BY DEF SubmitList, CanSubmit
<1>2. /\ submitted' = [submitted EXCEPT ![q] = @ + 1]
      /\ waitCount' = [waitCount EXCEPT ![q] = WaitsUsed(deps, {})]
      /\ work' = [work EXCEPT ![vkQueue[q]] = Append(@, b)]
      /\ UNCHANGED <<vkQueue, semaphore>>
  BY <1>1 DEF Submit, CountSubmission
<1>3. /\ QueueType(Batches) /\ WorkOrdered /\ Counts /\ ClientType
      /\ ListsKnown /\ WaitsKept /\ DependenciesHonoured
  BY DEF ClientIInv
<1>4. /\ submitted[q] \in Nat /\ vkQueue[q] \in VkQueues
      /\ work \in [VkQueues -> Seq(Batches)]
  BY <1>3 DEF QueueType, QueuesTyped
<1>5. /\ b \in Batches /\ b.queue = q /\ b.value = submitted[q] + 1
      /\ b.list = l /\ b.waits = deps /\ BatchTimeline(b) = t
      /\ t \in Timelines /\ t.queue = q /\ t.value = submitted[q] + 1
  <2>1. TimelineWaits(q, deps) = deps
    BY DepsFacts DEF TimelineWaits, Timeline, Timelines
  <2>2. QED
    BY <1>4, <2>1, DepsFacts
       DEF Batch, Batches, SignalValue, Timeline, Timelines, BatchTimeline
<1>6. Appended(VkQueues, Batches, work, vkQueue[b.queue], b, work')
  BY <1>2, <1>4, <1>5 DEF Appended
<1>7. Pending' = Pending \cup {b}
  <2>1. InFifos(VkQueues, work') = InFifos(VkQueues, work) \cup {b}
    BY <1>6, AppendItem
  <2>2. QED BY <2>1, PendingIs
<1>8. QueueType(Batches)' /\ WorkOrdered'
  <2>1. Counted(submitted, b, submitted')
    BY <1>2, <1>5 DEF Counted
  <2>2. /\ QueuesTyped(Queues, VkQueues, Batches, vkQueue, submitted', semaphore, work')
        /\ Ordered(VkQueues, vkQueue, submitted', semaphore, work')
    BY <1>3, <1>6, <2>1, TheyAreBatches, OrderedAppend DEF QueueType, WorkOrdered
  <2>3. QED BY <1>2, <2>2 DEF QueueType, WorkOrdered
<1>9. Counts'
  <2>1. WaitsUsed(deps, {}) \in Nat
    BY DepsFacts
  <2>2. \A r \in Queues : submitted'[r] <= MaxSubmits
    BY <1>1, <1>2, <1>3, <1>4, ClientAssumption DEF Counts, QueueType, QueuesTyped
  <2>3. QED
    BY <1>2, <1>3, <2>1, <2>2 DEF Counts
<1>10. ClientType'
  BY <1>1, <1>3, <1>5 DEF ClientType, Timelines
<1>11. \A x \in Pending : x \in Batches /\ x.value <= submitted[x.queue]
                           /\ x.list # l
  BY <1>1, PendingBatch DEF ListKnown
<1>12. ListsKnown'
  <2>1. ASSUME NEW x \in Pending PROVE ListKnown(x)'
    <3>1. ListKnown(x) /\ x.list # l /\ x.list \in CmdLists
      BY <1>3, <1>11 DEF ListsKnown, Batches
    <3>2. last'[x.list] = last[x.list]
      BY <1>1, <1>3, <3>1 DEF ClientType
    <3>3. QED
      BY <1>1, <3>1, <3>2 DEF ListKnown, BatchTimeline
  <2>2. ListKnown(b)'
    BY <1>1, <1>3, <1>5 DEF ListKnown, ClientType, BatchTimeline
  <2>3. QED
    BY <1>7, <2>1, <2>2 DEF ListsKnown
<1>13. \A r \in Timelines : r.value <= submitted[r.queue] => r # t
  BY <1>4, <1>5 DEF Timelines
<1>14. \A r \in Timelines : r.value <= submitted[r.queue]
                              => r.value <= submitted'[r.queue]
  BY <1>2, <1>3 DEF Timelines, QueueType, QueuesTyped
<1>15. t.value <= submitted'[t.queue]
  BY <1>2, <1>4, <1>5, <1>3 DEF QueueType, QueuesTyped
<1>16. WaitsKept'
  <2> SUFFICES ASSUME NEW p \in after'
               PROVE  /\ p \in Timelines \X Timelines
                      /\ p[1].value <= submitted'[p[1].queue]
                      /\ p[2].value <= submitted'[p[2].queue]
                      /\ \A x \in Pending' : BatchTimeline(x) = p[1]
                                               => p[2] \in x.waits
    BY DEF WaitsKept, BatchTimeline
  <2>1. CASE p \in after
    <3>1. /\ p \in Timelines \X Timelines
          /\ p[1].value <= submitted[p[1].queue]
          /\ p[2].value <= submitted[p[2].queue]
          /\ \A x \in Pending : BatchTimeline(x) = p[1] => p[2] \in x.waits
      BY <1>3, <2>1 DEF WaitsKept
    <3>2. p[1] \in Timelines /\ p[2] \in Timelines
      BY <3>1
    <3>3. p[1] # BatchTimeline(b)
      BY <1>5, <1>13, <3>1, <3>2
    <3>4. QED BY <1>7, <1>14, <3>1, <3>2, <3>3
  <2>2. CASE p \in {<<t, d>> : d \in deps}
    <3>1. PICK d \in deps : p = <<t, d>>
      BY <2>2
    <3>2. d \in Timelines /\ d.value <= submitted[d.queue]
      BY DepsFacts
    <3>3. \A x \in Pending : BatchTimeline(x) # t
      <4> SUFFICES ASSUME NEW x \in Pending, BatchTimeline(x) = t PROVE FALSE
        OBVIOUS
      <4>1. x.queue = q /\ x.value = submitted[q] + 1
        BY <1>5 DEF BatchTimeline, Timeline
      <4>2. QED BY <1>4, <1>11, <4>1
    <3>4. QED BY <1>5, <1>7, <1>14, <1>15, <3>1, <3>2, <3>3
  <2>3. QED BY <1>1, <2>1, <2>2
<1>17. DependenciesHonoured'
  <2> SUFFICES ASSUME NEW p \in after', NEW x \in Pending',
                      BatchTimeline(x) = p[2]
               PROVE  \E y \in Pending' : BatchTimeline(y) = p[1]
    BY DEF DependenciesHonoured, BatchTimeline
  <2>1. CASE p \in after
    <3>1. p[2] \in Timelines /\ p[2].value <= submitted[p[2].queue]
      BY <1>3, <2>1 DEF WaitsKept
    <3>2. x \in Pending
      BY <1>5, <1>7, <1>13, <3>1
    <3>3. PICK y \in Pending : BatchTimeline(y) = p[1]
      BY <1>3, <2>1, <3>2 DEF DependenciesHonoured
    <3>4. QED BY <1>7, <3>3
  <2>2. CASE p \in {<<t, d>> : d \in deps}
    BY <1>5, <1>7, <2>2
  <2>3. QED BY <1>1, <2>1, <2>2
<1>18. QED
  BY <1>8, <1>9, <1>10, <1>12, <1>16, <1>17 DEF ClientIInv

(* The value of a failed submission stays counted, nothing is pending.     *)
LEMMA SubmitListFailsStep ==
  ASSUME ClientIInv, NEW q \in Queues, NEW l \in CmdLists, NEW deps \in DepSets(q),
         SubmitListFails(q, l, deps)
  PROVE  ClientIInv'
<1> PICK t : t = Timeline(q, SignalValue(q))
  OBVIOUS
<1>1. /\ submitted[q] < MaxSubmits /\ home[l] = q /\ l \in reusable
      /\ submitted' = [submitted EXCEPT ![q] = @ + 1]
      /\ waitCount' = [waitCount EXCEPT ![q] = WaitsUsed(deps, {})]
      /\ UNCHANGED <<vkQueue, semaphore, work>>
      /\ last' = [last EXCEPT ![l] = t]
      /\ reusable' = reusable \ {l}
      /\ UNCHANGED <<home, call, after>>
  BY DEF SubmitListFails, CanSubmit, SubmitFails, CountSubmission
<1>2. /\ QueueType(Batches) /\ WorkOrdered /\ Counts /\ ClientType
      /\ WaitsKept /\ DependenciesHonoured
  BY DEF ClientIInv
<1>3. submitted[q] \in Nat
  BY <1>2 DEF QueueType, QueuesTyped
<1>4. Pending' = Pending
  BY <1>1 DEF Pending, Items
<1>5. /\ submitted' \in [Queues -> Nat]
      /\ \A r \in Queues : submitted[r] <= submitted'[r] /\ submitted'[r] <= MaxSubmits
  BY <1>1, <1>2, <1>3, ClientAssumption DEF QueueType, QueuesTyped, Counts
<1>6. QueueType(Batches)'
  BY <1>1, <1>2, <1>5 DEF QueueType, QueuesTyped
<1>7. WorkOrdered'
  <2>1. ASSUME NEW k \in VkQueues, NEW i \in 1 .. Len(work[k])
        PROVE  /\ work[k][i].queue \in Queues /\ work[k][i].value \in Nat
               /\ work[k][i].value # 0
               /\ vkQueue[work[k][i].queue] = k
               /\ semaphore[work[k][i].queue] < work[k][i].value
               /\ work[k][i].value <= submitted[work[k][i].queue]
               /\ \A j \in 1 .. i - 1 : work[k][j].queue = work[k][i].queue
                                          => work[k][j].value < work[k][i].value
    <3>1. work[k][i] \in Batches
      BY <1>2, ElementOfSeq DEF QueueType, QueuesTyped
    <3>2. QED BY <1>2, <3>1 DEF WorkOrdered, Ordered, Batches
  <2>2. ASSUME NEW k \in VkQueues, NEW i \in 1 .. Len(work[k])
        PROVE  work[k][i].value <= submitted'[work[k][i].queue]
    BY <1>2, <1>5, <2>1 DEF QueueType, QueuesTyped
  <2>3. QED
    BY <1>1, <2>1, <2>2 DEF WorkOrdered, Ordered
<1>8. Counts'
  <2>1. WaitsUsed(deps, {}) \in Nat
    BY DepsFacts
  <2>2. QED
    BY <1>1, <1>2, <1>5, <2>1 DEF Counts
<1>9. ClientType'
  <2>1. t \in [queue : Queues \cup {NoQueue}, value : Nat]
    BY <1>3 DEF Timeline, SignalValue
  <2>2. QED BY <1>1, <1>2, <2>1 DEF ClientType
<1>10. ASSUME NEW x \in Pending PROVE ListKnown(x)'
  <2>1. ListKnown(x) /\ x.list \in CmdLists
    BY PendingBatch DEF Batches
  <2>2. last'[x.list] = last[x.list]
    BY <1>1, <1>2, <2>1 DEF ClientType, ListKnown
  <2>3. QED
    BY <1>1, <2>1, <2>2 DEF ListKnown, BatchTimeline
<1>11. ListsKnown'
  BY <1>4, <1>10 DEF ListsKnown
<1>12. WaitsKept'
  <2> SUFFICES ASSUME NEW p \in after
               PROVE  /\ p \in Timelines \X Timelines
                      /\ p[1].value <= submitted'[p[1].queue]
                      /\ p[2].value <= submitted'[p[2].queue]
                      /\ \A x \in Pending : BatchTimeline(x) = p[1]
                                              => p[2] \in x.waits
    BY <1>1, <1>4 DEF WaitsKept, BatchTimeline
  <2>1. /\ p \in Timelines \X Timelines
        /\ p[1].value <= submitted[p[1].queue]
        /\ p[2].value <= submitted[p[2].queue]
        /\ \A x \in Pending : BatchTimeline(x) = p[1] => p[2] \in x.waits
    BY <1>2 DEF WaitsKept
  <2>2. \A r \in Timelines : r.value <= submitted[r.queue]
                              => r.value <= submitted'[r.queue]
    BY <1>2, <1>5 DEF Timelines, QueueType, QueuesTyped
  <2>3. p[1] \in Timelines /\ p[2] \in Timelines
    BY <2>1
  <2>4. QED BY <2>1, <2>2, <2>3
<1>13. DependenciesHonoured'
  BY <1>1, <1>2, <1>4 DEF DependenciesHonoured, BatchTimeline
<1>14. QED
  BY <1>6, <1>7, <1>8, <1>9, <1>11, <1>12, <1>13 DEF ClientIInv

(* The head finishes when its waits are reached: no dependency of it can   *)
(* still be pending.                                                       *)
LEMMA DeviceFinishesStep ==
  ASSUME ClientIInv, NEW k \in VkQueues, DeviceFinishes(k)
  PROVE  ClientIInv'
<1> PICK h : h = Head(work[k])
  OBVIOUS
<1>1. /\ work[k] # <<>>
      /\ \A w \in h.waits : Reached(w)
      /\ semaphore' = [semaphore EXCEPT ![h.queue] = h.value]
      /\ work' = [work EXCEPT ![k] = Tail(@)]
      /\ UNCHANGED <<vkQueue, submitted, waitCount>>
      /\ UNCHANGED <<home, last, reusable, call, after, failed>>
  BY DEF DeviceFinishes, Finish, Ready, clientVars
<1>2. /\ QueueType(Batches) /\ WorkOrdered /\ Counts /\ ClientType
      /\ WaitsKept /\ DependenciesHonoured
  BY DEF ClientIInv
<1>3. Pending = Pending' \cup {h} /\ h \in Batches
  <2>1. Removed(VkQueues, Batches, work, k, work')
    BY <1>1, <1>2 DEF QueueType, QueuesTyped, Removed
  <2>2. InFifos(VkQueues, work) = InFifos(VkQueues, work') \cup {h} /\ h \in Batches
    BY <2>1, RemoveHead
  <2>3. QED BY <2>2, PendingIs
<1>4. h.value # 0
  BY <1>3 DEF Batches
<1>5. QueueType(Batches)' /\ WorkOrdered'
  <2>1. Removed(VkQueues, Batches, work, k, work')
    BY <1>1, <1>2 DEF QueueType, QueuesTyped, Removed
  <2>2. QED
    BY <1>1, <1>2, <1>4, <2>1, TheyAreBatches, OrderedRemove DEF QueueType, WorkOrdered
<1>6. Counts' /\ ClientType'
  BY <1>1, <1>2 DEF Counts, ClientType
<1>7. ASSUME NEW x \in Pending' PROVE ListKnown(x)'
  BY <1>1, <1>3, PendingBatch DEF ListKnown, BatchTimeline
<1>8. ListsKnown'
  BY <1>7 DEF ListsKnown
<1>9. WaitsKept'
  BY <1>1, <1>2, <1>3 DEF WaitsKept, BatchTimeline
<1>10. DependenciesHonoured'
  <2> SUFFICES ASSUME NEW p \in after, NEW x \in Pending',
                      BatchTimeline(x) = p[2]
               PROVE  \E y \in Pending' : BatchTimeline(y) = p[1]
    BY <1>1 DEF DependenciesHonoured, BatchTimeline
  <2>1. PICK y \in Pending : BatchTimeline(y) = p[1]
    BY <1>2, <1>3 DEF DependenciesHonoured
  <2>2. y # h
    <3> SUFFICES ASSUME y = h PROVE FALSE
      OBVIOUS
    <3>1. Reached(p[2])
      BY <1>1, <1>2, <2>1 DEF WaitsKept
    <3>2. semaphore[x.queue] >= x.value
      BY <3>1 DEF Reached, BatchTimeline, Timeline
    <3>3. semaphore[x.queue] < x.value /\ x \in Batches
      BY <1>3, PendingBatch
    <3>4. QED BY <1>2, <3>2, <3>3 DEF QueueType, QueuesTyped, Batches
  <2>3. QED BY <1>3, <2>1, <2>2
<1>11. QED
  BY <1>5, <1>6, <1>8, <1>9, <1>10 DEF ClientIInv

-----------------------------------------------------------------------------
(* The calls that submit nothing.                                          *)

(* The queues and the dependencies stay: what is left to show.             *)
LEMMA ClientStep ==
  ASSUME ClientIInv, UNCHANGED <<queueVars, after>>, ClientType',
         \A x \in Pending : ListKnown(x)'
  PROVE  ClientIInv'
<1>1. Pending' = Pending
  BY DEF queueVars, Pending, Items
<1>2. QueueType(Batches)' /\ WorkOrdered' /\ Counts'
  BY DEF ClientIInv, queueVars, QueueType, QueuesTyped, WorkOrdered, Ordered, Counts
<1>3. ListsKnown'
  BY <1>1 DEF ListsKnown
<1>4. WaitsKept' /\ DependenciesHonoured'
  BY <1>1 DEF ClientIInv, queueVars, WaitsKept, DependenciesHonoured, BatchTimeline
<1>5. QED BY <1>2, <1>3, <1>4 DEF ClientIInv

(* Learning that a Timeline was reached says nothing of a list in flight.  *)
LEMMA LearnStep ==
  ASSUME ClientIInv, UNCHANGED <<queueVars, home, last, after>>,
         NEW t \in Timelines, Reached(t), LearnReached(t),
         call' = call \/ call' = NoCall
  PROVE  ClientIInv'
<1>1. ClientType'
  <2>1. reusable' \subseteq {l \in CmdLists : home'[l] # NoQueue}
    BY ClientAssumption DEF LearnReached, ClientIInv, ClientType, Timelines
  <2>2. QED BY <2>1 DEF ClientIInv, ClientType
<1>2. ASSUME NEW x \in Pending PROVE ListKnown(x)'
  <2>1. /\ ListKnown(x) /\ x \in Batches
        /\ semaphore[x.queue] < x.value
    BY PendingBatch
  <2>2. last[x.list].queue = x.queue /\ last[x.list].value = x.value
    BY <2>1 DEF ListKnown, BatchTimeline, Timeline
  <2>3. ~ (x.queue = t.queue /\ x.value <= t.value)
    BY <2>1 DEF Reached, ClientIInv, QueueType, QueuesTyped, Batches, Timelines
  <2>4. x.list \notin reusable'
    BY <2>1, <2>2, <2>3 DEF LearnReached, ListKnown
  <2>5. QED BY <2>1, <2>4 DEF ListKnown, BatchTimeline
<1>3. QED BY <1>1, <1>2, ClientStep

(* A call begins or times out.                                             *)
LEMMA CallStep ==
  ASSUME ClientIInv, UNCHANGED <<queueVars, home, last, reusable, after>>,
         ClientType'
  PROVE  ClientIInv'
BY ClientStep, PendingBatch DEF ListKnown, BatchTimeline

(* A new list is in no batch.                                              *)
LEMMA AllocateStep ==
  ASSUME ClientIInv, NEW q \in Queues, NEW l \in CmdLists, Allocate(q, l)
  PROVE  ClientIInv'
<1>1. /\ home[l] = NoQueue
      /\ home' = [home EXCEPT ![l] = q]
      /\ last' = [last EXCEPT ![l] = Timeline(NoQueue, 0)]
      /\ reusable' = reusable \cup {l}
      /\ UNCHANGED <<queueVars, call, after>>
  BY DEF Allocate
<1>2. ClientType
  BY DEF ClientIInv
<1>3. ClientType'
  <2>1. Timeline(NoQueue, 0) \in [queue : Queues \cup {NoQueue}, value : Nat]
    BY DEF Timeline
  <2>2. QED BY <1>1, <1>2, <2>1, ClientAssumption DEF ClientType
<1>4. ASSUME NEW x \in Pending PROVE ListKnown(x)'
  <2>1. ListKnown(x) /\ x \in Batches
    BY PendingBatch
  <2>2. x.list \in CmdLists /\ x.list # l
    BY <1>1, <2>1, ClientAssumption DEF ListKnown, Batches
  <2>3. home'[x.list] = home[x.list] /\ last'[x.list] = last[x.list]
    BY <1>1, <1>2, <2>2 DEF ClientType
  <2>4. QED BY <1>1, <2>1, <2>2, <2>3 DEF ListKnown, BatchTimeline
<1>5. QED BY <1>1, <1>3, <1>4, ClientStep

(* The queue is idle: none of the lists that go is in flight.              *)
LEMMA DestroyReturnsStep ==
  ASSUME ClientIInv, DestroyReturns
  PROVE  ClientIInv'
<1> PICK q : q = call.queue
  OBVIOUS
<1>1. /\ call.op = "Destroy" /\ semaphore[q] >= submitted[q]
      /\ home' = [l \in CmdLists |-> IF home[l] = q THEN NoQueue ELSE home[l]]
      /\ reusable' = {l \in reusable : home[l] # q}
      /\ call' = NoCall
      /\ UNCHANGED <<queueVars, last, after>>
  BY DEF DestroyReturns, Idle
<1>2. ClientType /\ QueueType(Batches)
  BY DEF ClientIInv
<1>3. ClientType'
  BY <1>1, <1>2 DEF ClientType
<1>4. ASSUME NEW x \in Pending PROVE ListKnown(x)'
  <2>1. /\ ListKnown(x) /\ x \in Batches
        /\ semaphore[x.queue] < x.value /\ x.value <= submitted[x.queue]
    BY PendingBatch
  <2>2. x.queue # q /\ x.list \in CmdLists
    BY <1>1, <1>2, <2>1 DEF QueueType, QueuesTyped, Batches
  <2>3. QED BY <1>1, <2>1, <2>2 DEF ListKnown, BatchTimeline
<1>5. QED BY <1>1, <1>3, <1>4, ClientStep

(* A submission that overruns m_WaitInfos ends the program, and leaves the *)
(* work of the queues alone.                                               *)
LEMMA SubmitListOverrunsStep ==
  ASSUME ClientIInv, NEW q \in Queues, NEW l \in CmdLists, SubmitListOverruns(q, l)
  PROVE  ClientIInv'
<1>1. PICK n \in 1 .. MaxDeps : waitCount' = [waitCount EXCEPT ![q] = n]
  BY DEF SubmitListOverruns, SubmitOverruns
<1>2. /\ call' = Undefined
      /\ UNCHANGED <<vkQueue, submitted, semaphore, work, home, last, reusable, after>>
  BY DEF SubmitListOverruns, SubmitOverruns
<1>3. Pending' = Pending
  BY <1>2 DEF Pending, Items
<1>4. QueueType(Batches)' /\ WorkOrdered' /\ Counts'
  BY <1>1, <1>2, ClientAssumption
     DEF ClientIInv, QueueType, QueuesTyped, WorkOrdered, Ordered, Counts
<1>5. ClientType'
  BY <1>2 DEF ClientIInv, ClientType
<1>6. ListsKnown' /\ WaitsKept' /\ DependenciesHonoured'
  BY <1>2, <1>3
     DEF ClientIInv, ListsKnown, ListKnown, WaitsKept, DependenciesHonoured, BatchTimeline
<1>7. QED BY <1>4, <1>5, <1>6 DEF ClientIInv

-----------------------------------------------------------------------------
(* So the invariant is inductive.                                          *)
LEMMA NextClientIInv == ClientIInv /\ [ClientNext]_allVars => ClientIInv'
<1> SUFFICES ASSUME ClientIInv, [ClientNext]_allVars PROVE ClientIInv'
  OBVIOUS
<1>0. ClientType /\ QueueType(Batches)
  BY DEF ClientIInv
<1>1. ASSUME NEW q \in Queues, NEW l \in CmdLists, Allocate(q, l) PROVE ClientIInv'
  BY <1>1, AllocateStep
<1>2. ASSUME NEW q \in Queues, NEW l \in CmdLists, NEW deps \in DepSets(q),
             SubmitList(q, l, deps) \/ SubmitListFails(q, l, deps)
      PROVE  ClientIInv'
  BY <1>2, SubmitListStep, SubmitListFailsStep
<1>3. ASSUME NEW t \in Returned, Wait(t) PROVE ClientIInv'
  <2>1. t \in Timelines
    BY <1>0, ReturnedFacts
  <2>2. ClientType'
    BY <1>0, <1>3, <2>1 DEF Wait, ClientType
  <2>3. QED BY <1>3, <2>2, CallStep DEF Wait
<1>4. ASSUME NEW t \in Returned, PollAnswersTrue(t) PROVE ClientIInv'
  <2>1. t \in Timelines
    BY <1>0, ReturnedFacts
  <2>2. Reached(t)
    BY <1>0, <1>4, <2>1 DEF PollAnswersTrue, Poll, Reached, QueueType, QueuesTyped, Timelines
  <2>3. QED BY <1>4, <2>1, <2>2, LearnStep DEF PollAnswersTrue
<1>5. ASSUME NEW q \in Queues, WaitIdle(q) PROVE ClientIInv'
  <2>1. ClientType'
    BY <1>0, <1>5 DEF WaitIdle, ClientType
  <2>2. QED BY <1>5, <2>1, CallStep DEF WaitIdle
<1>6. ASSUME NEW q \in Queues, Completed(q) PROVE ClientIInv'
  <2> DEFINE t == Timeline(q, semaphore[q])
  <2>1. t \in Timelines /\ Reached(t)
    BY <1>0 DEF Timeline, Timelines, Reached, QueueType, QueuesTyped
  <2>2. LearnReached(t) /\ UNCHANGED <<queueVars, home, last, after, call>>
    BY <1>6 DEF Completed
  <2> HIDE DEF t
  <2>3. QED BY <2>1, <2>2, LearnStep
<1>7. ASSUME NEW q \in Queues, DestroyCommandAllocator(q) PROVE ClientIInv'
  <2>1. ClientType'
    BY <1>0, <1>7 DEF DestroyCommandAllocator, ClientType
  <2>2. QED BY <1>7, <2>1, CallStep DEF DestroyCommandAllocator
<1>8. ASSUME WaitReturns PROVE ClientIInv'
  <2>1. call.t \in Timelines
    BY <1>0, <1>8 DEF WaitReturns, ClientType, NoCall, Undefined
  <2>2. Reached(call.t)
    BY <1>8 DEF WaitReturns, WaitSatisfied
  <2>3. PICK t \in Timelines : t = call.t
    BY <2>1
  <2>4. QED BY <1>8, <2>2, <2>3, LearnStep DEF WaitReturns
<1>9. ASSUME WaitTimesOut PROVE ClientIInv'
  <2>1. ClientType'
    BY <1>0, <1>9 DEF WaitTimesOut, ClientType
  <2>2. QED BY <1>9, <2>1, CallStep DEF WaitTimesOut
<1>10. ASSUME WaitIdleReturns PROVE ClientIInv'
  <2>1. call.queue \in Queues
    BY <1>0, <1>10 DEF WaitIdleReturns, ClientType, NoCall, Undefined
  <2>2. PICK t : t = Timeline(call.queue, submitted[call.queue])
    OBVIOUS
  <2>3. t \in Timelines /\ Reached(t)
    BY <1>0, <1>10, <2>1, <2>2
       DEF WaitIdleReturns, Idle, Timeline, Timelines, Reached, QueueType, QueuesTyped
  <2>4. QED BY <1>10, <2>2, <2>3, LearnStep DEF WaitIdleReturns
<1>11. ASSUME DestroyReturns PROVE ClientIInv'
  BY <1>11, DestroyReturnsStep
<1>12. ASSUME NEW k \in VkQueues, DeviceFinishes(k) PROVE ClientIInv'
  BY <1>12, DeviceFinishesStep
<1>13. ASSUME UNCHANGED allVars PROVE ClientIInv'
  <2>1. ClientType'
    BY <1>0, <1>13 DEF allVars, ClientType
  <2>2. QED BY <1>13, <2>1, CallStep DEF allVars, queueVars
<1>14. ASSUME NEW q \in Queues, NEW l \in CmdLists, SubmitListOverruns(q, l)
       PROVE  ClientIInv'
  BY <1>14, SubmitListOverrunsStep
<1>15. QED
  BY <1>1, <1>2, <1>3, <1>4, <1>5, <1>6, <1>7, <1>8, <1>9, <1>10, <1>11,
     <1>12, <1>13, <1>14 DEF ClientNext

(* The invariant holds in every reachable state.                           *)
LEMMA ClientInvariance == ClientSpec => []ClientIInv
BY InitClientIInv, NextClientIInv, PTL DEF ClientSpec

(* The variables keep their types, semaphores trail the submissions and    *)
(* what is pending was submitted.                                          *)
THEOREM ClientTypeCorrect == ClientSpec => []ClientTypeOK
<1>1. ClientIInv => ClientTypeOK
  <2> SUFFICES ASSUME ClientIInv PROVE ClientTypeOK
    OBVIOUS
  <2>1. \A b \in Pending : b.list \in CmdLists /\ b.value <= submitted[b.queue]
    BY PendingBatch DEF Batches
  <2>2. QED
    BY <2>1, ClientAssumption DEF ClientTypeOK, ClientIInv, QueueType, QueuesTyped, Counts, ClientType
<1>2. QED BY <1>1, ClientInvariance, PTL

(* Wait, WaitIdle, Poll and Completed tell the truth: a list the program   *)
(* believes done is not in flight.                                         *)
THEOREM KnowledgeCorrect == ClientSpec => []HostKnowledgeSound
<1>1. ClientIInv => HostKnowledgeSound
  BY PendingBatch DEF HostKnowledgeSound, InFlight, ListKnown
<1>2. QED BY <1>1, ClientInvariance, PTL

(* No list is freed that the device still executes.                        *)
THEOREM ListsOutlive == ClientSpec => []NoDestroyedListInFlight
<1>1. ClientIInv => NoDestroyedListInFlight
  <2> SUFFICES ASSUME ClientIInv, NEW b \in Pending PROVE home[b.list] # NoQueue
    BY DEF NoDestroyedListInFlight, InFlight
  <2>1. QED BY PendingBatch, ClientAssumption DEF ListKnown, Batches
<1>2. QED BY <1>1, ClientInvariance, PTL

(* A submission never finishes before the ones it depends on.              *)
THEOREM DependenciesCorrect == ClientSpec => []DependenciesHonoured
<1>1. ClientIInv => DependenciesHonoured
  BY DEF ClientIInv
<1>2. QED BY <1>1, ClientInvariance, PTL
=============================================================================
