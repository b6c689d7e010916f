-------------------------- MODULE FrameLoop_proofs --------------------------
(***************************************************************************)
(* The frame loop for any number of frame slots, semaphores, images and    *)
(* iterations, on one VkQueue or two.  The argument counts iterations: the *)
(* graphics batch of value v was submitted in iteration v - 1, hence with  *)
(* the slot and the acquire semaphore that many rotations back, and the    *)
(* wait at the head of an iteration keeps that distance below FrameCount.  *)
(***************************************************************************)
EXTENDS FrameLoop, Lemmas

ComputeBatches ==
  [queue : {Compute}, value : Nat \ {0}, list : {ComputeList(f) : f \in Frames},
   waits : {{}}, waitSem : {{}}, signalSem : {{}}]

GraphicsBatches ==
  [queue : {Graphics}, value : Nat \ {0}, list : {GraphicsList(f) : f \in Frames},
   waits : SUBSET [queue : {Compute}, value : Nat],
   waitSem : {{s} : s \in AvailableSems},
   signalSem : {{Rendered(i)} : i \in Images}]

Presents == {PresentItem(i) : i \in Images}

Batches == ComputeBatches \cup GraphicsBatches \cup Presents

(* Between acquiring an image and submitting, and within a frame.          *)
Acquired == {"write", "record", "submitCompute", "submitGraphics"}
InFrame == {"acquire", "present"} \cup Acquired

AppType ==
  /\ pc \in {"top", "resize", "wait", "graphicsIdle", "computeIdle", "destroyed"}
            \cup InFrame
  /\ frame \in Frames /\ image \in Images
  /\ semIndex \in 0 .. SemaphoreCount - 1
  /\ frameT \in [Frames -> Nat] /\ \A f \in Frames : frameT[f] <= submitted[Graphics]
  /\ computeT \in Nat /\ computeT <= submitted[Compute]
  /\ iterations \in Nat /\ acquireFailures \in Nat

EngineType ==
  /\ binary \in [Sems -> {"unsignaled", "pending", "signaled"}]
  /\ engine \in [Images -> {Free, OwnedByApp, Shown, Gone} \cup AvailableSems]
  /\ \A i \in Images : engine[i] \in AvailableSems =>
       /\ binary[engine[i]] = "pending"
       /\ \A j \in Images : engine[j] = engine[i] => j = i

(* The index d rotations ago, of m indices.                                *)
Back(x, d, m) == IF d <= x THEN x - d ELSE x - d + m

(* How many iterations ago a graphics batch was submitted.                 *)
Age(b) == iterations + 1 - b.value

Rotation ==
  /\ submitted[Graphics] = iterations + (IF pc = "present" THEN 1 ELSE 0)
  /\ \A b \in Pending \cap GraphicsBatches :
       /\ b.list = GraphicsList(Back(frame, Age(b), FrameCount))
       /\ b.waitSem = {Available(Back(semIndex, Age(b), SemaphoreCount))}

(* Each slot's Timeline, by the age of its submission.                     *)
SlotTimelines ==
  \A d \in 0 .. FrameCount :
    (IF pc = "present" THEN d # FrameCount ELSE d # 0) =>
      frameT[Back(frame, d, FrameCount)] + d >= iterations + 1

(* How far the graphics queue may be behind the loop.                      *)
Lead == /\ semaphore[Graphics] + FrameCount >= iterations
        /\ pc \in InFrame => semaphore[Graphics] + FrameCount >= iterations + 1

(* A compute batch in flight has a graphics batch of its slot behind it.   *)
ComputeCovered ==
  \A c \in Pending \cap ComputeBatches : \A f \in Frames :
    c.list = ComputeList(f) =>
      \/ pc = "submitGraphics" /\ f = frame /\ c.value <= computeT
      \/ \E g \in Pending : /\ g.list = GraphicsList(f)
                            /\ \E w \in g.waits : /\ w.queue = Compute
                                                  /\ c.value <= w.value

(* An acquire semaphore is in use only until the batch waiting for it is   *)
(* done.                                                                   *)
AvailableInUse ==
  \A s \in 0 .. SemaphoreCount - 1 :
    binary[Available(s)] # "unsignaled" =>
      \/ s = semIndex /\ pc \in Acquired
      \/ \E b \in Pending : Available(s) \in b.waitSem

(* The work of the graphics queue up to position n waits for no semaphore  *)
(* that nothing is going to signal.                                        *)
W == work[vkQueue[Graphics]]
Waits(b) == b.waitSem \cap AvailableSems
Live(n) == \A m \in 1 .. n : \A s \in Waits(W[m]) : binary[s] # "unsignaled"

NothingFailed ==
  acquireFailures = 0 =>
    /\ Live(Len(W))
    /\ pc \in Acquired => binary[Available(semIndex)] # "unsignaled"

(* Image i is handed over with semaphore s.                                *)
Holds(s, i) == \/ binary[s] = "pending" /\ engine[i] = s
               \/ binary[s] = "signaled" /\ engine[i] = OwnedByApp

Owned(i) == engine[i] \in AvailableSems \cup {OwnedByApp}

(* The live batches render images they hold, and present each once.        *)
LiveBatch(n) ==
  \A i \in Images :
    /\ Rendered(i) \in W[n].signalSem => \A s \in Waits(W[n]) : Holds(s, i)
    /\ W[n] = PresentItem(i) => Owned(i)
    /\ Rendered(i) \in W[n].signalSem \/ W[n] = PresentItem(i) =>
         \A m \in 1 .. n - 1 : W[m] # PresentItem(i)

LiveBatches == \A n \in 1 .. Len(W) : Live(n) => LiveBatch(n)

(* So does the application with the image it has acquired.                 *)
AppHolds ==
  Live(Len(W)) =>
    /\ pc \in Acquired /\ binary[Available(semIndex)] # "unsignaled" =>
         /\ Holds(Available(semIndex), image)
         /\ \A n \in 1 .. Len(W) : /\ W[n] # PresentItem(image)
                                   /\ Rendered(image) \notin W[n].signalSem
    /\ pc = "present" =>
         /\ Owned(image)
         /\ \A n \in 1 .. Len(W) : W[n] # PresentItem(image)

(* A render-complete semaphore is in use only until the present waiting    *)
(* for it is done.                                                         *)
Presented(i, n) == \/ pc = "present" /\ image = i
                   \/ \E m \in 1 .. Len(W) : m > n /\ W[m] = PresentItem(i)

RenderedInUse ==
  \A i \in Images :
    /\ binary[Rendered(i)] # "unsignaled" => Presented(i, 0)
    /\ \A n \in 1 .. Len(W) : Rendered(i) \in W[n].signalSem => Presented(i, n)

IdleAtEnd ==
  /\ pc \in {"computeIdle", "destroyed"} => Idle(Graphics)
  /\ pc = "destroyed" => Idle(Compute)

(* The queues of this module, as the lemmas about FIFOs see them.          *)
QueueType(B) == QueuesTyped(Queues, VkQueues, B, vkQueue, submitted, semaphore, work)

WorkOrdered == Ordered(VkQueues, vkQueue, submitted, semaphore, work)

(* The inductive invariant.                                                *)
IInv == /\ QueueType(Batches) /\ WorkOrdered /\ AppType /\ EngineType
        /\ Rotation /\ SlotTimelines /\ Lead /\ ComputeCovered
        /\ AvailableInUse /\ NothingFailed
        /\ LiveBatches /\ AppHolds /\ RenderedInUse /\ IdleAtEnd

-----------------------------------------------------------------------------
(* Semaphores, and the owners an image may have.                           *)
LEMMA SemNames ==
  /\ \A s : \A i : Available(s) # Rendered(i)
  /\ \A s, r : Available(s) = Available(r) => s = r
  /\ \A i, j : Rendered(i) = Rendered(j) => i = j
  /\ \A i : Rendered(i) \notin AvailableSems
  /\ AvailableSems \subseteq Sems
  /\ \A i \in Images : Rendered(i) \in Sems
  /\ \A s \in 0 .. SemaphoreCount - 1 : Available(s) \in AvailableSems
  /\ \A s \in AvailableSems : s \notin {Free, OwnedByApp, Shown, Gone}
  /\ OwnedByApp \notin {Free, Shown, Gone} /\ Free # Shown /\ Free # Gone
BY DEF Available, Rendered, AvailableSems, Sems, Free, OwnedByApp, Shown, Gone

(* The command lists of a slot are told apart.                             *)
LEMMA ListNames ==
  /\ \A f, g : GraphicsList(f) = GraphicsList(g) => f = g
  /\ \A f, g : ComputeList(f) = ComputeList(g) => f = g
  /\ \A f, g : GraphicsList(f) # ComputeList(g)
  /\ \A f : GraphicsList(f)[1] = "graphics" /\ ComputeList(f)[1] = "compute"
BY DEF GraphicsList, ComputeList

(* The indices of a rotation: distances below m tell them apart.           *)
LEMMA BackFacts ==
  ASSUME NEW m \in Nat \ {0}, NEW x \in 0 .. m - 1
  PROVE  /\ \A d \in 0 .. m : Back(x, d, m) \in 0 .. m - 1
         /\ Back(x, 0, m) = x /\ Back(x, m, m) = x
         /\ \A d, e \in 0 .. m : Back(x, d, m) = Back(x, e, m) =>
              d = e \/ (d = 0 /\ e = m) \/ (d = m /\ e = 0)
BY DEF Back

(* Advancing an index adds one to every distance.                          *)
LEMMA BackNext ==
  ASSUME NEW m \in Nat \ {0}, NEW x \in 0 .. m - 1
  PROVE  /\ (x + 1) % m \in 0 .. m - 1
         /\ \A d \in 0 .. m - 1 : Back((x + 1) % m, d + 1, m) = Back(x, d, m)
<1>1. (x + 1) % m = IF x + 1 = m THEN 0 ELSE x + 1
  OBVIOUS
<1>2. QED BY <1>1 DEF Back

(* A graphics batch; a compute batch and a present, which need no more.    *)
LEMMA KindOf ==
  ASSUME NEW b \in Batches
  PROVE  /\ b \in GraphicsBatches =>
              /\ b.queue = Graphics /\ b.value \in Nat \ {0}
              /\ \E f \in Frames : b.list = GraphicsList(f)
              /\ b.waits \subseteq [queue : {Compute}, value : Nat]
              /\ \E s \in AvailableSems : b.waitSem = {s} /\ Waits(b) = {s}
              /\ \E i \in Images : b.signalSem = {Rendered(i)}
              /\ ~ IsPresent(b) /\ b \notin ComputeBatches
         /\ b \in ComputeBatches =>
              /\ b.queue = Compute /\ b.value \in Nat \ {0}
              /\ \E f \in Frames : b.list = ComputeList(f)
              /\ b.waits = {} /\ b.waitSem = {} /\ b.signalSem = {}
              /\ Waits(b) = {} /\ ~ IsPresent(b)
         /\ b \in Presents =>
              /\ \E i \in Images : b = PresentItem(i)
              /\ b.queue = Graphics /\ b.value = 0 /\ IsPresent(b)
              /\ b.waits = {} /\ b.signalSem = {} /\ Waits(b) = {}
<1>1. ASSUME b \in GraphicsBatches
      PROVE  /\ b.queue = Graphics /\ b.value \in Nat \ {0}
             /\ \E f \in Frames : b.list = GraphicsList(f)
             /\ b.waits \subseteq [queue : {Compute}, value : Nat]
             /\ \E s \in AvailableSems : b.waitSem = {s}
             /\ \E i \in Images : b.signalSem = {Rendered(i)}
  BY <1>1 DEF GraphicsBatches
<1>2. ASSUME b \in GraphicsBatches
      PROVE  ~ IsPresent(b) /\ b \notin ComputeBatches
  BY <1>1, <1>2, ListNames DEF ComputeBatches, IsPresent
<1>3. ASSUME b \in GraphicsBatches
      PROVE  \E s \in AvailableSems : b.waitSem = {s} /\ Waits(b) = {s}
  BY <1>1, <1>3 DEF Waits
<1>4. ASSUME b \in ComputeBatches
      PROVE  /\ b.queue = Compute /\ b.value \in Nat \ {0}
             /\ \E f \in Frames : b.list = ComputeList(f)
             /\ b.waits = {} /\ b.waitSem = {} /\ b.signalSem = {}
             /\ Waits(b) = {}
  BY <1>4 DEF ComputeBatches, Waits
<1>5. ASSUME b \in ComputeBatches PROVE ~ IsPresent(b)
  BY <1>4, <1>5, ListNames DEF IsPresent
<1>6. ASSUME b \in Presents
      PROVE  /\ \E i \in Images : b = PresentItem(i)
             /\ b.queue = Graphics /\ b.value = 0 /\ IsPresent(b)
             /\ b.waits = {} /\ b.signalSem = {}
             /\ \E i \in Images : b.waitSem = {Rendered(i)}
  BY <1>6 DEF Presents, PresentItem, IsPresent
<1>7. ASSUME b \in Presents PROVE Waits(b) = {}
  BY <1>6, <1>7, SemNames DEF Waits
<1>8. QED
  BY <1>1, <1>2, <1>3, <1>4, <1>5, <1>6, <1>7

(* What SubmitGraphics hands to the driver is such a batch.                *)
LEMMA GraphicsBatchIs ==
  ASSUME NEW n \in Nat, NEW f \in Frames, NEW s \in AvailableSems,
         NEW i \in Images, NEW t \in [queue : {Compute}, value : Nat]
  PROVE  [queue |-> Graphics, value |-> n + 1, list |-> GraphicsList(f),
          waits |-> {t}, waitSem |-> {s}, signalSem |-> {Rendered(i)}]
           \in GraphicsBatches
<1>1. n + 1 \in Nat \ {0}
  OBVIOUS
<1>2. {t} \in SUBSET [queue : {Compute}, value : Nat]
  OBVIOUS
<1>3. QED BY <1>1, <1>2 DEF GraphicsBatches

(* A batch of this module is one of the queues'.                           *)
LEMMA TheyAreBatches == AreBatches(Queues, Batches)
BY KindOf, FrameLoopAssumption DEF AreBatches, Batches

(* A batch is pending if it has a position on a VkQueue.                   *)
LEMMA PendingIs ==
  /\ Pending = InFifos(VkQueues, work) /\ Pending' = InFifos(VkQueues, work')
  /\ \A x : x \in Pending <=> (\E k \in VkQueues : \E i \in 1 .. Len(work[k]) : x = work[k][i])
BY DEF Pending, Items, InFifos

(* What a pending batch is.                                                *)
LEMMA PendingFacts ==
  ASSUME QueueType(Batches), WorkOrdered, NEW b \in Pending
  PROVE  /\ b \in Batches
         /\ b.value # 0 => semaphore[b.queue] < b.value /\ b.value <= submitted[b.queue]
<1>1. b \in InFifos(VkQueues, work)
  BY PendingIs
<1>2. QED BY <1>1, FifoFacts DEF QueueType, WorkOrdered

(* What is assumed of the constants.                                       *)
LEMMA Sizes ==
  /\ FrameCount \in Nat \ {0} /\ SemaphoreCount \in Nat \ {0}
  /\ FrameCount <= SemaphoreCount /\ Frames = 0 .. FrameCount - 1
  /\ Graphics # Compute /\ Queues = {Graphics, Compute}
BY FrameLoopAssumption DEF Frames

(* The graphics queue's work: its positions are batches in flight, and     *)
(* each graphics batch and each present in flight has one.                 *)
LEMMA WorkFacts ==
  ASSUME QueueType(Batches), WorkOrdered
  PROVE  /\ Len(W) \in Nat /\ vkQueue[Graphics] \in VkQueues
         /\ \A n \in 1 .. Len(W) : W[n] \in Batches /\ W[n] \in Pending
         /\ \A b \in Pending : b \in Batches
         /\ \A b \in Pending : b.queue = Graphics =>
               \E n \in 1 .. Len(W) : b = W[n]
<1>1. vkQueue[Graphics] \in VkQueues /\ W \in Seq(Batches)
  BY Sizes DEF QueueType, QueuesTyped, W
<1>2. Len(W) \in Nat /\ \A n \in 1 .. Len(W) : W[n] \in Batches
  BY <1>1, ElementOfSeq, LenProperties
<1>3. \A n \in 1 .. Len(W) : W[n] \in Pending
  BY <1>1, PendingIs DEF W
<1>4. \A b \in Pending : b \in Batches
  BY PendingFacts
<1>5. ASSUME NEW b \in Pending, b.queue = Graphics
      PROVE  \E n \in 1 .. Len(W) : b = W[n]
  <2>1. PICK k \in VkQueues : \E i \in 1 .. Len(work[k]) : b = work[k][i]
    BY PendingIs
  <2>2. vkQueue[b.queue] = k
    BY <2>1 DEF WorkOrdered, Ordered
  <2>3. QED BY <1>5, <2>1, <2>2 DEF W
<1>6. QED BY <1>1, <1>2, <1>3, <1>4, <1>5

(* Ages lie between 1 and FrameCount; 0 is the batch just submitted, and   *)
(* within a frame the slot's batch is done.                                *)
LEMMA Ages ==
  ASSUME IInv, NEW b \in Pending \cap GraphicsBatches
  PROVE  /\ Age(b) \in 0 .. FrameCount
         /\ pc # "present" => Age(b) # 0
         /\ pc \in InFrame => Age(b) # FrameCount
         /\ b.value \in Nat \ {0}
<1>1. b \in Batches /\ b.value \in Nat \ {0} /\ b.queue = Graphics
  BY KindOf DEF Batches
<1>2. semaphore[Graphics] < b.value /\ b.value <= submitted[Graphics]
  BY <1>1, PendingFacts DEF IInv
<1>3. semaphore[Graphics] \in Nat /\ submitted[Graphics] \in Nat /\ iterations \in Nat
  BY Sizes DEF IInv, QueueType, QueuesTyped, AppType
<1>4. QED
  BY <1>1, <1>2, <1>3, Sizes DEF IInv, Rotation, Lead, Age

(* What the slot of this iteration uses is not in flight.                  *)
LEMMA SlotFree ==
  ASSUME IInv, pc \in {"acquire"} \cup Acquired, NEW b \in Pending
  PROVE  /\ b.list # GraphicsList(frame)
         /\ Available(semIndex) \notin b.waitSem
<1>1. /\ b \in Batches /\ frame \in 0 .. FrameCount - 1
      /\ semIndex \in 0 .. SemaphoreCount - 1
  BY WorkFacts, Sizes DEF IInv, AppType
<1>2. CASE b \in GraphicsBatches
  <2>1. Age(b) \in 1 .. FrameCount - 1
    BY <1>2, Ages, Sizes DEF InFrame, Acquired
  <2>2. /\ b.list = GraphicsList(Back(frame, Age(b), FrameCount))
        /\ b.waitSem = {Available(Back(semIndex, Age(b), SemaphoreCount))}
    BY <1>2 DEF IInv, Rotation
  <2> HIDE DEF Age
  <2>3. Back(frame, Age(b), FrameCount) # frame
    BY <1>1, <2>1, Sizes DEF Back
  <2>4. Back(semIndex, Age(b), SemaphoreCount) # semIndex
    BY <1>1, <2>1, Sizes DEF Back
  <2>5. QED BY <2>2, <2>3, <2>4, ListNames, SemNames
<1>3. CASE b \in ComputeBatches
  BY <1>1, <1>3, KindOf, ListNames
<1>4. CASE b \in Presents
  <2>1. PICK i \in Images : b = PresentItem(i)
    BY <1>1, <1>4, KindOf
  <2>2. b.waitSem = {Rendered(i)} /\ b.list[1] = "present"
    BY <2>1 DEF PresentItem
  <2>3. QED BY <2>2, SemNames, ListNames
<1>5. QED BY <1>1, <1>2, <1>3, <1>4 DEF Batches

-----------------------------------------------------------------------------
(* The stated invariants follow.                                           *)

(* The type invariant follows.                                             *)
LEMMA IInvTypeOK == IInv => TypeOK
BY Sizes DEF IInv, TypeOK, AppType, EngineType, QueueType, QueuesTyped

(* A batch older than the wait at the head of the loop is not in flight.   *)
LEMMA IInvUniform == IInv => UniformNotInUse
BY SlotFree DEF UniformNotInUse, InFlight, Acquired

(* The same for both lists of a slot.                                      *)
LEMMA IInvLists == IInv => ListsNotInFlight
<1> SUFFICES ASSUME IInv, pc = "record"
             PROVE  /\ ~ InFlight(GraphicsList(frame))
                    /\ ~ InFlight(ComputeList(frame))
  BY DEF ListsNotInFlight
<1>1. \A b \in Pending : b.list # GraphicsList(frame)
  BY SlotFree DEF Acquired
<1>2. ASSUME NEW c \in Pending PROVE c.list # ComputeList(frame)
  <2> SUFFICES ASSUME c.list = ComputeList(frame) PROVE FALSE
    OBVIOUS
  <2>1. c \in Batches /\ frame \in Frames
    BY WorkFacts DEF IInv, AppType
  <2>2. c \in ComputeBatches
    <3>1. c \notin GraphicsBatches
      BY <2>1, KindOf, ListNames
    <3>2. c \notin Presents
      BY <2>1, KindOf, ListNames DEF IsPresent
    <3>3. QED BY <2>1, <3>1, <3>2 DEF Batches
  <2>3. \E g \in Pending : g.list = GraphicsList(frame)
    BY <2>1, <2>2 DEF IInv, ComputeCovered
  <2>4. QED BY <1>1, <2>3
<1>3. QED BY <1>1, <1>2 DEF InFlight

(* An acquire semaphore in use belongs to a younger batch.                 *)
LEMMA IInvAcquire == IInv => AcquireSemaphoreUnused
<1> SUFFICES ASSUME IInv, pc = "acquire"
             PROVE  /\ binary[Available(semIndex)] = "unsignaled"
                    /\ \A b \in Pending : Available(semIndex) \notin b.waitSem
  BY DEF AcquireSemaphoreUnused
<1>1. \A b \in Pending : Available(semIndex) \notin b.waitSem
  BY SlotFree
<1>2. binary[Available(semIndex)] = "unsignaled"
  BY <1>1 DEF IInv, AvailableInUse, AppType, Acquired
<1>3. QED BY <1>1, <1>2

(* The image acquired is in no other batch, so its semaphore is unused.    *)
LEMMA IInvRender == IInv => RenderSemaphoreUnused
<1> SUFFICES ASSUME IInv, pc = "submitGraphics", acquireFailures = 0
             PROVE  /\ binary[Rendered(image)] = "unsignaled"
                    /\ \A b \in Pending :
                         Rendered(image) \notin b.waitSem \cup b.signalSem
  BY DEF RenderSemaphoreUnused
<1>1. image \in Images
  BY DEF IInv, AppType
<1>2. \A n \in 1 .. Len(W) : /\ W[n] # PresentItem(image)
                             /\ Rendered(image) \notin W[n].signalSem
  BY DEF IInv, NothingFailed, AppHolds, Acquired
<1>3. binary[Rendered(image)] = "unsignaled"
  BY <1>1, <1>2 DEF IInv, RenderedInUse, Presented
<1>4. ASSUME NEW b \in Pending
      PROVE  Rendered(image) \notin b.waitSem \cup b.signalSem
  <2>1. /\ b \in Batches
        /\ b.queue = Graphics => \E n \in 1 .. Len(W) : b = W[n]
    BY WorkFacts DEF IInv
  <2>2. CASE b \in GraphicsBatches
    BY <1>2, <2>1, <2>2, KindOf, SemNames
  <2>3. CASE b \in ComputeBatches
    BY <2>1, <2>3, KindOf
  <2>4. CASE b \in Presents
    <3>1. PICK i \in Images : b = PresentItem(i)
      BY <2>1, <2>4, KindOf
    <3>2. b.waitSem = {Rendered(i)} /\ b.signalSem = {} /\ b.queue = Graphics
      BY <3>1 DEF PresentItem
    <3>3. i # image
      BY <1>2, <2>1, <3>1, <3>2
    <3>4. QED BY <3>2, <3>3, SemNames
  <2>5. QED BY <2>1, <2>2, <2>3, <2>4 DEF Batches
<1>5. QED BY <1>3, <1>4

(* Both queues are idle at the end.                                        *)
LEMMA IInvDestroyed == IInv => DestroyedWhenIdle
<1> SUFFICES ASSUME IInv, pc = "destroyed", NEW b \in Pending, ~ IsPresent(b)
             PROVE  FALSE
  BY DEF DestroyedWhenIdle
<1>1. b \in Batches /\ b \notin Presents
  BY WorkFacts, KindOf DEF IInv
<1>2. b.value # 0 /\ b.value \in Nat /\ b.queue \in {Graphics, Compute}
  BY <1>1, KindOf DEF Batches
<1>3. semaphore[b.queue] < b.value /\ b.value <= submitted[b.queue]
  BY <1>2, PendingFacts DEF IInv
<1>4. semaphore[b.queue] >= submitted[b.queue]
  BY <1>2 DEF IInv, IdleAtEnd, Idle
<1>5. QED BY <1>2, <1>3, <1>4, Sizes DEF IInv, QueueType, QueuesTyped

-----------------------------------------------------------------------------
(* Nothing was submitted, no semaphore signaled, no image acquired.        *)
LEMMA InitIInv == Init => IInv
<1> SUFFICES ASSUME Init PROVE IInv
  OBVIOUS
<1> USE DEF Init, QueueInit
<1>1. \A k \in VkQueues : work[k] = <<>> /\ Len(work[k]) = 0
  BY EmptySeq
<1>2. Pending = {}
  BY <1>1, PendingIs
<1>3. Len(W) = 0
  BY <1>1, Sizes DEF W
<1>4. QueueType(Batches) /\ WorkOrdered
  BY <1>1, EmptySeq DEF QueueType, QueuesTyped, WorkOrdered, Ordered
<1>5. AppType
  BY Sizes, FrameLoopAssumption DEF AppType, Images
<1>6. EngineType
  BY SemNames DEF EngineType
<1>7. Rotation /\ Lead /\ IdleAtEnd
  BY <1>2, Sizes DEF Rotation, Lead, IdleAtEnd, InFrame, Acquired
<1>8. SlotTimelines
  <2>1. \A d \in 0 .. FrameCount : Back(frame, d, FrameCount) \in Frames
    BY Sizes DEF Back
  <2>2. QED BY <2>1 DEF SlotTimelines
<1>9. ComputeCovered
  BY <1>2 DEF ComputeCovered
<1>10. AvailableInUse
  BY SemNames DEF AvailableInUse
<1>11. NothingFailed
  BY <1>3 DEF NothingFailed, Live, Acquired
<1>12. LiveBatches /\ AppHolds
  BY <1>3 DEF LiveBatches, AppHolds, Acquired
<1>13. RenderedInUse
  BY <1>3, SemNames DEF RenderedInUse
<1>14. QED
  BY <1>4, <1>5, <1>6, <1>7, <1>8, <1>9, <1>10, <1>11, <1>12, <1>13 DEF IInv

(* Steps of the application that touch neither queues nor images.          *)
LEMMA ControlStep ==
  ASSUME IInv, UNCHANGED <<queueVars, frame, frameT, computeT, image, semIndex,
                           binary, engine, iterations, acquireFailures>>,
         pc \notin {"present", "submitGraphics"}, pc' # "present",
         pc \in Acquired <=> pc' \in Acquired,
         pc' \in InFrame \cup {"top", "resize", "wait", "graphicsIdle",
                               "computeIdle", "destroyed"},
         pc' \in InFrame => semaphore[Graphics] + FrameCount >= iterations + 1,
         IdleAtEnd'
  PROVE  IInv'
<1>1. /\ W' = W /\ Pending' = Pending
      /\ \A n : Live(n)' <=> Live(n)
      /\ \A n : LiveBatch(n)' <=> LiveBatch(n)
  BY DEF queueVars, W, Pending, Items, Live, LiveBatch, Holds, Owned
<1>2. QueueType(Batches)' /\ WorkOrdered' /\ EngineType'
  BY DEF IInv, queueVars, QueueType, QueuesTyped, WorkOrdered, Ordered, EngineType
<1>3. AppType'
  BY DEF IInv, AppType, queueVars
<1>4. Rotation' /\ SlotTimelines' /\ Lead'
  BY <1>1 DEF IInv, queueVars, Rotation, SlotTimelines, Lead, Age
<1>5. ComputeCovered'
  BY <1>1 DEF IInv, ComputeCovered
<1>6. AvailableInUse'
  BY <1>1 DEF IInv, AvailableInUse
<1>7. NothingFailed'
  BY <1>1 DEF IInv, NothingFailed
<1>8. LiveBatches' /\ AppHolds'
  BY <1>1 DEF IInv, LiveBatches, AppHolds, Holds, Owned
<1>9. RenderedInUse'
  BY <1>1 DEF IInv, RenderedInUse, Presented
<1>10. QED
  BY <1>2, <1>3, <1>4, <1>5, <1>6, <1>7, <1>8, <1>9 DEF IInv

(* The statements that neither submit nor acquire.                         *)
LEMMA ControlSteps ==
  ASSUME IInv, \/ StartIteration \/ CloseWindow \/ WaitForSlot
               \/ WriteUniform \/ RecordLists \/ GraphicsIdle \/ ComputeIdle
  PROVE  IInv'
<1> USE DEF Goto, InFrame, Acquired
<1>1. ASSUME StartIteration \/ CloseWindow PROVE IInv'
  <2>1. IdleAtEnd'
    BY <1>1 DEF StartIteration, CloseWindow, IdleAtEnd
  <2>2. QED BY <1>1, <2>1, ControlStep DEF StartIteration, CloseWindow
<1>2. ASSUME WaitForSlot PROVE IInv'
  <2>1. frame \in 0 .. FrameCount - 1 /\ pc = "wait"
    BY <1>2, Sizes DEF IInv, AppType, WaitForSlot
  <2>2. Back(frame, FrameCount, FrameCount) = frame
    BY <2>1, Sizes, BackFacts
  <2>3. frameT[frame] + FrameCount >= iterations + 1
    BY <2>1, <2>2, Sizes DEF IInv, SlotTimelines
  <2>4. semaphore[Graphics] >= frameT[frame]
    BY <1>2 DEF WaitForSlot, WaitSatisfied, Reached, Timeline
  <2>5. semaphore[Graphics] + FrameCount >= iterations + 1
    BY <2>1, <2>3, <2>4, Sizes DEF IInv, QueueType, QueuesTyped, AppType
  <2>6. IdleAtEnd'
    BY <1>2 DEF WaitForSlot, IdleAtEnd
  <2>7. QED BY <1>2, <2>5, <2>6, ControlStep DEF WaitForSlot
<1>3. ASSUME WriteUniform \/ RecordLists PROVE IInv'
  <2>1. semaphore[Graphics] + FrameCount >= iterations + 1
    BY <1>3 DEF WriteUniform, RecordLists, IInv, Lead
  <2>2. IdleAtEnd'
    BY <1>3 DEF WriteUniform, RecordLists, IdleAtEnd
  <2>3. QED BY <1>3, <2>1, <2>2, ControlStep DEF WriteUniform, RecordLists
<1>4. ASSUME GraphicsIdle \/ ComputeIdle PROVE IInv'
  <2>1. IdleAtEnd'
    BY <1>4 DEF GraphicsIdle, ComputeIdle, IInv, IdleAtEnd, Idle, queueVars
  <2>2. QED BY <1>4, <2>1, ControlStep DEF GraphicsIdle, ComputeIdle
<1>5. QED BY <1>1, <1>2, <1>3, <1>4

(* The queues stay as they are.                                            *)
LEMMA QueuesStay ==
  ASSUME IInv, UNCHANGED queueVars
  PROVE  /\ QueueType(Batches)' /\ WorkOrdered'
         /\ W' = W /\ Pending' = Pending
BY DEF IInv, queueVars, QueueType, QueuesTyped, WorkOrdered, Ordered, W, Pending, Items

(* The device is idle: no image is in anybody's hands.                     *)
LEMMA ResizeStep ==
  ASSUME IInv, Resize
  PROVE  IInv'
<1>1. /\ pc = "resize" /\ pc' = "wait" /\ Pending = {}
      /\ \A i \in Images : engine'[i] \in {Free, Gone}
      /\ engine' \in [Images -> {Free, Gone}]
      /\ UNCHANGED <<queueVars, frame, frameT, computeT, image, semIndex,
                     binary, iterations, acquireFailures>>
  BY DEF Resize, Goto
<1>2. QueueType(Batches)' /\ WorkOrdered' /\ W' = W /\ Pending' = Pending
  BY <1>1, QueuesStay
<1>3. Len(W) = 0
  BY <1>1, WorkFacts DEF IInv
<1>4. AppType'
  BY <1>1 DEF IInv, AppType, queueVars, InFrame, Acquired
<1>5. EngineType'
  BY <1>1, SemNames DEF IInv, EngineType
<1>6. Rotation' /\ SlotTimelines' /\ Lead' /\ ComputeCovered' /\ IdleAtEnd'
  BY <1>1, <1>2 DEF IInv, queueVars, Rotation, SlotTimelines, Lead, Age,
                    ComputeCovered, IdleAtEnd, InFrame, Acquired
<1>7. AvailableInUse'
  BY <1>1, <1>2 DEF IInv, AvailableInUse, Acquired
<1>8. NothingFailed'
  BY <1>1, <1>2, <1>3 DEF NothingFailed, Live, Acquired
<1>9. LiveBatches' /\ AppHolds'
  BY <1>1, <1>2, <1>3 DEF LiveBatches, AppHolds, Acquired
<1>10. RenderedInUse'
  BY <1>1, <1>2, <1>3 DEF IInv, RenderedInUse, Presented
<1>11. QED
  BY <1>2, <1>4, <1>5, <1>6, <1>7, <1>8, <1>9, <1>10 DEF IInv

(* The image acquired is free: nobody holds it, and the semaphore is one   *)
(* that no batch in flight waits for.                                      *)
LEMMA AcquireStep ==
  ASSUME IInv, AcquireNextImage
  PROVE  IInv'
<1> PICK s : s = Available(semIndex)
  OBVIOUS
<1>1. PICK i \in Images : /\ engine[i] = Free /\ image' = i
                          /\ engine' = [engine EXCEPT ![i] = s]
  BY DEF AcquireNextImage
<1>2. /\ pc = "acquire" /\ pc' = "write"
      /\ binary' = [binary EXCEPT ![s] = "pending"]
      /\ UNCHANGED <<queueVars, frame, frameT, computeT, semIndex, iterations,
                     acquireFailures>>
  BY DEF AcquireNextImage, Goto
<1>3. QueueType(Batches)' /\ WorkOrdered' /\ W' = W /\ Pending' = Pending
  BY <1>2, QueuesStay
<1>4. /\ binary[s] = "unsignaled" /\ \A b \in Pending : s \notin b.waitSem
      /\ s \in AvailableSems /\ s \in Sems
  BY <1>2, IInvAcquire, SemNames DEF AcquireSemaphoreUnused, IInv, AppType
<1>5. /\ \A r \in Sems : r # s => binary'[r] = binary[r]
      /\ binary'[s] = "pending"
      /\ \A j \in Images : j # i => engine'[j] = engine[j]
      /\ engine'[i] = s
      /\ binary \in [Sems -> {"unsignaled", "pending", "signaled"}]
      /\ engine \in [Images -> {Free, OwnedByApp, Shown, Gone} \cup AvailableSems]
  BY <1>1, <1>2, <1>4 DEF IInv, EngineType
<1>6. AppType'
  BY <1>1, <1>2 DEF IInv, AppType, queueVars, InFrame, Acquired
<1>7. EngineType'
  <2>1. \A j \in Images : j # i => engine[j] # s
    BY <1>4 DEF IInv, EngineType
  <2>2. /\ binary' \in [Sems -> {"unsignaled", "pending", "signaled"}]
        /\ engine' \in [Images -> {Free, OwnedByApp, Shown, Gone} \cup AvailableSems]
    BY <1>1, <1>2, <1>4, <1>5
  <2>3. ASSUME NEW j \in Images, engine'[j] \in AvailableSems
        PROVE  /\ binary'[engine'[j]] = "pending"
               /\ \A m \in Images : engine'[m] = engine'[j] => m = j
    BY <1>5, <2>1, <2>3, SemNames DEF IInv, EngineType
  <2>4. QED BY <2>2, <2>3 DEF EngineType
<1>8. Rotation' /\ SlotTimelines' /\ Lead' /\ ComputeCovered' /\ IdleAtEnd'
  BY <1>2, <1>3 DEF IInv, queueVars, Rotation, SlotTimelines, Lead, Age,
                    ComputeCovered, IdleAtEnd, InFrame, Acquired
<1>9. AvailableInUse'
  <2> SUFFICES ASSUME NEW r \in 0 .. SemaphoreCount - 1,
                      binary'[Available(r)] # "unsignaled"
               PROVE  \/ r = semIndex
                      \/ \E b \in Pending : Available(r) \in b.waitSem
    BY <1>2, <1>3 DEF AvailableInUse, Acquired
  <2>1. CASE Available(r) = s
    BY <2>1, SemNames
  <2>2. CASE Available(r) # s
    BY <1>2, <1>5, <2>2, SemNames DEF IInv, AvailableInUse, Acquired
  <2>3. QED BY <2>1, <2>2
<1>10. \A n \in 1 .. Len(W) : \A r \in Waits(W[n]) : r # s /\ r \in Sems
  BY <1>4, WorkFacts, SemNames DEF IInv, Waits
<1>11. ASSUME NEW n \in 0 .. Len(W) PROVE Live(n)' <=> Live(n)
  <2>1. \A m \in 1 .. n : \A r \in Waits(W[m]) : binary'[r] = binary[r]
    BY <1>5, <1>10, WorkFacts DEF IInv
  <2>2. QED BY <1>3, <2>1 DEF Live, Waits
<1>12. NothingFailed'
  BY <1>2, <1>3, <1>5, <1>11, WorkFacts DEF IInv, NothingFailed
<1>13. \A n \in 1 .. Len(W) : Live(n) =>
         /\ Rendered(i) \notin W[n].signalSem /\ W[n] # PresentItem(i)
  <2> SUFFICES ASSUME NEW n \in 1 .. Len(W), Live(n)
               PROVE  Rendered(i) \notin W[n].signalSem /\ W[n] # PresentItem(i)
    OBVIOUS
  <2>1. LiveBatch(n)
    BY DEF IInv, LiveBatches
  <2>2. W[n] # PresentItem(i)
    BY <1>1, <2>1, SemNames DEF LiveBatch, Owned
  <2>3. ASSUME Rendered(i) \in W[n].signalSem PROVE FALSE
    <3>1. W[n] \in GraphicsBatches
      BY <2>3, WorkFacts, KindOf DEF IInv, Batches
    <3>2. PICK r \in AvailableSems : r \in Waits(W[n])
      BY <3>1, KindOf DEF Batches
    <3>3. Holds(r, i)
      BY <2>1, <2>3, <3>2 DEF LiveBatch
    <3>4. QED BY <1>1, <3>2, <3>3, SemNames DEF Holds
  <2>4. QED BY <2>2, <2>3
<1>14. LiveBatches'
  <2> SUFFICES ASSUME NEW n \in 1 .. Len(W), Live(n)
               PROVE  LiveBatch(n)'
    BY <1>3, <1>11, WorkFacts DEF IInv, LiveBatches
  <2>1. LiveBatch(n)
    BY DEF IInv, LiveBatches
  <2> SUFFICES ASSUME NEW j \in Images
               PROVE  /\ Rendered(j) \in W[n].signalSem =>
                           \A r \in Waits(W[n]) : Holds(r, j)'
                      /\ W[n] = PresentItem(j) => Owned(j)'
                      /\ Rendered(j) \in W[n].signalSem \/ W[n] = PresentItem(j) =>
                           \A m \in 1 .. n - 1 : W[m] # PresentItem(j)
    BY <1>3 DEF LiveBatch, Waits
  <2>2. CASE j = i
    BY <1>13, <2>2
  <2>3. CASE j # i
    BY <1>5, <1>10, <2>1, <2>3 DEF LiveBatch, Holds, Owned
  <2>4. QED BY <2>2, <2>3
<1>15. AppHolds'
  <2> SUFFICES ASSUME Live(Len(W))
               PROVE  /\ Holds(s, i)'
                      /\ \A n \in 1 .. Len(W) : /\ W[n] # PresentItem(i)
                                                /\ Rendered(i) \notin W[n].signalSem
    BY <1>1, <1>2, <1>3, <1>11, WorkFacts DEF IInv, AppHolds, Holds
  <2>1. Holds(s, i)'
    BY <1>5 DEF Holds
  <2>2. \A n \in 1 .. Len(W) : Live(n)
    BY WorkFacts DEF IInv, Live
  <2>3. QED BY <1>13, <2>1, <2>2
<1>16. RenderedInUse'
  <2>1. \A j \in Images : binary'[Rendered(j)] = binary[Rendered(j)]
    BY <1>4, <1>5, SemNames
  <2>2. QED BY <1>2, <1>3, <2>1 DEF IInv, RenderedInUse, Presented
<1>17. QED
  BY <1>3, <1>6, <1>7, <1>8, <1>9, <1>12, <1>14, <1>15, <1>16 DEF IInv

(* Nothing is going to signal the semaphore: what is submitted with it is  *)
(* not live.                                                               *)
LEMMA AcquireFailsStep ==
  ASSUME IInv, AcquireNextImageFails
  PROVE  IInv'
<1>1. /\ pc = "acquire" /\ pc' = "write"
      /\ acquireFailures' = acquireFailures + 1
      /\ UNCHANGED <<queueVars, frame, frameT, computeT, image, semIndex,
                     binary, engine, iterations>>
  BY DEF AcquireNextImageFails, Goto
<1>2. QueueType(Batches)' /\ WorkOrdered' /\ W' = W /\ Pending' = Pending
  BY <1>1, QueuesStay
<1>3. binary[Available(semIndex)] = "unsignaled"
  BY <1>1, IInvAcquire DEF AcquireSemaphoreUnused
<1>4. acquireFailures' \in Nat /\ acquireFailures' # 0
  BY <1>1 DEF IInv, AppType
<1>5. /\ \A n : Live(n)' <=> Live(n)
      /\ \A n : LiveBatch(n)' <=> LiveBatch(n)
  BY <1>1, <1>2 DEF Live, LiveBatch, Holds, Owned, Waits
<1>6. AppType' /\ EngineType'
  BY <1>1, <1>4 DEF IInv, AppType, EngineType, queueVars, InFrame, Acquired
<1>7. Rotation' /\ SlotTimelines' /\ Lead' /\ ComputeCovered' /\ IdleAtEnd'
  BY <1>1, <1>2 DEF IInv, queueVars, Rotation, SlotTimelines, Lead, Age,
                    ComputeCovered, IdleAtEnd, InFrame, Acquired
<1>8. AvailableInUse'
  BY <1>1, <1>2 DEF IInv, AvailableInUse, Acquired
<1>9. NothingFailed'
  BY <1>4 DEF NothingFailed
<1>10. LiveBatches' /\ AppHolds'
  BY <1>1, <1>2, <1>3, <1>5 DEF IInv, LiveBatches, AppHolds
<1>11. RenderedInUse'
  BY <1>1, <1>2 DEF IInv, RenderedInUse, Presented
<1>12. QED
  BY <1>2, <1>6, <1>7, <1>8, <1>9, <1>10, <1>11 DEF IInv

(* The presentation engine hands image i over and signals its semaphore.   *)
LEMMA HandOverStep ==
  ASSUME IInv, NEW i \in Images, HandOver(i)
  PROVE  IInv'
<1> PICK s : s = engine[i]
  OBVIOUS
<1>1. /\ s \in AvailableSems /\ s \in Sems
      /\ engine' = [engine EXCEPT ![i] = OwnedByApp]
      /\ binary' = [binary EXCEPT ![s] = "signaled"]
      /\ UNCHANGED <<queueVars, appVars>>
  BY SemNames DEF HandOver
<1>2. QueueType(Batches)' /\ WorkOrdered' /\ W' = W /\ Pending' = Pending
  BY <1>1, QueuesStay
<1>3. /\ binary[s] = "pending" /\ engine[i] = s
      /\ \A j \in Images : engine[j] = s => j = i
      /\ \A r \in Sems : r # s => binary'[r] = binary[r]
      /\ binary'[s] = "signaled"
      /\ \A j \in Images : j # i => engine'[j] = engine[j]
      /\ engine'[i] = OwnedByApp
      /\ binary' \in [Sems -> {"unsignaled", "pending", "signaled"}]
      /\ engine' \in [Images -> {Free, OwnedByApp, Shown, Gone} \cup AvailableSems]
  BY <1>1 DEF IInv, EngineType
<1>4. AppType'
  BY <1>1 DEF IInv, AppType, queueVars, appVars
<1>5. EngineType'
  <2>1. ASSUME NEW j \in Images, engine'[j] \in AvailableSems
        PROVE  /\ binary'[engine'[j]] = "pending"
               /\ \A m \in Images : engine'[m] = engine'[j] => m = j
    <3>1. j # i /\ engine'[j] = engine[j] /\ engine[j] \in Sems
      BY <1>3, <2>1, SemNames
    <3>2. engine[j] # s
      BY <1>3, <3>1
    <3>3. QED BY <1>3, <2>1, <3>1, <3>2, SemNames DEF IInv, EngineType
  <2>2. QED BY <1>3, <2>1 DEF EngineType
<1>6. Rotation' /\ SlotTimelines' /\ Lead' /\ ComputeCovered' /\ IdleAtEnd'
  BY <1>1, <1>2 DEF IInv, queueVars, appVars, Rotation, SlotTimelines, Lead, Age,
                    ComputeCovered, IdleAtEnd, Idle
<1>7. \A r \in Sems : binary'[r] # "unsignaled" <=> binary[r] # "unsignaled"
  BY <1>1, <1>3
<1>8. AvailableInUse'
  BY <1>1, <1>2, <1>7, SemNames DEF IInv, AvailableInUse, appVars
<1>9. \A n \in 1 .. Len(W) : Waits(W[n]) \subseteq Sems
  BY SemNames DEF Waits
<1>10. ASSUME NEW n \in 0 .. Len(W) PROVE Live(n)' <=> Live(n)
  BY <1>2, <1>7, <1>9, WorkFacts DEF IInv, Live, Waits
<1>11. NothingFailed'
  <2>1. Available(semIndex) \in Sems
    BY SemNames DEF IInv, AppType
  <2>2. QED
    BY <1>1, <1>2, <1>7, <1>10, <2>1, WorkFacts DEF IInv, NothingFailed, appVars
<1>12. /\ \A r \in Sems, j \in Images : Holds(r, j) => Holds(r, j)'
       /\ \A j \in Images : Owned(j) => Owned(j)'
  BY <1>1, <1>3, SemNames DEF Holds, Owned
<1>13. LiveBatches'
  <2> SUFFICES ASSUME NEW n \in 1 .. Len(W), Live(n)
               PROVE  LiveBatch(n)'
    BY <1>2, <1>10, WorkFacts DEF IInv, LiveBatches
  <2>1. LiveBatch(n)
    BY DEF IInv, LiveBatches
  <2>2. QED
    BY <1>2, <1>9, <1>12, <2>1 DEF LiveBatch, Waits
<1>14. AppHolds'
  <2>1. Available(semIndex) \in Sems /\ image \in Images
    BY SemNames DEF IInv, AppType
  <2>3. Holds(Available(semIndex), image) => Holds(Available(semIndex), image)'
    BY <1>1, <1>3, <2>1, SemNames DEF Holds, appVars
  <2>4. Owned(image) => Owned(image)'
    BY <1>1, <1>3, <2>1, SemNames DEF Owned, appVars
  <2>5. QED
    BY <1>1, <1>2, <1>7, <1>10, <2>1, <2>3, <2>4, WorkFacts
       DEF IInv, AppHolds, appVars
<1>15. RenderedInUse'
  <2>1. \A j \in Images : binary'[Rendered(j)] = binary[Rendered(j)]
    BY <1>1, <1>3, SemNames
  <2>2. QED BY <1>1, <1>2, <2>1 DEF IInv, RenderedInUse, Presented, appVars
<1>16. QED
  BY <1>2, <1>4, <1>5, <1>6, <1>8, <1>11, <1>13, <1>14, <1>15 DEF IInv

(* It lets go of an image it shows, which nobody holds.                    *)
LEMMA LetGoStep ==
  ASSUME IInv, NEW i \in Images, LetGo(i)
  PROVE  IInv'
<1>1. /\ engine[i] = Shown
      /\ engine' = [engine EXCEPT ![i] = Free]
      /\ UNCHANGED <<queueVars, appVars, binary>>
  BY DEF LetGo
<1>2. QueueType(Batches)' /\ WorkOrdered' /\ W' = W /\ Pending' = Pending
  BY <1>1, QueuesStay
<1>3. /\ \A j \in Images : j # i => engine'[j] = engine[j]
      /\ engine'[i] = Free
      /\ engine' \in [Images -> {Free, OwnedByApp, Shown, Gone} \cup AvailableSems]
  BY <1>1 DEF IInv, EngineType
<1>4. AppType'
  BY <1>1 DEF IInv, AppType, queueVars, appVars
<1>5. EngineType'
  BY <1>1, <1>3, SemNames DEF IInv, EngineType
<1>6. Rotation' /\ SlotTimelines' /\ Lead' /\ ComputeCovered' /\ IdleAtEnd'
  BY <1>1, <1>2 DEF IInv, queueVars, appVars, Rotation, SlotTimelines, Lead, Age,
                    ComputeCovered, IdleAtEnd, Idle
<1>7. AvailableInUse' /\ RenderedInUse'
  BY <1>1, <1>2 DEF IInv, AvailableInUse, RenderedInUse, Presented, appVars
<1>8. \A n : Live(n)' <=> Live(n)
  BY <1>1, <1>2 DEF Live, Waits
<1>9. NothingFailed'
  BY <1>1, <1>2, <1>8 DEF IInv, NothingFailed, appVars
<1>10. /\ \A r \in AvailableSems, j \in Images : Holds(r, j) => Holds(r, j)'
       /\ \A j \in Images : Owned(j) => Owned(j)'
  BY <1>1, <1>3, SemNames DEF Holds, Owned
<1>11. LiveBatches'
  <2> SUFFICES ASSUME NEW n \in 1 .. Len(W), Live(n)
               PROVE  LiveBatch(n)'
    BY <1>2, <1>8 DEF LiveBatches
  <2>1. LiveBatch(n)
    BY DEF IInv, LiveBatches
  <2>2. QED
    BY <1>2, <1>10, <2>1 DEF LiveBatch, Waits
<1>12. AppHolds'
  <2>1. Available(semIndex) \in AvailableSems /\ image \in Images
    BY SemNames DEF IInv, AppType
  <2>2. Holds(Available(semIndex), image) => Holds(Available(semIndex), image)'
    BY <1>1, <1>3, <2>1, SemNames DEF Holds, appVars
  <2>3. Owned(image) => Owned(image)'
    BY <1>1, <1>3, <2>1, SemNames DEF Owned, appVars
  <2>4. QED
    BY <1>1, <1>2, <1>8, <2>2, <2>3 DEF IInv, AppHolds, appVars
<1>13. QED
  BY <1>2, <1>4, <1>5, <1>6, <1>7, <1>9, <1>11, <1>12 DEF IInv

-----------------------------------------------------------------------------
(* A batch is appended to a VkQueue: the graphics queue's work keeps its   *)
(* positions and may get one more.                                         *)
LEMMA WorkGrows ==
  ASSUME IInv, NEW k \in VkQueues, NEW b \in Batches,
         work' = [work EXCEPT ![k] = Append(@, b)],
         UNCHANGED <<vkQueue, binary, engine>>
  PROVE  /\ Pending' = Pending \cup {b}
         /\ k = vkQueue[Graphics] => /\ Len(W') = Len(W) + 1
                                     /\ W'[Len(W) + 1] = b
         /\ k # vkQueue[Graphics] => Len(W') = Len(W)
         /\ \A n \in 1 .. Len(W) : /\ W'[n] = W[n]
                                   /\ LiveBatch(n)' <=> LiveBatch(n)
         /\ \A n \in 0 .. Len(W) : Live(n)' <=> Live(n)
         /\ Live(Len(W))' => Live(Len(W))
<1>1. /\ Pending' = Pending \cup {b}
      /\ Len(work[k]) \in Nat /\ Len(work'[k]) = Len(work[k]) + 1
      /\ \A i \in 1 .. Len(work[k]) : work'[k][i] = work[k][i]
      /\ work'[k][Len(work[k]) + 1] = b
      /\ \A m \in VkQueues \ {k} : work'[m] = work[m]
  <2>1. Appended(VkQueues, Batches, work, k, b, work')
    BY DEF IInv, QueueType, QueuesTyped, Appended
  <2>2. InFifos(VkQueues, work') = InFifos(VkQueues, work) \cup {b}
    BY <2>1, AppendItem
  <2>3. Pending' = Pending \cup {b}
    BY <2>2, PendingIs
  <2>4. /\ Len(work[k]) \in Nat /\ Len(work'[k]) = Len(work[k]) + 1
        /\ \A i \in 1 .. Len(work[k]) : work'[k][i] = work[k][i]
        /\ work'[k][Len(work[k]) + 1] = b
    <3>1. work[k] \in Seq(Batches) /\ work'[k] = Append(work[k], b)
      BY DEF IInv, QueueType, QueuesTyped
    <3>2. QED BY <3>1, AppendProperties
  <2>5. \A m \in VkQueues \ {k} : work'[m] = work[m]
    BY <2>1, AppendItem
  <2>6. QED BY <2>3, <2>4, <2>5
<1>2. Len(W) \in Nat /\ vkQueue[Graphics] \in VkQueues
  BY WorkFacts DEF IInv
<1>3. /\ k = vkQueue[Graphics] => Len(W') = Len(W) + 1 /\ W'[Len(W) + 1] = b
      /\ k # vkQueue[Graphics] => W' = W
      /\ \A n \in 1 .. Len(W) : W'[n] = W[n]
  BY <1>1, <1>2 DEF W
<1>4. ASSUME NEW n \in 0 .. Len(W) PROVE Live(n)' <=> Live(n)
  <2>1. \A m \in 1 .. n : W'[m] = W[m]
    BY <1>2, <1>3
  <2>2. QED BY <2>1 DEF Live, Waits
<1>5. ASSUME NEW n \in 1 .. Len(W) PROVE LiveBatch(n)' <=> LiveBatch(n)
  <2>1. \A m \in 1 .. n : W'[m] = W[m]
    BY <1>2, <1>3
  <2>2. W'[n] = W[n] /\ \A m \in 1 .. n - 1 : W'[m] = W[m]
    BY <1>2, <2>1
  <2>3. QED BY <2>2 DEF LiveBatch, Waits, Holds, Owned
<1>6. Live(Len(W))' => Live(Len(W))
  <2>1. \A m \in 1 .. Len(W) : m \in 1 .. Len(W') /\ W'[m] = W[m]
    BY <1>2, <1>3
  <2>2. QED BY <2>1 DEF Live, Waits
<1>7. QED BY <1>1, <1>3, <1>4, <1>5, <1>6

(* The queue's order survives a batch that counts as the next one.         *)
LEMMA WorkStaysOrdered ==
  ASSUME IInv, NEW b \in Batches, vkQueue[b.queue] \in VkQueues,
         work' = [work EXCEPT ![vkQueue[b.queue]] = Append(@, b)],
         Counted(submitted, b, submitted'), UNCHANGED <<vkQueue, semaphore>>
  PROVE  QueueType(Batches)' /\ WorkOrdered'
<1>1. Appended(VkQueues, Batches, work, vkQueue[b.queue], b, work')
  BY DEF IInv, QueueType, QueuesTyped, Appended
<1>2. /\ QueuesTyped(Queues, VkQueues, Batches, vkQueue, submitted', semaphore, work')
      /\ Ordered(VkQueues, vkQueue, submitted', semaphore, work')
  BY <1>1, TheyAreBatches, OrderedAppend DEF IInv, QueueType, WorkOrdered
<1>3. QED BY <1>2 DEF QueueType, WorkOrdered

(* The compute submission: the graphics one is going to wait for it.       *)
LEMMA SubmitComputeStep ==
  ASSUME IInv, SubmitCompute
  PROVE  IInv'
<1> PICK b : b = Batch(Compute, ComputeList(frame), {}, {}, {})
  OBVIOUS
<1> PICK k : k = vkQueue[Compute]
  OBVIOUS
<1>1. /\ pc = "submitCompute" /\ pc' = "submitGraphics"
      /\ submitted' = [submitted EXCEPT ![Compute] = @ + 1]
      /\ work' = [work EXCEPT ![k] = Append(@, b)]
      /\ computeT' = submitted[Compute] + 1
      /\ UNCHANGED <<vkQueue, semaphore, frame, frameT, image, semIndex, binary,
                     engine, iterations, acquireFailures>>
  BY DEF SubmitCompute, SubmitOne, Goto, SignalValue
<1>2. /\ submitted[Compute] \in Nat /\ submitted[Graphics] \in Nat
      /\ k \in VkQueues /\ frame \in Frames
  BY Sizes DEF IInv, QueueType, QueuesTyped, AppType
<1>3. /\ b \in ComputeBatches /\ b.queue = Compute
      /\ b.value = submitted[Compute] + 1 /\ b.list = ComputeList(frame)
  BY <1>2 DEF Batch, TimelineWaits, SignalValue, ComputeBatches
<1>4. /\ b \in Batches /\ Waits(b) = {} /\ b.signalSem = {}
      /\ b \notin GraphicsBatches /\ \A i \in Images : b # PresentItem(i)
      /\ b.waitSem = {}
  <2>1. b \in Batches
    BY <1>3 DEF Batches
  <2>2. \A i \in Images : IsPresent(PresentItem(i))
    BY DEF PresentItem, IsPresent
  <2>3. QED BY <1>3, <2>1, <2>2, KindOf
<1>5. /\ Pending' = Pending \cup {b}
      /\ k = vkQueue[Graphics] => Len(W') = Len(W) + 1 /\ W'[Len(W) + 1] = b
      /\ k # vkQueue[Graphics] => Len(W') = Len(W)
      /\ \A n \in 1 .. Len(W) : W'[n] = W[n] /\ (LiveBatch(n)' <=> LiveBatch(n))
      /\ \A n \in 0 .. Len(W) : Live(n)' <=> Live(n)
      /\ Live(Len(W))' => Live(Len(W))
  <2>1. /\ work' = [work EXCEPT ![k] = Append(@, b)]
        /\ UNCHANGED <<vkQueue, binary, engine>>
    BY <1>1
  <2>2. b \in Batches /\ k \in VkQueues
    BY <1>2, <1>4
  <2>3. QED BY <2>1, <2>2, WorkGrows
<1>6. Len(W) \in Nat
  BY WorkFacts DEF IInv
<1>7. QueueType(Batches)' /\ WorkOrdered'
  <2>1. b \in Batches /\ vkQueue[b.queue] = k /\ k \in VkQueues
    BY <1>1, <1>2, <1>3, <1>4
  <2>2. Counted(submitted, b, submitted')
    BY <1>1, <1>2, <1>3, <1>4 DEF Counted
  <2>3. QED BY <1>1, <2>1, <2>2, WorkStaysOrdered
<1>8. /\ submitted'[Graphics] = submitted[Graphics]
      /\ submitted'[Compute] = submitted[Compute] + 1
  BY <1>1, <1>2, Sizes DEF IInv, QueueType, QueuesTyped
<1>9. AppType'
  BY <1>1, <1>2, <1>8 DEF IInv, AppType, InFrame, Acquired
<1>10. EngineType'
  BY <1>1 DEF IInv, EngineType
<1>11. Rotation'
  BY <1>1, <1>4, <1>5, <1>8 DEF IInv, Rotation, Age
<1>12. SlotTimelines' /\ Lead' /\ IdleAtEnd'
  BY <1>1 DEF IInv, SlotTimelines, Lead, IdleAtEnd, InFrame, Acquired
<1>13. ComputeCovered'
  <2> SUFFICES ASSUME NEW c \in Pending' \cap ComputeBatches, NEW f \in Frames,
                      c.list = ComputeList(f)
               PROVE  \/ f = frame /\ c.value <= computeT'
                      \/ \E g \in Pending' : /\ g.list = GraphicsList(f)
                                             /\ \E w \in g.waits : /\ w.queue = Compute
                                                                   /\ c.value <= w.value
    BY <1>1 DEF ComputeCovered
  <2>1. CASE c = b
    BY <1>1, <1>2, <1>3, <2>1, ListNames
  <2>2. CASE c \in Pending
    BY <1>1, <1>5, <2>2 DEF IInv, ComputeCovered
  <2>3. QED BY <1>5, <2>1, <2>2
<1>14. AvailableInUse'
  BY <1>1, <1>5 DEF IInv, AvailableInUse, Acquired
<1>15. NothingFailed'
  <2>1. Live(Len(W)) => Live(Len(W))'
    <3>1. Live(Len(W)) => \A m \in 1 .. Len(W) : \A s \in Waits(W'[m]) : binary'[s] # "unsignaled"
      BY <1>1, <1>5 DEF Live
    <3>2. \A m \in 1 .. Len(W') : m \in 1 .. Len(W) \/ W'[m] = b
      BY <1>5, <1>6
    <3>3. Live(Len(W)) => \A m \in 1 .. Len(W') : \A s \in Waits(W'[m]) : binary'[s] # "unsignaled"
      BY <1>4, <3>1, <3>2
    <3>4. QED BY <3>3 DEF Live, Waits
  <2>2. QED BY <1>1, <2>1 DEF IInv, NothingFailed, Acquired
<1>16. \A n \in 1 .. Len(W') : n \in 1 .. Len(W) \/ W'[n] = b
  BY <1>5, <1>6
<1>17. LiveBatches'
  <2> SUFFICES ASSUME NEW n \in 1 .. Len(W'), Live(n)'
               PROVE  LiveBatch(n)'
    BY DEF LiveBatches
  <2>1. CASE n \in 1 .. Len(W)
    BY <1>5, <1>6, <2>1 DEF IInv, LiveBatches
  <2>2. CASE W'[n] = b
    BY <1>4, <2>2 DEF LiveBatch
  <2>3. QED BY <1>16, <2>1, <2>2
<1>18. AppHolds'
  <2> SUFFICES ASSUME Live(Len(W)), binary[Available(semIndex)] # "unsignaled"
               PROVE  /\ Holds(Available(semIndex), image)'
                      /\ \A n \in 1 .. Len(W') : /\ W'[n] # PresentItem(image)
                                                 /\ Rendered(image) \notin W'[n].signalSem
    BY <1>1, <1>5 DEF AppHolds, Acquired
  <2>1. /\ Holds(Available(semIndex), image)
        /\ \A n \in 1 .. Len(W) : /\ W[n] # PresentItem(image)
                                  /\ Rendered(image) \notin W[n].signalSem
    BY <1>1 DEF IInv, AppHolds, Acquired
  <2>2. image \in Images
    BY DEF IInv, AppType
  <2>3. \A n \in 1 .. Len(W') : /\ W'[n] # PresentItem(image)
                               /\ Rendered(image) \notin W'[n].signalSem
    BY <1>4, <1>5, <1>16, <2>1, <2>2
  <2>4. QED BY <1>1, <2>1, <2>3 DEF Holds
<1>19. RenderedInUse'
  <2> SUFFICES ASSUME NEW i \in Images
               PROVE  /\ binary'[Rendered(i)] # "unsignaled" => Presented(i, 0)'
                      /\ \A n \in 1 .. Len(W') : Rendered(i) \in W'[n].signalSem
                                                  => Presented(i, n)'
    BY DEF RenderedInUse
  <2>1. ASSUME NEW n \in Nat, Presented(i, n) PROVE Presented(i, n)'
    BY <1>1, <1>5, <1>6, <2>1 DEF Presented
  <2>2. QED
    BY <1>1, <1>4, <1>5, <1>16, <2>1 DEF IInv, RenderedInUse
<1>20. QED
  BY <1>7, <1>9, <1>10, <1>11, <1>12, <1>13, <1>14, <1>15, <1>17, <1>18, <1>19
     DEF IInv

(* The graphics batch takes over the image and the semaphore from the      *)
(* application, and the compute batch of its slot.                         *)
LEMMA SubmitGraphicsStep ==
  ASSUME IInv, SubmitGraphics
  PROVE  IInv'
<1> PICK b : b = Batch(Graphics, GraphicsList(frame), {Timeline(Compute, computeT)},
                       {ImageAvail}, {RenderComplete})
  OBVIOUS
<1> PICK k : k = vkQueue[Graphics]
  OBVIOUS
<1>1. /\ pc = "submitGraphics" /\ pc' = "present"
      /\ submitted' = [submitted EXCEPT ![Graphics] = @ + 1]
      /\ work' = [work EXCEPT ![k] = Append(@, b)]
      /\ frameT' = [frameT EXCEPT ![frame] = submitted[Graphics] + 1]
      /\ UNCHANGED <<vkQueue, semaphore, frame, computeT, image, semIndex, binary,
                     engine, iterations, acquireFailures>>
  BY DEF SubmitGraphics, Submit, CountSubmission, Goto, SignalValue
<1>2. /\ submitted[Compute] \in Nat /\ submitted[Graphics] \in Nat
      /\ k \in VkQueues /\ frame \in Frames /\ image \in Images
      /\ semIndex \in 0 .. SemaphoreCount - 1 /\ computeT \in Nat
      /\ Available(semIndex) \in AvailableSems
      /\ iterations \in Nat /\ submitted[Graphics] = iterations
  BY <1>1, Sizes, SemNames DEF IInv, QueueType, QueuesTyped, AppType, Rotation
<1>3. /\ b \in GraphicsBatches /\ b.queue = Graphics
      /\ b.value = iterations + 1 /\ b.list = GraphicsList(frame)
      /\ b.waits = {Timeline(Compute, computeT)}
      /\ b.waitSem = {Available(semIndex)} /\ b.signalSem = {Rendered(image)}
  <2>1. TimelineWaits(Graphics, {Timeline(Compute, computeT)})
          = {Timeline(Compute, computeT)}
    BY DEF TimelineWaits, Timeline
  <2>2. Timeline(Compute, computeT) \in [queue : {Compute}, value : Nat]
    BY <1>2 DEF Timeline
  <2>3. /\ b.queue = Graphics /\ b.value = iterations + 1
        /\ b.list = GraphicsList(frame)
        /\ b.waits = {Timeline(Compute, computeT)}
        /\ b.waitSem = {Available(semIndex)} /\ b.signalSem = {Rendered(image)}
    BY <1>2, <2>1 DEF Batch, SignalValue, ImageAvail, RenderComplete
  <2>5. b = [queue |-> Graphics, value |-> iterations + 1, list |-> GraphicsList(frame),
             waits |-> {Timeline(Compute, computeT)},
             waitSem |-> {Available(semIndex)}, signalSem |-> {Rendered(image)}]
    BY <1>2, <2>1 DEF Batch, SignalValue, ImageAvail, RenderComplete
  <2>6. b \in GraphicsBatches
    <3>1. /\ iterations \in Nat /\ frame \in Frames /\ image \in Images
          /\ Available(semIndex) \in AvailableSems
          /\ Timeline(Compute, computeT) \in [queue : {Compute}, value : Nat]
      BY <1>2, <2>2
    <3>2. [queue |-> Graphics, value |-> iterations + 1, list |-> GraphicsList(frame),
           waits |-> {Timeline(Compute, computeT)},
           waitSem |-> {Available(semIndex)}, signalSem |-> {Rendered(image)}]
             \in GraphicsBatches
      BY ONLY <3>1, GraphicsBatchIs
    <3>3. QED BY <2>5, <3>2
  <2>7. QED BY <2>3, <2>6
<1>4. /\ b \in Batches /\ Waits(b) = {Available(semIndex)}
      /\ \A i \in Images : b # PresentItem(i)
  <2>1. b \in Batches
    BY <1>3 DEF Batches
  <2>2. \A i \in Images : IsPresent(PresentItem(i))
    BY DEF PresentItem, IsPresent
  <2>3. Waits(b) = {Available(semIndex)}
    BY <1>2, <1>3 DEF Waits
  <2>4. QED BY <1>3, <2>1, <2>2, <2>3, KindOf
<1>5. /\ Pending' = Pending \cup {b}
      /\ Len(W') = Len(W) + 1 /\ W'[Len(W) + 1] = b
      /\ \A n \in 1 .. Len(W) : W'[n] = W[n] /\ (LiveBatch(n)' <=> LiveBatch(n))
      /\ \A n \in 0 .. Len(W) : Live(n)' <=> Live(n)
      /\ Live(Len(W))' => Live(Len(W))
  <2>1. /\ work' = [work EXCEPT ![k] = Append(@, b)]
        /\ UNCHANGED <<vkQueue, binary, engine>>
    BY <1>1
  <2>2. b \in Batches /\ k \in VkQueues
    BY <1>2, <1>4
  <2>3. QED BY <2>1, <2>2, WorkGrows
<1>6. Len(W) \in Nat
  BY WorkFacts DEF IInv
<1>7. QueueType(Batches)' /\ WorkOrdered'
  <2>1. b \in Batches /\ vkQueue[b.queue] = k /\ k \in VkQueues
    BY <1>1, <1>2, <1>3, <1>4
  <2>2. Counted(submitted, b, submitted')
    BY <1>1, <1>2, <1>3, <1>4 DEF Counted
  <2>3. QED BY <1>1, <2>1, <2>2, WorkStaysOrdered
<1>8. /\ submitted'[Graphics] = iterations + 1
      /\ submitted'[Compute] = submitted[Compute]
  BY <1>1, <1>2, Sizes DEF IInv, QueueType, QueuesTyped
<1>9. AppType'
  <2>1. frameT' \in [Frames -> Nat] /\ \A f \in Frames : frameT'[f] <= submitted'[Graphics]
    BY <1>1, <1>2, <1>8 DEF IInv, AppType
  <2>2. QED BY <1>1, <1>2, <1>8, <2>1 DEF IInv, AppType, InFrame, Acquired
<1>10. EngineType'
  BY <1>1 DEF IInv, EngineType
<1>11. Rotation'
  <2> SUFFICES ASSUME NEW x \in Pending' \cap GraphicsBatches
               PROVE  /\ x.list = GraphicsList(Back(frame, Age(x), FrameCount))
                      /\ x.waitSem = {Available(Back(semIndex, Age(x), SemaphoreCount))}
    BY <1>1, <1>8 DEF Rotation, Age
  <2>1. CASE x = b
    <3>1. Age(x) = 0
      BY <1>2, <1>3, <2>1 DEF Age
    <3>2. Back(frame, 0, FrameCount) = frame /\ Back(semIndex, 0, SemaphoreCount) = semIndex
      BY <1>2, Sizes, BackFacts
    <3>3. QED BY <1>3, <2>1, <3>1, <3>2
  <2>2. CASE x \in Pending
    BY <2>2 DEF IInv, Rotation
  <2>3. QED BY <1>5, <2>1, <2>2
<1>12. SlotTimelines'
  <2> SUFFICES ASSUME NEW d \in 0 .. FrameCount - 1
               PROVE  frameT'[Back(frame, d, FrameCount)] + d >= iterations + 1
    BY <1>1, Sizes DEF SlotTimelines
  <2>1. CASE d = 0
    <3>1. Back(frame, d, FrameCount) = frame
      BY <1>2, <2>1, Sizes, BackFacts
    <3>2. QED BY <1>1, <1>2, <2>1, <3>1 DEF IInv, AppType
  <2>2. CASE d # 0
    <3>1. /\ Back(frame, d, FrameCount) \in Frames
          /\ Back(frame, d, FrameCount) # frame
      BY <1>2, <2>2, Sizes DEF Back
    <3>2. frameT'[Back(frame, d, FrameCount)] = frameT[Back(frame, d, FrameCount)]
      BY <1>1, <3>1 DEF IInv, AppType
    <3>3. frameT[Back(frame, d, FrameCount)] + d >= iterations + 1
      BY <1>1, <2>2, Sizes DEF IInv, SlotTimelines
    <3>4. QED BY <3>2, <3>3
  <2>3. QED BY <2>1, <2>2
<1>13. Lead' /\ IdleAtEnd'
  BY <1>1 DEF IInv, Lead, IdleAtEnd, InFrame, Acquired
<1>14. ComputeCovered'
  <2> SUFFICES ASSUME NEW c \in Pending' \cap ComputeBatches, NEW f \in Frames,
                      c.list = ComputeList(f)
               PROVE  \E g \in Pending' : /\ g.list = GraphicsList(f)
                                          /\ \E w \in g.waits : /\ w.queue = Compute
                                                                /\ c.value <= w.value
    BY DEF ComputeCovered
  <2>1. c \in Pending
    BY <1>3, <1>4, <1>5, KindOf
  <2>2. CASE f = frame /\ c.value <= computeT
    <3>1. b \in Pending' /\ b.list = GraphicsList(f)
      BY <1>3, <1>5, <2>2
    <3>2. /\ Timeline(Compute, computeT) \in b.waits
          /\ c.value <= computeT
      BY <1>3, <2>2
    <3>3. /\ Timeline(Compute, computeT).queue = Compute
          /\ Timeline(Compute, computeT).value = computeT
      BY DEF Timeline
    <3>4. QED BY <3>1, <3>2, <3>3
  <2>3. CASE \E g \in Pending : /\ g.list = GraphicsList(f)
                                /\ \E w \in g.waits : w.queue = Compute /\ c.value <= w.value
    BY <1>5, <2>3
  <2>4. QED BY <2>1, <2>2, <2>3 DEF IInv, ComputeCovered
<1>15. AvailableInUse'
  <2> SUFFICES ASSUME NEW s \in 0 .. SemaphoreCount - 1,
                      binary[Available(s)] # "unsignaled"
               PROVE  \E x \in Pending' : Available(s) \in x.waitSem
    BY <1>1 DEF AvailableInUse
  <2>1. CASE s = semIndex
    BY <1>3, <1>5, <2>1
  <2>2. CASE s # semIndex
    BY <1>5, <2>2 DEF IInv, AvailableInUse
  <2>3. QED BY <2>1, <2>2
<1>16. \A n \in 1 .. Len(W') : n \in 1 .. Len(W) \/ (n = Len(W) + 1 /\ W'[n] = b)
  BY <1>5, <1>6
<1>17. NothingFailed'
  <2> SUFFICES ASSUME acquireFailures = 0 PROVE Live(Len(W))'
    BY <1>1 DEF NothingFailed, Acquired
  <2>1. Live(Len(W)) /\ binary[Available(semIndex)] # "unsignaled"
    BY <1>1 DEF IInv, NothingFailed, Acquired
  <2>2. \A m \in 1 .. Len(W) : \A s \in Waits(W'[m]) : binary'[s] # "unsignaled"
    BY <1>1, <1>5, <2>1 DEF Live
  <2>3. \A m \in 1 .. Len(W') : \A s \in Waits(W'[m]) : binary'[s] # "unsignaled"
    BY <1>1, <1>4, <1>16, <2>1, <2>2
  <2>4. QED BY <2>3 DEF Live, Waits
<1>18. Live(Len(W))' =>
         /\ Live(Len(W)) /\ binary[Available(semIndex)] # "unsignaled"
         /\ Holds(Available(semIndex), image)
         /\ \A n \in 1 .. Len(W) : W[n] # PresentItem(image)
  <2> SUFFICES ASSUME Live(Len(W))'
               PROVE  /\ Live(Len(W)) /\ binary[Available(semIndex)] # "unsignaled"
                      /\ Holds(Available(semIndex), image)
                      /\ \A n \in 1 .. Len(W) : W[n] # PresentItem(image)
    OBVIOUS
  <2>1. Len(W) + 1 \in 1 .. Len(W')
    BY <1>5, <1>6
  <2>2. \A s \in Waits(b) : binary'[s] # "unsignaled"
    BY <1>5, <2>1 DEF Live, Waits
  <2>3. Live(Len(W)) /\ binary[Available(semIndex)] # "unsignaled"
    BY <1>1, <1>4, <1>5, <2>2
  <2>4. QED BY <1>1, <2>3 DEF IInv, AppHolds, Acquired
<1>19. LiveBatches'
  <2> SUFFICES ASSUME NEW n \in 1 .. Len(W'), Live(n)'
               PROVE  LiveBatch(n)'
    BY DEF LiveBatches
  <2>1. CASE n \in 1 .. Len(W)
    BY <1>5, <1>6, <2>1 DEF IInv, LiveBatches
  <2>2. CASE n = Len(W) + 1 /\ W'[n] = b
    <3>1. Live(Len(W))'
      BY <1>5, <2>2
    <3>2. \A m \in 1 .. n - 1 : W'[m] # PresentItem(image)
      BY <1>5, <1>6, <1>18, <2>2, <3>1
    <3>3. Holds(Available(semIndex), image)'
      BY <1>1, <1>18, <3>1 DEF Holds
    <3>4. \A i \in Images : Rendered(i) \in W'[n].signalSem => i = image
      BY <1>3, <2>2, SemNames
    <3>5. ASSUME NEW i \in Images
          PROVE  /\ Rendered(i) \in W'[n].signalSem => \A s \in Waits(W'[n]) : Holds(s, i)'
                 /\ W'[n] = PresentItem(i) => Owned(i)'
                 /\ Rendered(i) \in W'[n].signalSem \/ W'[n] = PresentItem(i) =>
                      \A m \in 1 .. n - 1 : W'[m] # PresentItem(i)
      <4>1. W'[n] # PresentItem(i)
        BY <1>4, <2>2
      <4>2. CASE i = image
        BY <1>1, <1>4, <2>2, <3>2, <3>3, <4>1, <4>2 DEF Holds
      <4>3. CASE i # image
        BY <3>4, <4>1, <4>3
      <4>4. QED BY <4>2, <4>3
    <3>6. QED BY <3>5 DEF LiveBatch, Waits
  <2>3. QED BY <1>16, <2>1, <2>2
<1>20. AppHolds'
  <2> SUFFICES ASSUME Live(Len(W))'
               PROVE  /\ Owned(image)'
                      /\ \A n \in 1 .. Len(W') : W'[n] # PresentItem(image)
    BY <1>1 DEF AppHolds, Acquired, Owned
  <2>1. Owned(image)'
    BY <1>1, <1>2, <1>18 DEF Holds, Owned
  <2>2. QED BY <1>2, <1>4, <1>5, <1>16, <1>18, <2>1
<1>21. RenderedInUse'
  <2> SUFFICES ASSUME NEW i \in Images
               PROVE  /\ binary'[Rendered(i)] # "unsignaled" => Presented(i, 0)'
                      /\ \A n \in 1 .. Len(W') : Rendered(i) \in W'[n].signalSem
                                                  => Presented(i, n)'
    BY DEF RenderedInUse
  <2>1. ASSUME NEW n \in Nat, Presented(i, n) PROVE Presented(i, n)'
    BY <1>1, <1>5, <1>6, <2>1 DEF Presented
  <2>2. ASSUME NEW n \in 1 .. Len(W'), W'[n] = b, Rendered(i) \in b.signalSem
        PROVE  Presented(i, n)'
    <3>1. i = image
      BY <1>3, <2>2, SemNames
    <3>2. QED BY <1>1, <3>1 DEF Presented
  <2>3. binary'[Rendered(i)] # "unsignaled" => Presented(i, 0)'
    BY <1>1, <2>1 DEF IInv, RenderedInUse
  <2>4. ASSUME NEW n \in 1 .. Len(W'), Rendered(i) \in W'[n].signalSem
        PROVE  Presented(i, n)'
    <3>1. CASE n \in 1 .. Len(W)
      BY <1>5, <2>1, <2>4, <3>1 DEF IInv, RenderedInUse
    <3>2. CASE W'[n] = b
      BY <2>2, <2>4, <3>2
    <3>3. QED BY <1>16, <3>1, <3>2
  <2>5. QED BY <2>3, <2>4
<1>22. QED
  BY <1>7, <1>9, <1>10, <1>11, <1>12, <1>13, <1>14, <1>15, <1>17, <1>19, <1>20,
     <1>21 DEF IInv

(* The present takes its place behind the batch it waits for, and all ages *)
(* grow by one.                                                            *)
LEMMA PresentStep ==
  ASSUME IInv, Present
  PROVE  IInv'
<1> PICK b : b = PresentItem(image)
  OBVIOUS
<1> PICK k : k = vkQueue[Graphics]
  OBVIOUS
<1>1. /\ pc = "present" /\ pc' = "top"
      /\ work' = [work EXCEPT ![k] = Append(@, b)]
      /\ semIndex' = (semIndex + 1) % SemaphoreCount
      /\ frame' = (frame + 1) % FrameCount
      /\ iterations' = iterations + 1
      /\ UNCHANGED <<vkQueue, submitted, semaphore, frameT, computeT, image,
                     binary, engine, acquireFailures>>
  BY DEF Present, Goto, NextSemaphore
<1>2. /\ k \in VkQueues /\ frame \in 0 .. FrameCount - 1 /\ image \in Images
      /\ semIndex \in 0 .. SemaphoreCount - 1
      /\ iterations \in Nat /\ submitted[Graphics] = iterations + 1
  BY <1>1, Sizes DEF IInv, QueueType, QueuesTyped, AppType, Rotation
<1>3. /\ b \in Batches /\ b \notin GraphicsBatches /\ b \notin ComputeBatches
      /\ b.queue = Graphics /\ b.value = 0 /\ b.signalSem = {} /\ Waits(b) = {}
      /\ \A i \in Images : b = PresentItem(i) => i = image
  <2>1. b \in Presents /\ b \in Batches
    BY <1>2 DEF Presents, Batches
  <2>2. b.waitSem = {Rendered(image)} /\ \A i : PresentItem(i).waitSem = {Rendered(i)}
    BY DEF PresentItem
  <2>3. \A i \in Images : b = PresentItem(i) => i = image
    BY <2>2, SemNames
  <2>4. QED BY <2>1, <2>3, KindOf
<1>4. /\ Pending' = Pending \cup {b}
      /\ Len(W') = Len(W) + 1 /\ W'[Len(W) + 1] = b
      /\ \A n \in 1 .. Len(W) : W'[n] = W[n] /\ (LiveBatch(n)' <=> LiveBatch(n))
      /\ \A n \in 0 .. Len(W) : Live(n)' <=> Live(n)
      /\ Live(Len(W))' => Live(Len(W))
  <2>1. /\ work' = [work EXCEPT ![k] = Append(@, b)]
        /\ UNCHANGED <<vkQueue, binary, engine>>
    BY <1>1
  <2>2. b \in Batches /\ k \in VkQueues
    BY <1>2, <1>3
  <2>3. QED BY <2>1, <2>2, WorkGrows
<1>5. Len(W) \in Nat
  BY WorkFacts DEF IInv
<1>6. QueueType(Batches)' /\ WorkOrdered'
  <2>1. b \in Batches /\ vkQueue[b.queue] = k /\ k \in VkQueues
    BY <1>1, <1>2, <1>3
  <2>2. Counted(submitted, b, submitted')
    BY <1>1, <1>2, <1>3 DEF Counted
  <2>3. QED BY <1>1, <2>1, <2>2, WorkStaysOrdered
<1>7. /\ frame' \in Frames /\ semIndex' \in 0 .. SemaphoreCount - 1
      /\ \A d \in 0 .. FrameCount - 1 :
           /\ Back(frame', d + 1, FrameCount) = Back(frame, d, FrameCount)
           /\ Back(semIndex', d + 1, SemaphoreCount) = Back(semIndex, d, SemaphoreCount)
  <2>1. /\ (frame + 1) % FrameCount \in 0 .. FrameCount - 1
        /\ \A d \in 0 .. FrameCount - 1 :
             Back((frame + 1) % FrameCount, d + 1, FrameCount) = Back(frame, d, FrameCount)
    BY <1>2, Sizes, BackNext
  <2>2. /\ (semIndex + 1) % SemaphoreCount \in 0 .. SemaphoreCount - 1
        /\ \A d \in 0 .. SemaphoreCount - 1 :
             Back((semIndex + 1) % SemaphoreCount, d + 1, SemaphoreCount)
               = Back(semIndex, d, SemaphoreCount)
    BY <1>2, Sizes, BackNext
  <2>3. \A d \in 0 .. FrameCount - 1 : d \in 0 .. SemaphoreCount - 1
    BY Sizes
  <2>4. QED BY <1>1, <2>1, <2>2, <2>3, Sizes
<1>8. AppType'
  BY <1>1, <1>2, <1>7 DEF IInv, AppType
<1>9. EngineType'
  BY <1>1 DEF IInv, EngineType
<1>10. Rotation'
  <2> SUFFICES ASSUME NEW x \in Pending \cap GraphicsBatches
               PROVE  /\ x.list = GraphicsList(Back(frame', Age(x)', FrameCount))
                      /\ x.waitSem = {Available(Back(semIndex', Age(x)', SemaphoreCount))}
    BY <1>1, <1>2, <1>3, <1>4 DEF Rotation
  <2>1. Age(x) \in 0 .. FrameCount - 1 /\ x.value \in Nat
    BY <1>1, Ages, Sizes DEF InFrame
  <2>2. Age(x)' = Age(x) + 1
    <3>1. /\ Age(x)' = iterations' + 1 - x.value /\ Age(x) = iterations + 1 - x.value
          /\ iterations' = iterations + 1 /\ iterations \in Nat /\ x.value \in Nat
      BY <1>1, <1>2, <2>1 DEF Age
    <3>2. QED BY <3>1
  <2>3. QED BY <1>7, <2>1, <2>2 DEF IInv, Rotation
<1>11. SlotTimelines'
  <2> SUFFICES ASSUME NEW d \in 1 .. FrameCount
               PROVE  frameT[Back(frame', d, FrameCount)] + d >= iterations + 2
    BY <1>1, <1>2, Sizes DEF SlotTimelines
  <2>1. PICK e \in 0 .. FrameCount - 1 : d = e + 1
    BY Sizes
  <2>2. frameT[Back(frame, e, FrameCount)] + e >= iterations + 1
    BY <1>1, Sizes DEF IInv, SlotTimelines
  <2>3. Back(frame', d, FrameCount) = Back(frame, e, FrameCount)
    BY <1>7, <2>1
  <2>4. Back(frame, e, FrameCount) \in Frames
    BY <1>2, Sizes, BackFacts
  <2>5. frameT[Back(frame, e, FrameCount)] \in Nat /\ iterations \in Nat
    BY <1>2, <2>4 DEF IInv, AppType
  <2>6. QED BY <2>1, <2>2, <2>3, <2>5
<1>12. Lead' /\ IdleAtEnd'
  BY <1>1, <1>2 DEF IInv, Lead, IdleAtEnd, InFrame, Acquired
<1>13. ComputeCovered'
  BY <1>1, <1>3, <1>4 DEF IInv, ComputeCovered
<1>14. AvailableInUse'
  BY <1>1, <1>4 DEF IInv, AvailableInUse, Acquired
<1>15. \A n \in 1 .. Len(W') : n \in 1 .. Len(W) \/ (n = Len(W) + 1 /\ W'[n] = b)
  BY <1>4, <1>5
<1>16. NothingFailed'
  <2> SUFFICES ASSUME acquireFailures = 0 PROVE Live(Len(W))'
    BY <1>1 DEF NothingFailed, Acquired
  <2>1. Live(Len(W))
    BY DEF IInv, NothingFailed
  <2>2. \A m \in 1 .. Len(W) : \A s \in Waits(W'[m]) : binary'[s] # "unsignaled"
    BY <1>1, <1>4, <2>1 DEF Live
  <2>3. \A m \in 1 .. Len(W') : \A s \in Waits(W'[m]) : binary'[s] # "unsignaled"
    BY <1>3, <1>15, <2>2
  <2>4. QED BY <2>3 DEF Live, Waits
<1>17. LiveBatches'
  <2> SUFFICES ASSUME NEW n \in 1 .. Len(W'), Live(n)'
               PROVE  LiveBatch(n)'
    BY DEF LiveBatches
  <2>1. CASE n \in 1 .. Len(W)
    BY <1>4, <1>5, <2>1 DEF IInv, LiveBatches
  <2>2. CASE n = Len(W) + 1 /\ W'[n] = b
    <3>1. Live(Len(W))
      BY <1>4, <2>2
    <3>2. Owned(image) /\ \A m \in 1 .. Len(W) : W[m] # PresentItem(image)
      BY <1>1, <3>1 DEF IInv, AppHolds
    <3>3. \A m \in 1 .. n - 1 : W'[m] # PresentItem(image)
      BY <1>4, <1>5, <2>2, <3>2
    <3>4. \A i \in Images : /\ Rendered(i) \notin W'[n].signalSem
                            /\ W'[n] = PresentItem(i) => i = image
      BY <1>3, <2>2
    <3>5. Owned(image)'
      BY <1>1, <3>2 DEF Owned
    <3>6. ASSUME NEW i \in Images, W'[n] = PresentItem(i)
          PROVE  Owned(i)' /\ \A m \in 1 .. n - 1 : W'[m] # PresentItem(i)
      BY <1>1, <3>3, <3>4, <3>5, <3>6 DEF Owned
    <3>7. QED BY <3>4, <3>6 DEF LiveBatch
  <2>3. QED BY <1>15, <2>1, <2>2
<1>18. AppHolds'
  BY <1>1 DEF AppHolds, Acquired
<1>19. RenderedInUse'
  <2> SUFFICES ASSUME NEW i \in Images
               PROVE  /\ binary'[Rendered(i)] # "unsignaled" => Presented(i, 0)'
                      /\ \A n \in 1 .. Len(W') : Rendered(i) \in W'[n].signalSem
                                                  => Presented(i, n)'
    BY DEF RenderedInUse
  <2>1. ASSUME NEW n \in 0 .. Len(W), Presented(i, n) PROVE Presented(i, n)'
    <3>1. CASE image = i
      <4>1. Len(W) + 1 \in 1 .. Len(W') /\ Len(W) + 1 > n
        BY <1>4, <1>5
      <4>2. QED BY <1>4, <3>1, <4>1 DEF Presented
    <3>2. CASE \E m \in 1 .. Len(W) : m > n /\ W[m] = PresentItem(i)
      BY <1>4, <1>5, <3>2 DEF Presented
    <3>3. QED BY <2>1, <3>1, <3>2 DEF Presented
  <2>2. binary'[Rendered(i)] # "unsignaled" => Presented(i, 0)'
    BY <1>1, <1>5, <2>1 DEF IInv, RenderedInUse
  <2>3. ASSUME NEW n \in 1 .. Len(W'), Rendered(i) \in W'[n].signalSem
        PROVE  Presented(i, n)'
    <3>1. CASE n \in 1 .. Len(W)
      BY <1>4, <2>1, <2>3, <3>1 DEF IInv, RenderedInUse
    <3>2. CASE W'[n] = b
      BY <1>3, <2>3, <3>2
    <3>3. QED BY <1>15, <3>1, <3>2
  <2>4. QED BY <2>2, <2>3
<1>20. QED
  BY <1>6, <1>8, <1>9, <1>10, <1>11, <1>12, <1>13, <1>14, <1>16, <1>17, <1>18,
     <1>19 DEF IInv

-----------------------------------------------------------------------------
(* The head h of a VkQueue is done: d of the graphics queue's positions go *)
(* with it, one or none.                                                   *)
Takes(h, d) ==
  /\ Len(W') = Len(W) - d /\ Len(W') \in Nat
  /\ \A n \in 1 .. Len(W') : n + d \in 1 .. Len(W) /\ W'[n] = W[n + d]
  /\ d = 1 => 1 \in 1 .. Len(W) /\ W[1] = h
  /\ d = 0 => h \in ComputeBatches

(* Its binary semaphores were signaled and are consumed.                   *)
Consumes(h) == /\ \A s \in h.waitSem : binary[s] = "signaled"
               /\ binary' = BinaryAfter(h)

(* Finishing the head of a VkQueue, the work of the graphics queue with    *)
(* it.                                                                     *)
LEMMA Taken ==
  ASSUME QueueType(Batches), WorkOrdered, NEW k \in VkQueues, work[k] # <<>>,
         work' = [work EXCEPT ![k] = Tail(@)], UNCHANGED vkQueue,
         NEW h, h = Head(work[k])
  PROVE  /\ h \in Batches /\ h \in Pending /\ Pending = Pending' \cup {h}
         /\ \E d \in {0, 1} : Takes(h, d)
<1>1. /\ Pending = Pending' \cup {h} /\ h = work[k][1] /\ h \in Batches
      /\ Len(work[k]) \in Nat \ {0} /\ Len(work'[k]) = Len(work[k]) - 1
      /\ \A i \in 1 .. Len(work'[k]) : work'[k][i] = work[k][i + 1]
      /\ \A m \in VkQueues \ {k} : work'[m] = work[m]
  <2>1. Removed(VkQueues, Batches, work, k, work')
    BY DEF QueueType, QueuesTyped, Removed
  <2>2. InFifos(VkQueues, work) = InFifos(VkQueues, work') \cup {h}
    BY <2>1, RemoveHead
  <2>3. Pending = Pending' \cup {h}
    BY <2>2, PendingIs
  <2>4. /\ h = work[k][1] /\ h \in Batches
        /\ Len(work[k]) \in Nat \ {0} /\ Len(work'[k]) = Len(work[k]) - 1
        /\ \A i \in 1 .. Len(work'[k]) : work'[k][i] = work[k][i + 1]
    <3>1. work[k] \in Seq(Batches) /\ work[k] # <<>> /\ work'[k] = Tail(work[k])
      BY DEF QueueType, QueuesTyped
    <3>2. Len(work[k]) \in Nat \ {0}
      BY <3>1, EmptySeq
    <3>3. /\ Head(work[k]) \in Batches /\ Head(work[k]) = work[k][1]
          /\ Len(Tail(work[k])) = Len(work[k]) - 1
          /\ \A i \in 1 .. Len(Tail(work[k])) : Tail(work[k])[i] = work[k][i + 1]
      BY <3>1, HeadTailProperties
    <3>4. QED BY <3>1, <3>2, <3>3
  <2>5. \A m \in VkQueues \ {k} : work'[m] = work[m]
    BY <2>1, RemoveHead
  <2>6. QED BY <2>3, <2>4, <2>5
<1>2. vkQueue[h.queue] = k
  BY <1>1 DEF WorkOrdered, Ordered
<1>3. Len(W) \in Nat /\ vkQueue[Graphics] \in VkQueues
  BY WorkFacts
<1>4. CASE k = vkQueue[Graphics]
  <2>1. W = work[k] /\ W' = work'[k]
    BY <1>4 DEF W
  <2>2. Takes(h, 1)
    BY <1>1, <2>1 DEF Takes
  <2>3. QED BY <1>1, <2>2
<1>5. CASE k # vkQueue[Graphics]
  <2>1. W' = W
    BY <1>1, <1>3, <1>5 DEF W
  <2>2. h \in ComputeBatches
    BY <1>1, <1>2, <1>5, KindOf DEF Batches
  <2>3. Takes(h, 0)
    BY <1>3, <2>1, <2>2 DEF Takes
  <2>4. QED BY <1>1, <2>3
<1>6. QED BY <1>4, <1>5

(* What consuming does to the semaphores of either kind.                   *)
LEMMA Consumed ==
  ASSUME EngineType, NEW h \in Batches, Consumes(h)
  PROVE  /\ binary' \in [Sems -> {"unsignaled", "pending", "signaled"}]
         /\ \A s \in AvailableSems :
              /\ s \notin h.waitSem => binary'[s] = binary[s]
              /\ binary'[s] # "unsignaled" => s \notin h.waitSem
              /\ binary[s] = "pending" => s \notin h.waitSem
         /\ \A i \in Images : binary'[Rendered(i)] # "unsignaled" =>
              /\ Rendered(i) \notin h.waitSem
              /\ \/ Rendered(i) \in h.signalSem
                 \/ binary[Rendered(i)] # "unsignaled"
<1>1. \A s \in AvailableSems : s \in Sems /\ s \notin h.signalSem
  BY KindOf, SemNames DEF Batches
<1>2. \A s \in Sems : binary'[s] = IF s \in h.waitSem THEN "unsignaled"
                                   ELSE IF s \in h.signalSem THEN "signaled"
                                   ELSE binary[s]
  BY DEF Consumes, BinaryAfter
<1>3. binary' \in [Sems -> {"unsignaled", "pending", "signaled"}]
  BY DEF Consumes, BinaryAfter, EngineType
<1>4. \A s \in h.waitSem : binary[s] = "signaled"
  BY DEF Consumes
<1>5. QED BY <1>1, <1>2, <1>3, <1>4, SemNames

(* What is live after the step was live before it.                         *)
LEMMA LiveBefore ==
  ASSUME IInv, NEW h \in Batches, Consumes(h), NEW d \in {0, 1}, Takes(h, d),
         NEW n \in 0 .. Len(W'), Live(n)'
  PROVE  Live(n + d)
<1> SUFFICES ASSUME NEW m \in 1 .. n + d, NEW s \in Waits(W[m])
             PROVE  binary[s] # "unsignaled"
  BY DEF Live
<1>1. s \in AvailableSems /\ s \in W[m].waitSem
  BY DEF Waits
<1>2. Len(W') \in Nat
  BY DEF Takes
<1>3. CASE m > d
  <2>1. m - d \in 1 .. n /\ m - d \in 1 .. Len(W') /\ m = (m - d) + d
    BY <1>2, <1>3
  <2>2. W'[m - d] = W[m]
    BY <2>1 DEF Takes
  <2>3. s \in Waits(W'[m - d])
    BY <2>2
  <2>4. binary'[s] # "unsignaled"
    BY <2>1, <2>3 DEF Live, Waits
  <2>5. QED BY <1>1, <2>4, Consumed DEF IInv
<1>4. CASE m <= d
  <2>1. d = 1 /\ m = 1
    BY <1>4
  <2>2. W[m] = h
    BY <2>1 DEF Takes
  <2>3. QED BY <1>1, <2>2 DEF Consumes
<1>5. QED BY <1>2, <1>3, <1>4

(* Two graphics batches in flight wait for different semaphores.           *)
LEMMA SemsDiffer ==
  ASSUME IInv, NEW m \in 1 .. Len(W), NEW n \in 1 .. Len(W), m < n,
         NEW s \in Waits(W[m])
  PROVE  s \notin Waits(W[n])
<1> SUFFICES ASSUME s \in Waits(W[n]) PROVE FALSE
  OBVIOUS
<1>1. PICK b : b = W[m]
  OBVIOUS
<1>2. PICK c : c = W[n]
  OBVIOUS
<1>3. /\ b \in Pending /\ c \in Pending
      /\ b \in Batches /\ c \in Batches
  BY <1>1, <1>2, WorkFacts DEF IInv
<1>4. b \in GraphicsBatches /\ c \in GraphicsBatches
  BY <1>1, <1>2, <1>3, KindOf DEF Batches
<1>5. b.value < c.value
  <2>1. /\ vkQueue[Graphics] \in VkQueues
        /\ n \in 1 .. Len(work[vkQueue[Graphics]]) /\ m \in 1 .. n - 1
    BY WorkFacts DEF W, IInv
  <2>2. b.queue = c.queue /\ c.value # 0
    BY <1>3, <1>4, KindOf
  <2>3. b = work[vkQueue[Graphics]][m] /\ c = work[vkQueue[Graphics]][n]
    BY <1>1, <1>2 DEF W
  <2>4. QED BY <2>1, <2>2, <2>3 DEF IInv, WorkOrdered, Ordered
<1>6. /\ Age(b) \in 0 .. FrameCount /\ Age(c) \in 0 .. FrameCount
      /\ b.value \in Nat /\ c.value \in Nat
      /\ Age(b) = 0 \/ Age(c) = 0 => Age(b) # FrameCount /\ Age(c) # FrameCount
  BY <1>3, <1>4, Ages DEF InFrame
<1>7. Age(b) # Age(c)
  BY <1>5, <1>6 DEF Age, IInv, AppType
<1>8. /\ b.waitSem = {Available(Back(semIndex, Age(b), SemaphoreCount))}
      /\ c.waitSem = {Available(Back(semIndex, Age(c), SemaphoreCount))}
  BY <1>3, <1>4 DEF IInv, Rotation
<1>9. s \in b.waitSem /\ s \in c.waitSem
  BY <1>1, <1>2 DEF Waits
<1>10. Back(semIndex, Age(b), SemaphoreCount) = Back(semIndex, Age(c), SemaphoreCount)
  BY <1>8, <1>9, SemNames
<1>11. semIndex \in 0 .. SemaphoreCount - 1
  BY DEF IInv, AppType
<1> HIDE DEF Age
<1>12. Age(b) \in 0 .. SemaphoreCount /\ Age(c) \in 0 .. SemaphoreCount
  BY <1>6, Sizes
<1>13. Age(b) = Age(c) \/ (Age(b) = 0 /\ Age(c) = SemaphoreCount)
                       \/ (Age(b) = SemaphoreCount /\ Age(c) = 0)
  BY <1>10, <1>11, <1>12, Sizes, BackFacts
<1>14. QED BY <1>6, <1>7, <1>13, Sizes

(* A batch or a present is done: the rest of the queue moves up, and what  *)
(* the step signals and consumes is accounted for.  A present takes its    *)
(* image away from nobody.                                                 *)
LEMMA FinishStep ==
  ASSUME IInv, NEW k \in VkQueues, Ready(k), SemsSignaled(k),
         NEW h, h = Head(work[k]),
         work' = [work EXCEPT ![k] = Tail(@)], binary' = BinaryAfter(h),
         UNCHANGED <<appVars, vkQueue, submitted>>,
         \/ UNCHANGED semaphore
         \/ /\ h.value # 0
            /\ semaphore' = [semaphore EXCEPT ![h.queue] = h.value],
         engine' \in [Images -> {Free, OwnedByApp, Shown, Gone} \cup AvailableSems],
         \A j \in Images : \/ engine'[j] = engine[j]
                           \/ engine'[j] = Shown /\ h = PresentItem(j)
  PROVE  IInv'
<1>1. work[k] # <<>> /\ \A w \in h.waits : Reached(w)
  BY DEF Ready
<1>2. h \in Batches /\ h \in Pending /\ Pending = Pending' \cup {h}
  BY <1>1, Taken DEF IInv
<1>3. PICK d \in {0, 1} : Takes(h, d)
  BY <1>1, Taken, ZenonT(60) DEF IInv
<1>4. Consumes(h)
  BY DEF Consumes, SemsSignaled
<1>5. /\ binary' \in [Sems -> {"unsignaled", "pending", "signaled"}]
      /\ \A s \in AvailableSems :
           /\ s \notin h.waitSem => binary'[s] = binary[s]
           /\ binary'[s] # "unsignaled" => s \notin h.waitSem
           /\ binary[s] = "pending" => s \notin h.waitSem
      /\ \A i \in Images : binary'[Rendered(i)] # "unsignaled" =>
           /\ Rendered(i) \notin h.waitSem
           /\ Rendered(i) \in h.signalSem \/ binary[Rendered(i)] # "unsignaled"
  BY <1>2, <1>4, Consumed DEF IInv
<1>6. /\ Len(W') = Len(W) - d /\ Len(W') \in Nat
      /\ \A n \in 1 .. Len(W') : n + d \in 1 .. Len(W) /\ W'[n] = W[n + d]
      /\ d = 1 => 1 \in 1 .. Len(W) /\ W[1] = h
      /\ d = 0 => h \in ComputeBatches
  BY <1>3 DEF Takes
<1>7. Len(W) \in Nat
  BY WorkFacts DEF IInv
<1>8. \A n \in 0 .. Len(W') : Live(n)' => Live(n + d)
  BY <1>2, <1>3, <1>4, LiveBefore
<1>9. QueueType(Batches)' /\ WorkOrdered'
  <2>1. Removed(VkQueues, Batches, work, k, work')
    BY <1>1 DEF IInv, QueueType, QueuesTyped, Removed
  <2>2. /\ QueuesTyped(Queues, VkQueues, Batches, vkQueue, submitted, semaphore', work')
        /\ Ordered(VkQueues, vkQueue, submitted, semaphore', work')
    BY <1>1, <2>1, TheyAreBatches, OrderedRemove DEF IInv, QueueType, WorkOrdered
  <2>3. QED BY <2>2 DEF QueueType, WorkOrdered
<1>10. \A q \in Queues : /\ semaphore'[q] >= semaphore[q]
                         /\ semaphore[q] \in Nat /\ semaphore'[q] \in Nat
                         /\ submitted[q] \in Nat
  <2>1. ASSUME h.value # 0 PROVE semaphore[h.queue] < h.value /\ h.value \in Nat
    BY <1>2, <2>1, PendingFacts, TheyAreBatches DEF IInv, AreBatches
  <2>2. /\ semaphore \in [Queues -> Nat] /\ semaphore' \in [Queues -> Nat]
        /\ submitted \in [Queues -> Nat]
    BY <1>9 DEF IInv, QueueType, QueuesTyped
  <2>3. CASE UNCHANGED semaphore
    BY <2>2, <2>3
  <2>4. CASE /\ h.value # 0
             /\ semaphore' = [semaphore EXCEPT ![h.queue] = h.value]
    <3> SUFFICES ASSUME NEW q \in Queues PROVE semaphore'[q] >= semaphore[q]
      BY <2>2
    <3>1. CASE q = h.queue
      <4>1. semaphore'[q] = h.value
        BY <2>2, <2>4, <3>1
      <4>2. QED BY <2>1, <2>2, <2>4, <3>1, <4>1
    <3>2. CASE q # h.queue
      BY <2>2, <2>4, <3>2
    <3>3. QED BY <3>1, <3>2
  <2>5. QED BY <2>3, <2>4
<1>11. AppType' /\ SlotTimelines' /\ Lead' /\ IdleAtEnd'
  <2>1. AppType' /\ SlotTimelines'
    BY DEF IInv, AppType, SlotTimelines, appVars
  <2>2. Graphics \in Queues /\ Compute \in Queues /\ iterations \in Nat
    BY Sizes DEF IInv, AppType
  <2>3. Lead'
    BY <1>10, <2>2, Sizes DEF IInv, Lead, appVars
  <2>4. IdleAtEnd'
    BY <1>10, <2>2 DEF IInv, IdleAtEnd, Idle, appVars
  <2>5. QED BY <2>1, <2>3, <2>4
<1>12. Rotation'
  BY <1>2 DEF IInv, Rotation, Age, appVars
<1>13. EngineType'
  <2>1. \A j \in Images : engine'[j] \in AvailableSems => engine'[j] = engine[j]
    BY SemNames
  <2>2. QED BY <1>5, <2>1 DEF IInv, EngineType
<1>14. ComputeCovered'
  <2> SUFFICES ASSUME NEW c \in Pending' \cap ComputeBatches, NEW f \in Frames,
                      c.list = ComputeList(f)
               PROVE  \/ pc = "submitGraphics" /\ f = frame /\ c.value <= computeT
                      \/ \E g \in Pending' :
                           /\ g.list = GraphicsList(f)
                           /\ \E w \in g.waits : w.queue = Compute /\ c.value <= w.value
    BY DEF ComputeCovered, appVars
  <2>1. c \in Pending
    BY <1>2
  <2>2. CASE pc = "submitGraphics" /\ f = frame /\ c.value <= computeT
    BY <2>2
  <2>3. CASE \E g \in Pending :
               /\ g.list = GraphicsList(f)
               /\ \E w \in g.waits : w.queue = Compute /\ c.value <= w.value
    <3>1. PICK g \in Pending :
                 /\ g.list = GraphicsList(f)
                 /\ \E w \in g.waits : w.queue = Compute /\ c.value <= w.value
      BY <2>3
    <3>2. PICK w \in g.waits : w.queue = Compute /\ c.value <= w.value
      BY <3>1
    <3>3. g # h
      <4> SUFFICES ASSUME g = h PROVE FALSE
        OBVIOUS
      <4>1. semaphore[Compute] >= w.value
        BY <1>1, <3>2 DEF Reached
      <4>2. c.queue = Compute /\ c.value \in Nat \ {0}
        BY <2>1, WorkFacts, KindOf DEF IInv
      <4>3. semaphore[Compute] < c.value
        BY <2>1, <4>2, PendingFacts DEF IInv
      <4>4. w.value \in Nat
        <5>1. g \in GraphicsBatches
          <6>1. g \in Batches
            BY <1>2
          <6>2. g.waits # {}
            BY <3>2
          <6>3. QED BY <6>1, <6>2, KindOf DEF Batches
        <5>2. g.waits \subseteq [queue : {Compute}, value : Nat]
          BY <5>1 DEF GraphicsBatches
        <5>3. QED BY <3>2, <5>2
      <4>5. semaphore[Compute] \in Nat
        BY <1>10, Sizes
      <4>6. QED BY <3>2, <4>1, <4>2, <4>3, <4>4, <4>5
    <3>4. g \in Pending'
      BY <1>2, <3>3
    <3>5. QED BY <3>1, <3>2, <3>4
  <2>4. QED BY <2>1, <2>2, <2>3 DEF IInv, ComputeCovered
<1>15. AvailableInUse'
  <2> SUFFICES ASSUME NEW s \in 0 .. SemaphoreCount - 1,
                      binary'[Available(s)] # "unsignaled"
               PROVE  \/ s = semIndex /\ pc \in Acquired
                      \/ \E b \in Pending' : Available(s) \in b.waitSem
    BY DEF AvailableInUse, appVars
  <2>1. Available(s) \notin h.waitSem /\ binary[Available(s)] # "unsignaled"
    BY <1>5, SemNames
  <2>2. CASE \E b \in Pending : Available(s) \in b.waitSem
    BY <1>2, <2>1, <2>2
  <2>3. QED BY <2>1, <2>2 DEF IInv, AvailableInUse
<1>16. NothingFailed'
  <2> SUFFICES ASSUME acquireFailures = 0
               PROVE  /\ Live(Len(W))'
                      /\ pc \in Acquired => binary'[Available(semIndex)] # "unsignaled"
    BY DEF NothingFailed, appVars
  <2>1. ASSUME NEW m \in 1 .. Len(W'), NEW s \in Waits(W'[m])
        PROVE  binary'[s] # "unsignaled"
    <3>1. m + d \in 1 .. Len(W) /\ W'[m] = W[m + d]
      BY <1>6
    <3>2. s \in Waits(W[m + d]) /\ s \in AvailableSems
      BY <2>1, <3>1 DEF Waits
    <3>3. binary[s] # "unsignaled"
      BY <1>7, <3>1, <3>2 DEF IInv, NothingFailed, Live
    <3>4. s \notin h.waitSem
      <4>1. CASE d = 1
        <5>1. 1 \in 1 .. Len(W) /\ 1 < m + d /\ W[1] = h
          BY <1>6, <4>1
        <5>2. s \notin Waits(W[1])
          BY <3>1, <3>2, <5>1, SemsDiffer
        <5>3. QED BY <3>2, <5>1, <5>2 DEF Waits
      <4>2. CASE d = 0
        BY <1>2, <1>6, <4>2, KindOf
      <4>3. QED BY <4>1, <4>2
    <3>5. QED BY <1>5, <3>2, <3>3, <3>4
  <2>2. Live(Len(W))'
    BY <2>1 DEF Live, Waits
  <2>3. ASSUME pc \in Acquired PROVE binary'[Available(semIndex)] # "unsignaled"
    <3>1. Available(semIndex) \notin h.waitSem
      BY <1>2, <2>3, SlotFree
    <3>2. Available(semIndex) \in AvailableSems
      BY SemNames DEF IInv, AppType
    <3>3. QED BY <1>5, <2>3, <3>1, <3>2 DEF IInv, NothingFailed
  <2>4. QED BY <2>2, <2>3
<1>17. \A j \in Images : engine'[j] # engine[j] => d = 1 /\ W[1] = PresentItem(j)
  <2> SUFFICES ASSUME NEW j \in Images, h = PresentItem(j) PROVE d = 1
    BY <1>6
  <2>1. h \in Presents
    BY DEF Presents
  <2>2. h \notin ComputeBatches
    BY <1>2, <2>1, KindOf
  <2>3. QED BY <1>6, <2>2
<1>18. LiveBatches'
  <2> SUFFICES ASSUME NEW n \in 1 .. Len(W'), Live(n)', NEW i \in Images
               PROVE  /\ Rendered(i) \in W'[n].signalSem =>
                           \A s \in Waits(W'[n]) : Holds(s, i)'
                      /\ W'[n] = PresentItem(i) => Owned(i)'
                      /\ Rendered(i) \in W'[n].signalSem \/ W'[n] = PresentItem(i) =>
                           \A m \in 1 .. n - 1 : W'[m] # PresentItem(i)
    BY DEF LiveBatches, LiveBatch, Waits
  <2>1. n + d \in 1 .. Len(W) /\ W'[n] = W[n + d] /\ Live(n + d) /\ n \in Nat
    BY <1>6, <1>8
  <2>2. LiveBatch(n + d)
    BY <2>1 DEF IInv, LiveBatches
  <2>3. ASSUME Rendered(i) \in W'[n].signalSem \/ W'[n] = PresentItem(i)
        PROVE  /\ engine'[i] = engine[i]
               /\ \A m \in 1 .. n - 1 : W'[m] # PresentItem(i)
    <3>1. \A m \in 1 .. n + d - 1 : W[m] # PresentItem(i)
      BY <2>1, <2>2, <2>3 DEF LiveBatch
    <3>2. \A m \in 1 .. n - 1 : m + d \in 1 .. n + d - 1 /\ W'[m] = W[m + d]
      BY <1>6, <2>1
    <3>3. d = 1 => 1 \in 1 .. n + d - 1
      BY <2>1
    <3>4. QED BY <1>17, <3>1, <3>2, <3>3
  <2>4. ASSUME Rendered(i) \in W'[n].signalSem, NEW s \in Waits(W'[n])
        PROVE  Holds(s, i)'
    <3>1. Holds(s, i)
      BY <2>1, <2>2, <2>4 DEF LiveBatch
    <3>2. s \in AvailableSems
      BY <2>4 DEF Waits
    <3>3. binary'[s] # "unsignaled"
      BY <2>1, <2>4 DEF Live, Waits
    <3>4. binary'[s] = binary[s]
      BY <1>5, <3>2, <3>3
    <3>5. QED BY <2>3, <2>4, <3>1, <3>4 DEF Holds
  <2>5. ASSUME W'[n] = PresentItem(i) PROVE Owned(i)'
    <3>1. Owned(i)
      BY <2>1, <2>2, <2>5 DEF LiveBatch
    <3>2. QED BY <2>3, <2>5, <3>1 DEF Owned
  <2>6. QED BY <2>3, <2>4, <2>5
<1>19. AppHolds'
  <2> SUFFICES ASSUME Live(Len(W))'
               PROVE  /\ pc \in Acquired /\ binary'[Available(semIndex)] # "unsignaled" =>
                           /\ Holds(Available(semIndex), image)'
                           /\ \A n \in 1 .. Len(W') :
                                /\ W'[n] # PresentItem(image)
                                /\ Rendered(image) \notin W'[n].signalSem
                      /\ pc = "present" =>
                           /\ Owned(image)'
                           /\ \A n \in 1 .. Len(W') : W'[n] # PresentItem(image)
    BY DEF AppHolds, appVars
  <2>1. Live(Len(W)) /\ image \in Images
    <3>1. Live(Len(W') + d)
      BY <1>6, <1>8
    <3>2. Len(W') + d = Len(W)
      BY <1>6, <1>7
    <3>3. QED BY <3>1, <3>2 DEF IInv, AppType
  <2>2. ASSUME pc \in Acquired, binary'[Available(semIndex)] # "unsignaled"
        PROVE  /\ Holds(Available(semIndex), image)'
               /\ \A n \in 1 .. Len(W') : /\ W'[n] # PresentItem(image)
                                          /\ Rendered(image) \notin W'[n].signalSem
    <3>1. Available(semIndex) \in AvailableSems
      BY SemNames DEF IInv, AppType
    <3>2. binary'[Available(semIndex)] = binary[Available(semIndex)]
      BY <1>5, <2>2, <3>1
    <3>3. /\ Holds(Available(semIndex), image)
          /\ \A n \in 1 .. Len(W) : /\ W[n] # PresentItem(image)
                                    /\ Rendered(image) \notin W[n].signalSem
      BY <2>1, <2>2, <3>2 DEF IInv, AppHolds
    <3>4. engine'[image] = engine[image]
      BY <1>6, <1>17, <2>1, <3>3
    <3>5. Holds(Available(semIndex), image)'
      BY <3>2, <3>3, <3>4 DEF Holds, appVars
    <3>6. QED BY <1>6, <3>3, <3>5
  <2>3. ASSUME pc = "present"
        PROVE  /\ Owned(image)'
               /\ \A n \in 1 .. Len(W') : W'[n] # PresentItem(image)
    <3>1. Owned(image) /\ \A n \in 1 .. Len(W) : W[n] # PresentItem(image)
      BY <2>1, <2>3 DEF IInv, AppHolds
    <3>2. engine'[image] = engine[image]
      BY <1>6, <1>17, <2>1, <3>1
    <3>3. QED BY <1>6, <3>1, <3>2 DEF Owned, appVars
  <2>4. QED BY <2>2, <2>3
<1>20. RenderedInUse'
  <2> SUFFICES ASSUME NEW i \in Images
               PROVE  /\ binary'[Rendered(i)] # "unsignaled" => Presented(i, 0)'
                      /\ \A n \in 1 .. Len(W') : Rendered(i) \in W'[n].signalSem
                                                  => Presented(i, n)'
    BY DEF RenderedInUse
  <2>1. ASSUME NEW n \in Nat, Presented(i, n + d) PROVE Presented(i, n)'
    <3>1. CASE pc = "present" /\ image = i
      BY <3>1 DEF Presented, appVars
    <3>2. CASE \E m \in 1 .. Len(W) : m > n + d /\ W[m] = PresentItem(i)
      <4>1. PICK m \in 1 .. Len(W) : m > n + d /\ W[m] = PresentItem(i)
        BY <3>2
      <4>2. m - d \in 1 .. Len(W') /\ m - d > n /\ m = (m - d) + d
        BY <1>6, <1>7, <4>1
      <4>3. W'[m - d] = PresentItem(i)
        BY <1>6, <4>1, <4>2
      <4>4. QED BY <4>2, <4>3 DEF Presented
    <3>3. QED BY <2>1, <3>1, <3>2 DEF Presented
  <2>2. ASSUME binary'[Rendered(i)] # "unsignaled" PROVE Presented(i, 0)'
    <3>1. /\ Rendered(i) \notin h.waitSem
          /\ Rendered(i) \in h.signalSem \/ binary[Rendered(i)] # "unsignaled"
      BY <1>5, <2>2
    <3>2. h # PresentItem(i)
      BY <3>1 DEF PresentItem
    <3>3. CASE Rendered(i) \in h.signalSem
      <4>1. d = 1 /\ 1 \in 1 .. Len(W) /\ W[1] = h
        BY <1>2, <1>6, <3>3, KindOf
      <4>2. Presented(i, 1)
        BY <3>3, <4>1 DEF IInv, RenderedInUse
      <4>3. QED BY <2>1, <4>1, <4>2
    <3>4. CASE binary[Rendered(i)] # "unsignaled"
      <4>1. Presented(i, 0)
        BY <3>4 DEF IInv, RenderedInUse
      <4>2. Presented(i, 0 + d)
        BY <1>6, <3>2, <4>1 DEF Presented
      <4>3. QED BY <2>1, <4>2
    <3>5. QED BY <3>1, <3>3, <3>4
  <2>3. ASSUME NEW n \in 1 .. Len(W'), Rendered(i) \in W'[n].signalSem
        PROVE  Presented(i, n)'
    <3>1. n + d \in 1 .. Len(W) /\ Rendered(i) \in W[n + d].signalSem
      BY <1>6, <2>3
    <3>2. Presented(i, n + d)
      BY <3>1 DEF IInv, RenderedInUse
    <3>3. QED BY <2>1, <3>2
  <2>4. QED BY <2>2, <2>3
<1>21. QED
  BY <1>9, <1>11, <1>12, <1>13, <1>14, <1>15, <1>16, <1>18, <1>19, <1>20 DEF IInv

(* A submission done signals its own semaphores.                           *)
LEMMA FinishBatchStep ==
  ASSUME IInv, NEW k \in VkQueues, FinishBatch(k)
  PROVE  IInv'
<1> PICK h : h = Head(work[k])
  OBVIOUS
<1>1. /\ Ready(k) /\ SemsSignaled(k) /\ ~ IsPresent(h)
      /\ work' = [work EXCEPT ![k] = Tail(@)] /\ binary' = BinaryAfter(h)
      /\ semaphore' = [semaphore EXCEPT ![h.queue] = h.value]
      /\ UNCHANGED <<appVars, vkQueue, submitted, engine>>
  BY DEF FinishBatch, Finish
<1>2. h.value # 0
  <2>1. h \in Batches
    BY <1>1, Taken DEF IInv, Ready
  <2>2. QED BY <1>1, <2>1, KindOf DEF Batches
<1>3. engine' \in [Images -> {Free, OwnedByApp, Shown, Gone} \cup AvailableSems]
  BY <1>1 DEF IInv, EngineType
<1>4. QED BY <1>1, <1>2, <1>3, FinishStep

(* A present done leaves its image shown.                                  *)
LEMMA FinishPresentStep ==
  ASSUME IInv, NEW k \in VkQueues, FinishPresent(k)
  PROVE  IInv'
<1> PICK h : h = Head(work[k])
  OBVIOUS
<1>1. /\ Ready(k) /\ SemsSignaled(k) /\ IsPresent(h)
      /\ work' = [work EXCEPT ![k] = Tail(@)] /\ binary' = BinaryAfter(h)
      /\ engine' = [engine EXCEPT ![h.list[2]] = Shown]
      /\ UNCHANGED <<appVars, vkQueue, submitted, semaphore>>
  BY DEF FinishPresent
<1>2. h \in Presents
  <2>1. h \in Batches
    BY <1>1, Taken DEF IInv, Ready
  <2>2. QED BY <1>1, <2>1, KindOf DEF Batches
<1>3. PICK i \in Images : h = PresentItem(i)
  BY <1>2, KindOf DEF Presents
<1>4. h.list[2] = i
  BY <1>3 DEF PresentItem
<1>5. /\ engine' \in [Images -> {Free, OwnedByApp, Shown, Gone} \cup AvailableSems]
      /\ \A j \in Images : \/ engine'[j] = engine[j]
                           \/ engine'[j] = Shown /\ h = PresentItem(j)
  BY <1>1, <1>3, <1>4 DEF IInv, EngineType
<1>6. QED BY <1>1, <1>5, FinishStep

-----------------------------------------------------------------------------
(* Every step preserves the invariant.                                     *)
LEMMA NextIInv ==
  ASSUME IInv, [Next]_vars
  PROVE  IInv'
<1>1. CASE UNCHANGED vars
  <2> USE <1>1 DEF vars
  <2>1. /\ W' = W /\ Pending' = Pending
        /\ \A n : Live(n)' <=> Live(n)
        /\ \A n : LiveBatch(n)' <=> LiveBatch(n)
    BY DEF W, Pending, Items, Live, LiveBatch, Holds, Owned
  <2>2. QueueType(Batches)' /\ WorkOrdered' /\ EngineType' /\ AppType'
    BY DEF IInv, QueueType, QueuesTyped, WorkOrdered, Ordered, EngineType, AppType
  <2>3. Rotation' /\ SlotTimelines' /\ Lead' /\ IdleAtEnd'
    BY <2>1 DEF IInv, Rotation, SlotTimelines, Lead, Age, IdleAtEnd, Idle
  <2>4. ComputeCovered' /\ AvailableInUse' /\ NothingFailed'
    BY <2>1 DEF IInv, ComputeCovered, AvailableInUse, NothingFailed
  <2>5. LiveBatches' /\ AppHolds' /\ RenderedInUse'
    BY <2>1 DEF IInv, LiveBatches, AppHolds, Holds, Owned, RenderedInUse, Presented
  <2>6. QED BY <2>2, <2>3, <2>4, <2>5 DEF IInv
<1>2. CASE Application
  <2>1. CASE \/ StartIteration \/ CloseWindow \/ WaitForSlot \/ WriteUniform
             \/ RecordLists \/ GraphicsIdle \/ ComputeIdle
    BY <2>1, ControlSteps
  <2>2. CASE Resize
    BY <2>2, ResizeStep
  <2>3. CASE AcquireNextImage
    BY <2>3, AcquireStep
  <2>4. CASE AcquireNextImageFails
    BY <2>4, AcquireFailsStep
  <2>5. CASE SubmitCompute
    BY <2>5, SubmitComputeStep
  <2>6. CASE SubmitGraphics
    BY <2>6, SubmitGraphicsStep
  <2>7. CASE Present
    BY <2>7, PresentStep
  <2>8. QED
    BY <1>2, <2>1, <2>2, <2>3, <2>4, <2>5, <2>6, <2>7 DEF Application
<1>3. CASE \E k \in VkQueues : FinishBatch(k) \/ FinishPresent(k)
  BY <1>3, FinishBatchStep, FinishPresentStep
<1>4. CASE \E i \in Images : HandOver(i) \/ LetGo(i)
  BY <1>4, HandOverStep, LetGoStep
<1>5. QED
  BY <1>1, <1>2, <1>3, <1>4 DEF Next

(* The invariant holds in every reachable state.                           *)
LEMMA Invariance == Spec => []IInv
BY InitIInv, NextIInv, PTL DEF Spec

-----------------------------------------------------------------------------
(* What the application does to a queue is to append to it.                *)
LEMMA ApplicationAppends ==
  ASSUME IInv, SubmitCompute \/ SubmitGraphics \/ Present
  PROVE  \E m \in VkQueues, b \in Batches :
           work' = [work EXCEPT ![m] = Append(@, b)]
<1>1. /\ vkQueue[Graphics] \in VkQueues /\ vkQueue[Compute] \in VkQueues
      /\ submitted[Graphics] \in Nat /\ submitted[Compute] \in Nat
      /\ frame \in Frames /\ image \in Images /\ computeT \in Nat
      /\ Available(semIndex) \in AvailableSems
  BY Sizes, SemNames DEF IInv, QueueType, QueuesTyped, AppType
<1>2. CASE SubmitCompute
  <2>1. PICK b : b = Batch(Compute, ComputeList(frame), {}, {}, {})
    OBVIOUS
  <2>2. submitted[Compute] + 1 \in Nat \ {0}
    BY <1>1
  <2>3. b \in Batches
    BY <1>1, <2>1, <2>2 DEF Batches, ComputeBatches, Batch, SignalValue, TimelineWaits
  <2>4. work' = [work EXCEPT ![vkQueue[Compute]] = Append(@, b)]
    BY <1>2, <2>1 DEF SubmitCompute, SubmitOne
  <2>5. QED BY <1>1, <2>3, <2>4
<1>3. CASE SubmitGraphics
  <2>1. PICK t : t = Timeline(Compute, computeT)
    OBVIOUS
  <2>2. t \in [queue : {Compute}, value : Nat]
    BY <1>1, <2>1 DEF Timeline
  <2>3. PICK b : b = Batch(Graphics, GraphicsList(frame), {t}, {Available(semIndex)},
                           {Rendered(image)})
    OBVIOUS
  <2>4. TimelineWaits(Graphics, {t}) = {t}
    BY <2>2 DEF TimelineWaits, Timeline
  <2>5. b \in Batches
    BY <1>1, <2>2, <2>3, <2>4, GraphicsBatchIs DEF Batches, Batch, SignalValue
  <2>6. work' = [work EXCEPT ![vkQueue[Graphics]] = Append(@, b)]
    BY <1>3, <2>1, <2>3 DEF SubmitGraphics, Submit, ImageAvail, RenderComplete
  <2>7. QED BY <1>1, <2>5, <2>6
<1>4. CASE Present
  BY <1>1, <1>4 DEF Present, Batches, Presents
<1>5. QED BY <1>2, <1>3, <1>4

(* Only the device takes work from a queue, and the batch it takes first   *)
(* has had the images it renders handed over.                              *)
LEMMA StepRenders ==
  ASSUME IInv, [Next]_vars, NEW k \in VkQueues, Len(work'[k]) < Len(work[k]),
         NEW i \in Images, Rendered(i) \in Head(work[k]).signalSem
  PROVE  engine[i] = OwnedByApp
<1>1. \A m \in VkQueues : Len(work[m]) \in Nat
  BY LenProperties DEF IInv, QueueType, QueuesTyped
<1>2. ~ (work' = work)
  BY <1>1
<1>3. \A m \in VkQueues, b \in Batches :
        ~ (work' = [work EXCEPT ![m] = Append(@, b)])
  <2> SUFFICES ASSUME NEW m \in VkQueues, NEW b \in Batches,
                      work' = [work EXCEPT ![m] = Append(@, b)]
               PROVE  FALSE
    OBVIOUS
  <2>1. Appended(VkQueues, Batches, work, m, b, work')
    BY DEF IInv, QueueType, QueuesTyped, Appended
  <2>2. /\ Len(work'[m]) = Len(work[m]) + 1
        /\ \A x \in VkQueues \ {m} : work'[x] = work[x]
    BY <2>1, AppendItem
  <2>3. QED BY <1>1, <2>2
<1>4. ~ Application
  <2> SUFFICES ASSUME Application PROVE FALSE
    OBVIOUS
  <2>1. CASE SubmitCompute \/ SubmitGraphics \/ Present
    <3>1. \E m \in VkQueues, b \in Batches :
            work' = [work EXCEPT ![m] = Append(@, b)]
      BY <2>1, ApplicationAppends
    <3>2. QED BY <1>3, <3>1
  <2>2. CASE ~ (SubmitCompute \/ SubmitGraphics \/ Present)
    BY <1>2, <2>2 DEF Application, StartIteration, CloseWindow, Resize,
       WaitForSlot, AcquireNextImage, AcquireNextImageFails, WriteUniform,
       RecordLists, GraphicsIdle, ComputeIdle, queueVars
  <2>3. QED BY <2>1, <2>2
<1>5. PICK m \in VkQueues : FinishBatch(m) \/ FinishPresent(m)
  BY <1>2, <1>4 DEF Next, vars, HandOver, LetGo, queueVars
<1>6. /\ Ready(m) /\ SemsSignaled(m) /\ work[m] # <<>>
      /\ work' = [work EXCEPT ![m] = Tail(@)] /\ UNCHANGED vkQueue
  BY <1>5 DEF FinishBatch, Finish, FinishPresent, Ready
<1>7. m = k
  BY <1>1, <1>6 DEF IInv, QueueType, QueuesTyped
<1>8. PICK h : h = Head(work[k])
  OBVIOUS
<1>9. h \in Batches /\ \E d \in {0, 1} : Takes(h, d)
  <2>1. /\ QueueType(Batches) /\ WorkOrdered /\ work[k] # <<>>
        /\ work' = [work EXCEPT ![k] = Tail(@)] /\ UNCHANGED vkQueue
    BY <1>6, <1>7 DEF IInv
  <2>2. QED BY <1>8, <2>1, Taken, ZenonT(60)
<1>10. 1 \in 1 .. Len(W) /\ W[1] = h
  BY <1>8, <1>9, KindOf DEF Takes
<1>11. \A s \in Waits(W[1]) : binary[s] = "signaled"
  BY <1>6, <1>7, <1>8, <1>10 DEF SemsSignaled, Waits
<1>12. Live(1)
  BY <1>11 DEF Live
<1>13. \A s \in Waits(W[1]) : Holds(s, i)
  BY <1>8, <1>10, <1>12 DEF IInv, LiveBatches, LiveBatch
<1>14. PICK s : s \in Waits(W[1])
  BY <1>8, <1>9, <1>10, KindOf DEF Batches
<1>15. QED BY <1>11, <1>13, <1>14 DEF Holds

-----------------------------------------------------------------------------
(* The program's variables, the semaphores and the images keep their       *)
(* types, and an image being handed over has its semaphore pending.        *)
THEOREM TypeCorrect == Spec => []TypeOK
BY Invariance, IInvTypeOK, PTL

(* The CPU never writes a uniform buffer the device may still read.        *)
THEOREM UniformCorrect == Spec => []UniformNotInUse
BY Invariance, IInvUniform, PTL

(* Neither command list of a slot is in flight when it is recorded again,  *)
(* although the loop only ever waits for the graphics queue.               *)
THEOREM ListsCorrect == Spec => []ListsNotInFlight
BY Invariance, IInvLists, PTL

(* vkAcquireNextImageKHR is always given a semaphore nobody uses, whether  *)
(* or not earlier calls failed.                                            *)
THEOREM AcquireCorrect == Spec => []AcquireSemaphoreUnused
BY Invariance, IInvAcquire, PTL

(* A submission never signals a render-complete semaphore still in use, as *)
(* long as every image was acquired.                                       *)
THEOREM RenderCorrect == Spec => []RenderSemaphoreUnused
BY Invariance, IInvRender, PTL

(* Nothing is destroyed while a submission is pending.                     *)
THEOREM DestroyCorrect == Spec => []DestroyedWhenIdle
BY Invariance, IInvDestroyed, PTL

(* No step of the device renders an image the presentation engine still    *)
(* reads, after failed calls of vkAcquireNextImageKHR included.            *)
THEOREM OwnedCorrect == Spec => RendersOwnedImage
<1>1. IInv /\ [Next]_vars =>
        [\A k \in VkQueues :
           Len(work'[k]) < Len(work[k]) =>
             \A i \in Images :
               Rendered(i) \in Head(work[k]).signalSem => engine[i] = OwnedByApp]_vars
  BY StepRenders
<1>2. QED BY <1>1, Invariance, PTL DEF Spec, RendersOwnedImage
=============================================================================
