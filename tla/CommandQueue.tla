---------------------------- MODULE CommandQueue ----------------------------
(***************************************************************************)
(* VulkanCommandQueue (src/Vulkan/VK_Queue.cpp) over the driver's queues.  *)
(*                                                                         *)
(* A CommandQueue counts its submissions in m_Submitted and gives the n-th *)
(* one the value n of its timeline semaphore; the caller gets the value    *)
(* back as a Timeline.  Two CommandQueues are one VkQueue when the device  *)
(* has no dedicated family.  A VkQueue signals in submission order, so it  *)
(* is modelled as a FIFO whose head finishes once its waits are satisfied. *)
(*                                                                         *)
(* The operators below are steps of the queues alone; QueueClient and      *)
(* FrameLoop combine them with the steps of a program.                     *)
(***************************************************************************)
EXTENDS Integers, Sequences, FiniteSets

CONSTANTS
  Queues,       \* the CommandQueues
  VkQueues,     \* the driver's queues
  WaitSlots     \* the length of m_WaitInfos: 4 in the code

VARIABLES
  vkQueue,      \* m_Queue of each CommandQueue
  submitted,    \* m_Submitted
  waitCount,    \* m_WaitCount
  semaphore,    \* the counter of m_TimelineSemaphore
  work          \* per VkQueue: the batches the driver has not finished

queueVars == <<vkQueue, submitted, waitCount, semaphore, work>>

(* VulkanDevice picks the families, VKBackendInit builds the queues.       *)
QueueInit ==
  /\ vkQueue \in [Queues -> VkQueues]
  /\ submitted = [q \in Queues |-> 0]
  /\ waitCount = [q \in Queues |-> 0]
  /\ semaphore = [q \in Queues |-> 0]
  /\ work = [k \in VkQueues |-> <<>>]

(* A Timeline together with the queue it belongs to: a QueueDependency.    *)
Timeline(q, n) == [queue |-> q, value |-> n]

Reached(t) == semaphore[t.queue] >= t.value

Items(k) == {work[k][i] : i \in 1 .. Len(work[k])}

Pending == UNION {Items(k) : k \in VkQueues}

(* Whether the device still has to execute this command list.              *)
InFlight(list) == \E b \in Pending : b.list = list

-----------------------------------------------------------------------------
(* Submit: the value signalled and returned, and the batch handed to       *)
(* vkQueueSubmit2.  deps become timeline waits, one per dependency;        *)
(* waitSem and signalSem are the binary semaphores of a submission that    *)
(* writes to the swapchain.                                                *)

(* Bug variant: one increment too many.                                    *)
SignalValueAhead(q) == submitted[q] + 2

SignalValue(q) == submitted[q] + 1

(* Bug variant: every dependency waits on the queue's own semaphore.       *)
OwnSemaphoreWaits(q, deps) == {Timeline(q, d.value) : d \in deps}

TimelineWaits(q, deps) == {Timeline(d.queue, d.value) : d \in deps}

WaitsUsed(deps, waitSem) == Cardinality(deps) + Cardinality(waitSem)

Batch(q, list, deps, waitSem, signalSem) ==
  [queue |-> q, value |-> SignalValue(q), list |-> list,
   waits |-> TimelineWaits(q, deps),
   waitSem |-> waitSem, signalSem |-> signalSem]

(* The waits have room in m_WaitInfos.                                     *)
CountSubmission(q, deps, waitSem) ==
  /\ WaitsUsed(deps, waitSem) <= WaitSlots
  /\ submitted' = [submitted EXCEPT ![q] = @ + 1]
  /\ waitCount' = [waitCount EXCEPT ![q] = WaitsUsed(deps, waitSem)]

(* They have not: addWait2 writes n of them all the same, over the signal  *)
(* arrays and m_SignalCount that come next.                                *)
SubmitOverruns(q, n) ==
  /\ n > WaitSlots
  /\ waitCount' = [waitCount EXCEPT ![q] = n]
  /\ UNCHANGED <<vkQueue, submitted, semaphore, work>>

Submit(q, list, deps, waitSem, signalSem) ==
  /\ CountSubmission(q, deps, waitSem)
  /\ work' = [work EXCEPT ![vkQueue[q]] =
                Append(@, Batch(q, list, deps, waitSem, signalSem))]
  /\ UNCHANGED <<vkQueue, semaphore>>

(* The overload for one command list: no dependencies, and the counts of   *)
(* the other overload stay as they were.                                   *)
SubmitOne(q, list) ==
  /\ submitted' = [submitted EXCEPT ![q] = @ + 1]
  /\ work' = [work EXCEPT ![vkQueue[q]] =
                Append(@, Batch(q, list, {}, {}, {}))]
  /\ UNCHANGED <<vkQueue, waitCount, semaphore>>

(* vkQueueSubmit2 fails: the error is logged, the value stays counted.     *)
SubmitFails(q, deps, waitSem) ==
  /\ CountSubmission(q, deps, waitSem)
  /\ UNCHANGED <<vkQueue, semaphore, work>>

-----------------------------------------------------------------------------
(* The head of VkQueue k has all its timeline waits satisfied.             *)
Ready(k) == /\ work[k] # <<>>
            /\ \A w \in Head(work[k]).waits : Reached(w)

(* It finishes and signals the timeline of the CommandQueue it came from.  *)
Finish(k) ==
  /\ Ready(k)
  /\ semaphore' = [semaphore EXCEPT ![Head(work[k]).queue] =
                     Head(work[k]).value]
  /\ work' = [work EXCEPT ![k] = Tail(@)]
  /\ UNCHANGED <<vkQueue, submitted, waitCount>>

(* Wait(t) and WaitIdle() return success.  Bug variant of WaitIdle: it     *)
(* waits for the value before the last one.                                *)
WaitSatisfied(t) == Reached(t)

IdleEarly(q) == semaphore[q] + 1 >= submitted[q]

Idle(q) == semaphore[q] >= submitted[q]

(* Poll(t), which compares strictly: the newest value signalled does not   *)
(* count as reached.  Bug variant: m_Submitted instead of the counter.     *)
PollSubmitted(t) == t.value # 0 /\ t.value < submitted[t.queue]

Poll(t) == /\ t.value # 0
           /\ t.value <= submitted[t.queue]
           /\ t.value < semaphore[t.queue]
=============================================================================
