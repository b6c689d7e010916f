----------------------------- MODULE QueueClient -----------------------------
(***************************************************************************)
(* A program that drives the CommandQueues from one thread: it allocates   *)
(* command lists, submits them with dependencies on Timelines it was given *)
(* and finds out through Wait, WaitIdle, Poll and Completed when a list    *)
(* may be recorded again.  The device works on its own.                    *)
(***************************************************************************)
EXTENDS CommandQueue

CONSTANTS
  CmdLists,     \* command lists
  NoQueue,      \* home of a list that is not allocated
  MaxSubmits,   \* bound: submissions per CommandQueue
  MaxDeps,      \* bound: dependencies of one submission
  MaxFailures   \* bound: calls of vkQueueSubmit that fail

ASSUME ClientAssumption ==
  /\ IsFiniteSet(Queues) /\ NoQueue \notin Queues
  /\ MaxSubmits \in Nat /\ MaxDeps \in Nat /\ MaxFailures \in Nat
  /\ WaitSlots \in Nat

VARIABLES
  home,         \* the queue whose allocator owns the list
  last,         \* the Timeline of the list's latest submission
  reusable,     \* the lists the program believes the device is done with
  call,         \* the blocking call the program is in
  after,        \* <<t, d>>: submission t was to run after submission d
  failed        \* the Timelines returned by failed submissions

clientVars == <<home, last, reusable, call, after, failed>>
allVars == <<vkQueue, submitted, waitCount, semaphore, work,
          home, last, reusable, call, after, failed>>

NoCall == [op |-> "none"]

(* Memory was overrun: nothing is known of the program from here on.       *)
Undefined == [op |-> "undefined"]

ClientInit ==
  /\ QueueInit
  /\ home = [l \in CmdLists |-> NoQueue]
  /\ last = [l \in CmdLists |-> Timeline(NoQueue, 0)]
  /\ reusable = {}
  /\ call = NoCall
  /\ after = {}
  /\ failed = {}

(* The Timelines Submit has returned so far.                               *)
Returned == UNION {{Timeline(q, n) : n \in 1 .. submitted[q]} : q \in Queues}

(* What the program concludes from the news that t was reached.            *)
LearnReached(t) ==
  reusable' = reusable \cup {l \in CmdLists : /\ home[l] = t.queue
                                              /\ last[l].queue = t.queue
                                              /\ last[l].value <= t.value}

-----------------------------------------------------------------------------
(* CommandAllocator::Allocate.                                             *)
Allocate(q, l) ==
  /\ call = NoCall
  /\ home[l] = NoQueue
  /\ home' = [home EXCEPT ![l] = q]
  /\ last' = [last EXCEPT ![l] = Timeline(NoQueue, 0)]
  /\ reusable' = reusable \cup {l}
  /\ UNCHANGED <<queueVars, call, after, failed>>

(* Record a list and submit it to the queue it was allocated for.          *)
CanSubmit(q, l) == /\ call = NoCall
                   /\ submitted[q] < MaxSubmits
                   /\ home[l] = q
                   /\ l \in reusable

SubmitList(q, l, deps) ==
  LET t == Timeline(q, SignalValue(q))
  IN  /\ CanSubmit(q, l)
      /\ Submit(q, l, deps, {}, {})
      /\ last' = [last EXCEPT ![l] = t]
      /\ reusable' = reusable \ {l}
      /\ after' = after \cup {<<t, d>> : d \in deps}
      /\ UNCHANGED <<home, call, failed>>

SubmitListFails(q, l, deps) ==
  LET t == Timeline(q, SignalValue(q))
  IN  /\ CanSubmit(q, l)
      /\ Cardinality(failed) < MaxFailures
      /\ SubmitFails(q, deps, {})
      /\ last' = [last EXCEPT ![l] = t]
      /\ reusable' = reusable \ {l}
      /\ failed' = failed \cup {t}
      /\ UNCHANGED <<home, call, after>>

(* waitDependencies is a vector of any length, which may name a Timeline   *)
(* twice: with more elements than m_WaitInfos has, the model of the        *)
(* program ends; the device goes on with what it was given.                *)
SubmitListOverruns(q, l) ==
  /\ CanSubmit(q, l)
  /\ \E n \in 1 .. MaxDeps : SubmitOverruns(q, n)
  /\ call' = Undefined
  /\ UNCHANGED <<home, last, reusable, after, failed>>

-----------------------------------------------------------------------------
(* Wait(t, timeout): the call, its return with true, and with false after  *)
(* the timeout.                                                            *)
Wait(t) ==
  /\ call = NoCall
  /\ call' = [op |-> "Wait", t |-> t]
  /\ UNCHANGED <<queueVars, home, last, reusable, after, failed>>

WaitReturns ==
  /\ call.op = "Wait"
  /\ WaitSatisfied(call.t)
  /\ LearnReached(call.t)
  /\ call' = NoCall
  /\ UNCHANGED <<queueVars, home, last, after, failed>>

WaitTimesOut ==
  /\ call.op = "Wait"
  /\ ~ WaitSatisfied(call.t)
  /\ call' = NoCall
  /\ UNCHANGED <<queueVars, home, last, reusable, after, failed>>

WaitIdle(q) ==
  /\ call = NoCall
  /\ call' = [op |-> "WaitIdle", queue |-> q]
  /\ UNCHANGED <<queueVars, home, last, reusable, after, failed>>

WaitIdleReturns ==
  /\ call.op = "WaitIdle"
  /\ Idle(call.queue)
  /\ LearnReached(Timeline(call.queue, submitted[call.queue]))
  /\ call' = NoCall
  /\ UNCHANGED <<queueVars, home, last, after, failed>>

(* Poll(t) and Completed() return at once; only the answers that tell the  *)
(* program something are steps.                                            *)
PollAnswersTrue(t) ==
  /\ call = NoCall
  /\ Poll(t)
  /\ LearnReached(t)
  /\ UNCHANGED <<queueVars, home, last, call, after, failed>>

Completed(q) ==
  /\ call = NoCall
  /\ LearnReached(Timeline(q, semaphore[q]))
  /\ UNCHANGED <<queueVars, home, last, call, after, failed>>

(* DestroyCommandAllocator: WaitIdle, then the pool and its lists go.      *)
DestroyCommandAllocator(q) ==
  /\ call = NoCall
  /\ call' = [op |-> "Destroy", queue |-> q]
  /\ UNCHANGED <<queueVars, home, last, reusable, after, failed>>

(* Bug variant: no WaitIdle before vkDestroyCommandPool.                   *)
DestroyAtOnce ==
  /\ call.op = "Destroy"
  /\ home' = [l \in CmdLists |-> IF home[l] = call.queue THEN NoQueue
                                                         ELSE home[l]]
  /\ reusable' = {l \in reusable : home[l] # call.queue}
  /\ call' = NoCall
  /\ UNCHANGED <<queueVars, last, after, failed>>

DestroyReturns ==
  /\ call.op = "Destroy"
  /\ Idle(call.queue)
  /\ home' = [l \in CmdLists |-> IF home[l] = call.queue THEN NoQueue
                                                         ELSE home[l]]
  /\ reusable' = {l \in reusable : home[l] # call.queue}
  /\ call' = NoCall
  /\ UNCHANGED <<queueVars, last, after, failed>>

(* The device finishes a batch.                                            *)
DeviceFinishes(k) == Finish(k) /\ UNCHANGED clientVars

(* What a submission to q may depend on: Timelines of the other queues,    *)
(* those of q itself being behind it anyway, and a Timeline named twice    *)
(* making no difference to the order.                                      *)
DepSets(q) == {deps \in SUBSET {t \in Returned : t.queue # q} :
                 Cardinality(deps) <= MaxDeps}

ClientNext ==
  \/ \E q \in Queues, l \in CmdLists :
       \/ Allocate(q, l)
       \/ \E deps \in DepSets(q) : SubmitList(q, l, deps)
       \/ \E deps \in DepSets(q) : SubmitListFails(q, l, deps)
       \/ SubmitListOverruns(q, l)
  \/ \E t \in Returned : Wait(t) \/ PollAnswersTrue(t)
  \/ \E q \in Queues : WaitIdle(q) \/ Completed(q) \/ DestroyCommandAllocator(q)
  \/ WaitReturns \/ WaitTimesOut \/ WaitIdleReturns \/ DestroyReturns
  \/ \E k \in VkQueues : DeviceFinishes(k)

(* The device makes progress, and a call whose condition holds returns.    *)
Fairness == /\ \A k \in VkQueues : WF_allVars(DeviceFinishes(k))
            /\ WF_allVars(WaitReturns)
            /\ WF_allVars(WaitIdleReturns)
            /\ WF_allVars(DestroyReturns)

ClientSpec == ClientInit /\ [][ClientNext]_allVars /\ Fairness

-----------------------------------------------------------------------------
BatchTimeline(b) == Timeline(b.queue, b.value)

ClientTypeOK ==
  /\ vkQueue \in [Queues -> VkQueues]
  /\ submitted \in [Queues -> 0 .. MaxSubmits]
  /\ waitCount \in [Queues -> Nat]
  /\ semaphore \in [Queues -> 0 .. MaxSubmits]
  /\ \A q \in Queues : semaphore[q] <= submitted[q]
  /\ \A b \in Pending : b.list \in CmdLists /\ b.value <= submitted[b.queue]
  /\ home \in [CmdLists -> Queues \cup {NoQueue}]
  /\ reusable \subseteq {l \in CmdLists : home[l] # NoQueue}

(* What Wait, WaitIdle, Poll and Completed tell the program is true: a     *)
(* list it believes done is not executing, nor waiting in the driver.      *)
HostKnowledgeSound == \A l \in reusable : ~ InFlight(l)

(* DestroyCommandAllocator never frees a list the device still executes.   *)
NoDestroyedListInFlight == \A l \in CmdLists : InFlight(l) => home[l] # NoQueue

(* A dependency orders two submissions across queues: when the later one   *)
(* has finished, so has the one it was to run after.                       *)
DependenciesHonoured ==
  \A p \in after :
    (\E b \in Pending : BatchTimeline(b) = p[2]) =>
    (\E b \in Pending : BatchTimeline(b) = p[1])

(* Dependencies only name Timelines that were returned, so no set of       *)
(* queues waits for itself: unless a submission failed, every Wait,        *)
(* WaitIdle and DestroyCommandAllocator returns.                           *)
CallsReturn == (call \notin {NoCall, Undefined}) ~> (call = NoCall \/ failed # {})
=============================================================================
