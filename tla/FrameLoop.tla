------------------------------ MODULE FrameLoop ------------------------------
(***************************************************************************)
(* The frame loop of Test/HelloCube over VulkanSwapchain (VK_Swapchain.cpp)*)
(* and two CommandQueues: FRAME_COUNT frame slots with their own command   *)
(* lists and uniform buffer, one acquire semaphore per frame in flight and *)
(* one render-complete semaphore per swapchain image.  The application,    *)
(* the device and the presentation engine run concurrently.                *)
(***************************************************************************)
EXTENDS CommandQueue

CONSTANTS
  Graphics, Compute,   \* the two CommandQueues
  FrameCount,          \* FRAME_COUNT of the application
  SemaphoreCount,      \* maxFramesInFlight of the swapchain
  ImageCount,          \* images of the swapchain, and semaphores for them
  FewestImages,        \* the least a resize may leave it with
  MaxIterations,       \* bound: iterations of the loop
  MaxAcquireFailures   \* bound: calls of vkAcquireNextImageKHR that fail

ASSUME FrameLoopAssumption ==
  /\ Queues = {Graphics, Compute} /\ Graphics # Compute
  /\ FrameCount \in Nat \ {0} /\ ImageCount \in Nat
  /\ FewestImages \in 2 .. ImageCount
  /\ SemaphoreCount \in Nat /\ FrameCount <= SemaphoreCount
  /\ WaitSlots >= 2

Frames == 0 .. FrameCount - 1
Images == 0 .. ImageCount - 1

(* m_SignalSemaphores, which acquiring signals, and m_WaitSemaphores,      *)
(* which rendering signals.                                                *)
Available(s) == <<"available", s>>
Rendered(i) == <<"rendered", i>>
AvailableSems == {Available(s) : s \in 0 .. SemaphoreCount - 1}
Free == <<"free", 0>>
OwnedByApp == <<"app", 0>>
Shown == <<"shown", 0>>
Gone == <<"gone", 0>>
Sems == AvailableSems \cup {Rendered(i) : i \in Images}

VARIABLES
  pc,             \* where the application is
  frame,          \* currentFrame
  frameT,         \* frame.t of every slot
  computeT,       \* t0
  image,          \* currentImageIndex, m_CurrentImageIndex
  semIndex,       \* m_currentSemaphoreIndex
  binary,         \* binary semaphores: "unsignaled", "pending" or "signaled"
  engine,         \* images: Free, the semaphore that hands it over,
                  \* OwnedByApp or Shown; Gone beyond the last one
  iterations,
  acquireFailures

appVars == <<pc, frame, frameT, computeT, image, semIndex, iterations,
             acquireFailures>>
vars == <<vkQueue, submitted, waitCount, semaphore, work, pc, frame, frameT,
          computeT, image, semIndex, binary, engine, iterations,
          acquireFailures>>

Init == /\ QueueInit
        /\ pc = "top"
        /\ frame = 0
        /\ frameT = [f \in Frames |-> 0]
        /\ computeT = 0
        /\ image = 0
        /\ semIndex = 0
        /\ binary = [s \in Sems |-> "unsignaled"]
        /\ engine = [i \in Images |-> Free]
        /\ iterations = 0
        /\ acquireFailures = 0

(* The command lists of a slot; a present is a work item of its own.       *)
GraphicsList(f) == <<"graphics", f>>
ComputeList(f) == <<"compute", f>>
PresentItem(i) == [queue |-> Graphics, value |-> 0, list |-> <<"present", i>>,
                   waits |-> {}, waitSem |-> {Rendered(i)}, signalSem |-> {}]

IsPresent(b) == b.list[1] = "present"

-----------------------------------------------------------------------------
(* The application.                                                        *)

Goto(from, to) == pc = from /\ pc' = to

(* glfwWindowShouldClose, and the size test of the loop's first lines.     *)
StartIteration ==
  /\ iterations < MaxIterations
  /\ Goto("top", "wait") \/ Goto("top", "resize")
  /\ UNCHANGED <<queueVars, frame, frameT, computeT, image, semIndex, binary,
                 engine, iterations, acquireFailures>>

CloseWindow ==
  /\ Goto("top", "graphicsIdle")
  /\ UNCHANGED <<queueVars, frame, frameT, computeT, image, semIndex, binary,
                 engine, iterations, acquireFailures>>

(* Resize: vkDeviceWaitIdle, then a new swapchain, which may have fewer    *)
(* images; the semaphores, their index and the image acquired last stay.   *)
Resize ==
  /\ Goto("resize", "wait")
  /\ Pending = {}
  /\ \E n \in FewestImages .. ImageCount :
       engine' = [i \in Images |-> IF i < n THEN Free ELSE Gone]
  /\ UNCHANGED <<queueVars, frame, frameT, computeT, image, semIndex, binary,
                 iterations, acquireFailures>>

(* Bug variant: the loop does not wait for the slot.                       *)
NoWaitForSlot ==
  /\ Goto("wait", "acquire")
  /\ UNCHANGED <<queueVars, frame, frameT, computeT, image, semIndex, binary,
                 engine, iterations, acquireFailures>>

(* graphics->Wait(frame.t).                                                *)
WaitForSlot ==
  /\ Goto("wait", "acquire")
  /\ WaitSatisfied(Timeline(Graphics, frameT[frame]))
  /\ UNCHANGED <<queueVars, frame, frameT, computeT, image, semIndex, binary,
                 engine, iterations, acquireFailures>>

AcquireNextImage ==
  /\ Goto("acquire", "write")
  /\ \E i \in Images :
       /\ engine[i] = Free
       /\ image' = i
       /\ engine' = [engine EXCEPT ![i] = Available(semIndex)]
  /\ binary' = [binary EXCEPT ![Available(semIndex)] = "pending"]
  /\ UNCHANGED <<queueVars, frame, frameT, computeT, semIndex, iterations,
                 acquireFailures>>

(* VK_ERROR_OUT_OF_DATE_KHR: VK_CHECK logs it, the previous index is       *)
(* returned and nothing is going to signal the semaphore.                  *)
AcquireNextImageFails ==
  /\ Goto("acquire", "write")
  /\ acquireFailures < MaxAcquireFailures
  /\ acquireFailures' = acquireFailures + 1
  /\ UNCHANGED <<queueVars, frame, frameT, computeT, image, semIndex, binary,
                 engine, iterations>>

(* memcpy into the slot's uniform buffer.                                  *)
WriteUniform ==
  /\ Goto("write", "record")
  /\ UNCHANGED <<queueVars, frame, frameT, computeT, image, semIndex, binary,
                 engine, iterations, acquireFailures>>

(* open() .. close() of the slot's two command lists.                      *)
RecordLists ==
  /\ Goto("record", "submitCompute")
  /\ UNCHANGED <<queueVars, frame, frameT, computeT, image, semIndex, binary,
                 engine, iterations, acquireFailures>>

SubmitCompute ==
  /\ Goto("submitCompute", "submitGraphics")
  /\ SubmitOne(Compute, ComputeList(frame))
  /\ computeT' = SignalValue(Compute)
  /\ UNCHANGED <<frame, frameT, image, semIndex, binary, engine, iterations,
                 acquireFailures>>

(* imageAvail() and renderComplete() of VulkanSwapchain, at Submit.  Bug   *)
(* variants: the semaphore of the frame before, and the semaphores of both *)
(* kinds indexed alike.                                                    *)
PreviousImageAvail ==
  Available((semIndex + SemaphoreCount - 1) % SemaphoreCount)

ImageAvail == Available(semIndex)

RenderCompletePerFrame == Rendered(semIndex % ImageCount)

RenderComplete == Rendered(image)

(* Bug variant: without the dependency on the compute submission.          *)
SubmitGraphicsAlone ==
  /\ Goto("submitGraphics", "present")
  /\ Submit(Graphics, GraphicsList(frame), {}, {ImageAvail}, {RenderComplete})
  /\ frameT' = [frameT EXCEPT ![frame] = SignalValue(Graphics)]
  /\ UNCHANGED <<frame, computeT, image, semIndex, binary, engine,
                 iterations, acquireFailures>>

SubmitGraphics ==
  /\ Goto("submitGraphics", "present")
  /\ Submit(Graphics, GraphicsList(frame), {Timeline(Compute, computeT)},
            {ImageAvail}, {RenderComplete})
  /\ frameT' = [frameT EXCEPT ![frame] = SignalValue(Graphics)]
  /\ UNCHANGED <<frame, computeT, image, semIndex, binary, engine,
                 iterations, acquireFailures>>

(* Bug variant: the acquire semaphores are not rotated.                    *)
SameSemaphore == semIndex

NextSemaphore == (semIndex + 1) % SemaphoreCount

Present ==
  /\ Goto("present", "top")
  /\ work' = [work EXCEPT ![vkQueue[Graphics]] = Append(@, PresentItem(image))]
  /\ semIndex' = NextSemaphore
  /\ frame' = (frame + 1) % FrameCount
  /\ iterations' = iterations + 1
  /\ UNCHANGED <<vkQueue, submitted, waitCount, semaphore, frameT, computeT,
                 image, binary, engine, acquireFailures>>

(* WaitIdle of both queues, then everything is destroyed.                  *)
GraphicsIdle ==
  /\ Goto("graphicsIdle", "computeIdle")
  /\ Idle(Graphics)
  /\ UNCHANGED <<queueVars, frame, frameT, computeT, image, semIndex, binary,
                 engine, iterations, acquireFailures>>

ComputeIdle ==
  /\ Goto("computeIdle", "destroyed")
  /\ Idle(Compute)
  /\ UNCHANGED <<queueVars, frame, frameT, computeT, image, semIndex, binary,
                 engine, iterations, acquireFailures>>

Application ==
  \/ StartIteration \/ CloseWindow \/ Resize \/ WaitForSlot
  \/ AcquireNextImage \/ AcquireNextImageFails \/ WriteUniform \/ RecordLists
  \/ SubmitCompute \/ SubmitGraphics \/ Present \/ GraphicsIdle \/ ComputeIdle

-----------------------------------------------------------------------------
(* The device: the head of a VkQueue also waits for its binary semaphores, *)
(* consumes them and signals its own.                                      *)
SemsSignaled(k) == \A s \in Head(work[k]).waitSem : binary[s] = "signaled"

BinaryAfter(b) ==
  [s \in Sems |-> IF s \in b.waitSem THEN "unsignaled"
                  ELSE IF s \in b.signalSem THEN "signaled" ELSE binary[s]]

FinishBatch(k) ==
  /\ Finish(k)
  /\ ~ IsPresent(Head(work[k]))
  /\ SemsSignaled(k)
  /\ binary' = BinaryAfter(Head(work[k]))
  /\ UNCHANGED <<appVars, engine>>

FinishPresent(k) ==
  /\ Ready(k)
  /\ IsPresent(Head(work[k]))
  /\ SemsSignaled(k)
  /\ binary' = BinaryAfter(Head(work[k]))
  /\ engine' = [engine EXCEPT ![Head(work[k]).list[2]] = Shown]
  /\ work' = [work EXCEPT ![k] = Tail(@)]
  /\ UNCHANGED <<appVars, vkQueue, submitted, waitCount, semaphore>>

(* The presentation engine: it hands over an acquired image once it has    *)
(* stopped reading it, and lets go of a shown one when it has another.     *)
HandOver(i) ==
  /\ engine[i] \in AvailableSems
  /\ engine' = [engine EXCEPT ![i] = OwnedByApp]
  /\ binary' = [binary EXCEPT ![engine[i]] = "signaled"]
  /\ UNCHANGED <<queueVars, appVars>>

LetGo(i) ==
  /\ engine[i] = Shown
  /\ \E j \in Images \ {i} : engine[j] = Shown
  /\ engine' = [engine EXCEPT ![i] = Free]
  /\ UNCHANGED <<queueVars, appVars, binary>>

Next == \/ Application
        \/ \E k \in VkQueues : FinishBatch(k) \/ FinishPresent(k)
        \/ \E i \in Images : HandOver(i) \/ LetGo(i)

Fairness == /\ WF_vars(Application)
            /\ \A k \in VkQueues : /\ WF_vars(FinishBatch(k))
                                   /\ WF_vars(FinishPresent(k))
            /\ \A i \in Images : WF_vars(HandOver(i)) /\ WF_vars(LetGo(i))

Spec == Init /\ [][Next]_vars /\ Fairness
-----------------------------------------------------------------------------
TypeOK ==
  /\ frame \in Frames /\ image \in Images
  /\ semIndex \in 0 .. SemaphoreCount - 1
  /\ frameT \in [Frames -> 0 .. submitted[Graphics]]
  /\ computeT \in 0 .. submitted[Compute]
  /\ binary \in [Sems -> {"unsignaled", "pending", "signaled"}]
  /\ engine \in [Images -> {Free, OwnedByApp, Shown, Gone} \cup AvailableSems]
  /\ \A i \in Images :
       engine[i] \in AvailableSems => binary[engine[i]] = "pending"

(* The CPU writes the uniform buffer of a slot only while no submission    *)
(* that reads it is in flight ("Uniform buffer one per frame, so that app  *)
(* dosen't stomp on the GPU's copy").                                      *)
UniformNotInUse == pc = "write" => ~ InFlight(GraphicsList(frame))

(* Both command lists of a slot are idle when they are opened again.  The  *)
(* application only ever waits for the graphics queue: that the compute    *)
(* list is done follows from the dependency of the graphics submission.    *)
ListsNotInFlight ==
  pc = "record" => /\ ~ InFlight(GraphicsList(frame))
                   /\ ~ InFlight(ComputeList(frame))

(* vkAcquireNextImageKHR gets a semaphore with no operation pending and    *)
(* not signaled: the one that SemaphoreCount frames ago was waited on has  *)
(* been consumed, because the slot's Timeline covers that wait.            *)
AcquireSemaphoreUnused ==
  pc = "acquire" => /\ binary[Available(semIndex)] = "unsignaled"
                    /\ \A b \in Pending : Available(semIndex) \notin b.waitSem

(* The render-complete semaphore a submission is going to signal is not    *)
(* signaled and has no operation pending: the present that waits for it    *)
(* has been executed, or the image could not have been acquired again.     *)
RenderSemaphoreUnused ==
  pc = "submitGraphics" /\ acquireFailures = 0 =>
    /\ binary[Rendered(image)] = "unsignaled"
    /\ \A b \in Pending : Rendered(image) \notin b.waitSem \cup b.signalSem

(* No image is rendered while the presentation engine still reads it: when *)
(* a graphics batch finishes, the image it presents belongs to the         *)
(* application.                                                            *)
RendersOwnedImage ==
  [][\A k \in VkQueues :
       Len(work'[k]) < Len(work[k]) =>
         \A i \in Images :
           Rendered(i) \in Head(work[k]).signalSem => engine[i] = OwnedByApp]_vars

(* Nothing is destroyed under the device's feet ("Wait for all GPU work to *)
(* finish before destroying anything").  A present may be pending still:   *)
(* what it uses belongs to the swapchain, which Shutdown destroys after a  *)
(* vkDeviceWaitIdle.                                                       *)
DestroyedWhenIdle == pc = "destroyed" => \A b \in Pending : IsPresent(b)

(* As long as every image is acquired the loop never hangs: each iteration *)
(* comes to its end, and closing the window ends the program.              *)
LoopAdvances ==
  (pc \notin {"top", "destroyed"}) ~>
    (pc \in {"top", "destroyed"} \/ acquireFailures > 0)

(* "Wait for this frame slot to finish its previous GPU submission": the   *)
(* wait at the head of an iteration comes to its end.                      *)
SlotFinishes == (pc = "wait") ~> (pc = "acquire")
=============================================================================
