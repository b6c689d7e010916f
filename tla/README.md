# RenderX in TLA+

RenderX is a rendering hardware interface: a C++ API over explicit GPU
backends, of which the Vulkan one works (`README.md:7` of the repository calls
the OpenGL one non-functional). This directory holds TLA+ models of its core
logic, the TLC runs that check them and proofs checked by TLAPS.

Paths below are relative to the repository root; line numbers belong to the
commit the models were written against. `PROJECT.json` maps every definition
to its lines.

## The system

| Part | State | Operations | Talks to |
|---|---|---|---|
| Resource pools (`src/Vulkan/VK_Common.h:495`) | three vectors: resources, 32-bit generations, a LIFO list of free slots | allocate, free, get, IsAlive, ForEach, clear | every kind of resource has one global pool |
| Buffers (`VK_Buffer.cpp`) | `g_BufferPool`, the VkBuffers, a cache of views | create, destroy, views, map | the pools, the load-time uploader (initial data) |
| Textures, views, samplers (`VK_Texture.cpp`) | a pool of each | create, destroy | the pools, the uploaders |
| Command queues (`VK_Queue.cpp`) | `m_Submitted`, one timeline semaphore, arrays of four waits and signals | two `Submit`s, Wait, WaitIdle, Poll, Completed, create and destroy an allocator | the driver; other queues through dependencies |
| Pipelines and layouts (`VK_Pipeline.cpp`) | a pool of each | create, destroy a layout with a failed pipeline | command lists cache them |
| Command lists (`VK_CommandList.cpp`) | a VkCommandBuffer, what is cached of the bound pipeline's layout | open, close, bind, push constants, record, barriers | the queues, the resources |
| Swapchain (`VK_Swapchain.cpp`) | images with a texture, a depth texture and a view of each, an acquire semaphore per frame in flight, a render-complete semaphore per image, an index into each | acquire, present, resize | the graphics queue, the presentation engine, the pools of textures and views |
| Staging allocator (`VK_Staging.cpp:12`) | `m_AllChunks`, the current chunk, an in-flight and a free list | allocate, submit, retire | both uploaders, each with a mutex of its own |
| Uploaders (`VK_Staging.cpp:172`) | a command allocator and fence, or the pending uploads | upload, batch, flush, retire | the staging allocator, the transfer queue |
| Load-time uploader (`VK_Staging.cpp:565`) | an array of bytes, queued uploads that name raw VkBuffers and VkImages | queue, flush | created buffers and textures |
| Descriptors (`VK_Resource_Bindings.cpp`) | heaps, pools with a write pointer or free slots, sets | create, reset, allocate, free, write | command lists that bind them |
| Context (`VK_Common.cpp`, `VK_RenderX.cpp`) | instance, device, allocator, uploaders, queues | init, shutdown | owns everything above |
| Validation layer (`RX_Validation.cpp`) | a mutex, records of resources and lists | register, validate, report | meant to be called by the backends; nothing in `src/` calls its macros |
| Application (`Test/HelloCube`) | three frame slots: lists, a uniform buffer, a Timeline | the frame loop | queues, swapchain, descriptors |

Three actors run at the same time: the application's threads, the device with
its queues, and the presentation engine. They meet in semaphores; the host
learns of the device only through the timeline counters and fences. What makes
the code hard is therefore *reuse*: a slot of a pool, a command list, a uniform
buffer, a binary semaphore, a staging chunk and a descriptor slot are all used
again, and each has its own argument why nobody needs the old contents any
more. Most properties below state one of these arguments.

What makes each part correct:

* **pools**: a slot has one owner; a handle names its resource until a copy of
  it is destroyed, and nothing afterwards;
* **buffers, textures, views, samplers**: no object of the driver is destroyed
  twice, behind its owner's back or not at all, through copied handles, failing
  creations, resizes of the swapchain and a shutdown; a view is a view of what
  it was asked for;
* **load-time uploads**: initial data arrives where it belongs, and nowhere
  else;
* **queues**: what `Wait`, `Poll`, `WaitIdle` and `Completed` say is true;
  dependencies order submissions; no call hangs;
* **command lists**: what is cached of a pipeline is what that pipeline was
  made with;
* **frame loop and swapchain**: nothing in use by the device is written,
  recorded, signalled again or destroyed; the loop never hangs;
* **staging**: a chunk has one user at a time, and an upload's range is its own
  and lies inside the buffer;
* **descriptors**: live sets do not share storage, no storage is lost, and a
  set holds what was written to it;
* **validation layer**: it answers what the rules say and never blocks.

`PROJECT.json` lists under `hazards` where in the code each of these can go
wrong.

## The modules

```
HandleTable <--implements-- BufferHandles -----> Pool <---- Lemmas
                                 ^                ^
                                 |   (all below but LoadUploader)

BufferResources --> BufferHandles, LoadUploader    <-- MCBufferResources
                                                       BufferResources_proofs
Textures --> ImageResources --> Pool; LoadUploader <-- MCTextures
                                                       Textures_proofs
CommandLists    --> Pool                           <-- MCCommandLists
                                                       Commands_proofs
DescriptorPools --> Pool                           <-- MCDescriptorPools
                                                       DescriptorPools_proofs

CommandQueue <-- QueueClient                       <-- MCQueueClient
     ^                                                 Commands_proofs
     ^---------- FrameLoop                         <-- MCFrameLoop
                                                       FrameLoop_proofs
Staging                                            <-- MCStaging
                                                       Staging_proofs
Validation                                         <-- MCValidation
                                                       Validation_proofs
```

`A --> B`: A extends B. `Commands_proofs` extends both of the modules it is
about, which share no name: those of QueueClient that any specification has are
called `ClientInit`, `ClientNext`, `ClientSpec` and `ClientTypeOK`. The
`_proofs` modules extend `Lemmas` too, but for `Validation_proofs`. An
operator named after a bug (*"Bug variant"* in its comment) is part of no
specification: it is what a definition would be with a plausible mistake in the
code, and replacing the definition by it must break a property.

**Pool** has no variables: `ResourcePool` as a record `[size, res, gen, free]`
and one operator per method. `free()` resets the resource and leaves the
generation alone; `allocate()` advances it, modulo `GenMod` (2^32 in the
code). A freed handle hence passes `IsAlive` until its slot is used again and
resolves to a null resource in between. Handles are encrypted with a key of
the pool and decrypted by every method; that is a bijection and left out.

**BufferHandles** adds the VkBuffers the driver has alive (`objects`) and the
client's handle variables, which are copied and destroyed in any order, before
and after a `Shutdown()` and a new `Init()`. `VKCreateBuffer` is the success of
the whole function, `VKCreateBufferFails` each of its early returns.
`wrapped` is a history variable: whether a slot was ever given out in
generation 0.

**HandleTable** is the promise such handles make, with no pool in it: a
created handle was never issued before; it names its object until some copy is
destroyed. `BufferHandles` implements it through the mapping `tableBar`,
`issuedBar` at the end of that module. The promise stands up to the first
shutdown and until a generation wraps (`promised`); where the code gives it up
the specification takes a `Lapse`, after which anything goes.

**LoadUploader** is the load-time uploader, like Pool a record and an operator
per method. A byte is modelled by its owner, the upload that wrote it last;
offsets have `AddrMod` values (2^32 in the code), so `pushData` cuts them off
as the code does.

**BufferResources** completes the actions of BufferHandles by what hangs on a
buffer: views, the cache that hands them out, and initial data, either written
at once through the mapping or queued under the raw VkBuffer. The client
destroys handles as it likes; if it destroys a buffer whose data is not flushed
yet, or queues more than an offset can address, the history variable `misused`
says so and `InitialDataArrives` is excused.

**ImageResources** has what textures, views and the swapchain do to the two
pools they share, as operators on a record of the pools and of what the driver
has. A call that the driver, the allocator or an assertion rejects is kept in
`faults`. **Textures** is a client of these: it creates and destroys, copies
handles, takes those of the swapchain, resizes, shuts the library down and
starts it again. The functions for textures test less than `VKDestroyBuffer`,
so the client may break a rule; that step is modelled, it sets `misused`, and
it is the last one, for what follows is undefined in the driver.

**CommandLists** is the part of a command list that has state of its own: the
copy `setPipeline` makes of the pipeline's layout and its push constant ranges,
from which `pushConstants` works. `open` leaves the copy of the last recording
in place. Layouts come and go while lists hold copies: a graphics pipeline that
cannot be created destroys the layout it was given. Offsets and sizes of a push
are bytes, as the code and the samples have them; the parameters of the API are
named in 32-bit words (`RX_Common.h:2825`).

**CommandQueue** is `VulkanCommandQueue` over the driver's queues. The n-th
submission of a CommandQueue signals n. `work[k]` is what VkQueue k has not
finished, in submission order; its head finishes once its waits are satisfied.
Which CommandQueues share a VkQueue is chosen in `Init`, since
`VulkanDevice` takes dedicated families only where the device has them. One
VkQueue finishing strictly in order is the strongest order the driver may keep
within a queue; between queues every interleaving is possible. The module has
steps of the queues only, and the two modules that extend it supply a program.

**QueueClient** is any program that obeys the API from one thread: it submits
a list it believes to be done (`reusable`), with dependencies on Timelines it
was given, and learns through the four query functions. Blocking calls are two
steps, the call and its return, so the device runs in between. A submission
may be given more dependencies than `m_WaitInfos` has elements: the library
writes past the array (`SubmitListOverruns`), and the model of the program ends
there (`Undefined`) while the device goes on with what it was given.

**FrameLoop** is `main` of HelloCube, step by step: `pc` names the statement of
the loop, the other application variables are its locals and the swapchain's
members. The device consumes and signals binary semaphores at the end of a
batch. The presentation engine hands over an acquired image some time later,
by signalling the acquire semaphore, and keeps the image shown last until it
has another. A resize is at the head of an iteration, where the code tests the
window's size, and waits for the device; the new swapchain may have fewer
images, while the semaphores stay those of the first one.

**Staging** is the allocator with both uploaders on threads of their own. Each
action is one call made under the allocator's mutex, so `allocate`, `submit`
and `retire` of the two uploaders interleave. `current` is an index into
`allChunks` and the lists hold copies, as in the code, which is what the
second finding is about. The batch functions of the immediate uploader are
included. The deferred uploader records no copy (`VK_Staging.cpp:523-529` is a
TODO); `executing` is the time its submission takes.

**DescriptorPools** has both paths of the code. On DESCRIPTOR_BUFFER a pool
owns a region of a heap and places sets with a write pointer (LINEAR), from a
list of free slots (POOL), or not at all (MANUAL); on DESCRIPTOR_SETS a set is
a VkDescriptorSet, which the driver may hand out again once it is freed. Either
way the set is an entry of `g_SetPool`, a Pool. `VKWriteSet` and `VKWriteSets`
share `Apply`, which gathers the writes a function takes and lets the driver do
them in order, each through the info its index points to (`InfoIndex`, the
code's `bufIdx` and `imgIdx`). Views may have been destroyed since the client
got their handles. What `get()` then makes of a handle (`Found`) depends on the
slot: if it was used again, nothing, and the write is passed over or asserted
against; if not, the entry that `free()` reset, and a `VK_NULL_HANDLE` is
written. `VKWriteSet` stops after `WriteCap` writes (32 in the code),
`VKWriteSets` passes over samplers. What the client named last is kept in
`meant`; a binding whose last write was dropped is in `skipped`. A batch of
sets in a heap is as many calls of `VKAllocateSet`, and writes to a set in a
heap do nothing.

**Validation** has the tables of the layer and, beside them, the truth: what
the program has created, mapped and recorded. A thread enters a function when
its category is on; the body, under the mutex, is a list of checks in the order
of the code, each with the category it is reported in and whether the function
returns on it (`Check`, `Reports`, `Stops`), and the update of the tables.
`Obey` is a call the rules allow, `Err` one they do not. The rules (`Follows`)
are written down apart from the layer's tests: a call comes in a state that
allows it (`InOrder`), and its arguments are right (`RightArguments`). The
counts of a draw and the offsets and sizes of a write or a copy are given as
they are and are added up in the width the code has (`Values32`, `Values64`);
of a description, a pass or its attachments a call says whether it has one of
the flaws the function lists. Mistakes that no test of the layer sees are
`Overlooked`. The program is followed up to its first mistake and to the end of
the calls then under way. A report under the mutex ends in `SelfLock`: taking a
`std::mutex` twice is undefined; of the compilers the repository supports
(`README.md:81`), some come with a library in which it waits and one with a
library in which it throws, so either may happen. The layer is initialised and
its configuration stays as it is. An object is in its table or not: the
`DESTROYED` state the handle checks test (`RX_Validation.cpp:203`) is never
set.

## The runs

A run takes two to three minutes at most, with two workers on an ordinary
machine.

| Run | Instance | States | Shows |
|---|---|---|---|
| BufferResources | 3 buffer variables, 2 VkBuffers, 4 generations that wrap, 2 sessions; 2 view variables and a range; 2 queued uploads, 6 addresses | 197 thousand | the implementation of HandleTable, views, initial data |
| Textures | 2 texture variables, a view and 2 sampler variables, up to 6 images, a swapchain of 1 or 2 images with 3 outcomes of its creation, 2 sessions | 369 thousand | pools, driver and swapchain agree; data arrives |
| CommandLists | a list, 2 layout variables, 2 sequences of ranges, 3 pushes, 3 layouts, 2 pipelines | 697 thousand | cached layouts, and stages of a push |
| QueueClient | 2 queues on 1 or 2 VkQueues, 2 lists, 2 submissions each, up to 3 dependencies and an array of 2, one failure | 501 thousand | the promises of a queue, and that calls return |
| FrameLoop | 3 frame slots, 3 acquire semaphores, 2 to 4 images, 5 iterations, one failed acquisition | 712 thousand | safe reuse in the loop, and its progress |
| Staging | sizes below, at and above what fits a chunk, 3 chunks, 4 uploads | 1.07 million | chunks and ranges are not shared |
| DescriptorPools | 3 pools in one heap, or a MANUAL one beside a LINEAR one, or 2 VkDescriptorPools; 2 set variables, 2 VkDescriptorSets, 3 entries; bindings of 3 kinds, up to 3 writes of which 2 are taken, batches of 2 | 126 thousand | storage is neither shared nor lost, and written to as meant |
| Validation | 2 threads and programs, a list, 2 buffers, a texture, a view, a pipeline; integers of 2 bits, buffers of 2 bytes | 1.96 million | no false report but one, no mistake missed but two |
| FrameLoopAcquire | as FrameLoop, 4 iterations | 354 thousand | finding 1 |
| StagingBounds | as Staging | | finding 2 |
| DescriptorReset | as DescriptorPools | | finding 3 |
| ValidationReports | 2 threads that create, map and destroy buffers | | finding 4 |

Why the bounds suffice. *BufferResources*: three variables hold a handle, its
copy and the handle that reuses its slot at once, the smallest constellation in
which a stale handle can do harm; a generation of 4 values wraps within the
run. A program either copies handles, or uses views, or queues data (`Programs`
in the MC module), since a run of all three at once adds products of states and
no interaction: the cache and the uploader are not aware of each other, and the
proofs below cover the combination. Two view variables ask for one description
or two, with a buffer destroyed and its slot used again in between; an
alignment of 2 and 6 addresses give uploads padding and an overflow.
*Textures*: the swapchain has an image whose depth texture or views fail and
one that succeeds, and after a resize its slots and image names go to the
client and back; names of driver objects are reused as soon as they are free,
which is the worst case for a stale reference. *CommandLists*: two layouts, one
of which is lost while the list still has it, and a third in its slot; two
ranges that overlap, and pushes to the bytes of one, of both and of neither,
each touching the next. Lists do not influence one another, and the proofs are
for any number. *QueueClient*: two submissions on each of two queues allow a
dependency in each direction, a chain, and a list used twice; `WaitSlots` is 2
instead of the code's 4, so that two dependencies fit and a third overruns the
array. *FrameLoop*: five iterations use each slot, each acquire semaphore and,
with two to four images, some image again, all the while an older frame is in
flight. *Staging*: offsets are counted in units of half an alignment, a chunk
has four units and sizes are 1, 3 and 5, so that an allocation is padded, does
not fit the rest of a chunk, and needs a chunk of its own; four uploads let a
chunk be filled, retired, recycled and filled again while the other uploader's
ranges are live. *DescriptorPools*: strides differ and the LINEAR pool lies
between two others, so that an offset that is off by a slot or relative to the
wrong base meets a neighbour; the two VkDescriptorPools compete for the same
two VkDescriptorSets, so a set given back by one is soon the other's. Writes
are to the sets of two programs with one VkDescriptorPool each: in one, calls
write up to two views, to one set or to both; in the other, up to three, one
more than `WriteCap`. Bindings are of a texture, a buffer and a sampler, the
first two taking handles of what is gone. Names of VkDescriptorSets and of
variables are symmetric. *Validation*: in one program a thread records a list
while the other creates and destroys what it binds; in the other both work with
buffers, textures and descriptions (`MCPrograms`); a list goes through all of
its states any number of times, and the only bound on a behaviour is the first
mistake. Offsets and sizes are 1 or 2: the sum is inside
a buffer of 2, past its end, or 4 and hence 0 in 2 bits. The
categories are all of them, or all but `MEMORY` or `COMMAND_LIST`.

`CHECK_DEADLOCK FALSE` stands where the bounds let a behaviour end, no
submission, iteration, session, layout or upload being left, and in `Textures`
where the client has broken a rule. In `DescriptorPools` a pool can always be
destroyed or created, and deadlock is checked.

### Fairness

`QueueClient`: the device is weakly fair on each VkQueue, since a driver
executes what was submitted once it can; and a blocked call whose condition
holds returns. Nothing obliges the program to make calls. `Wait` may time out
at any moment, so its return is no liveness assumption on the device.

`FrameLoop`: the device as above, weak fairness of the application thread as a
whole (it runs as long as it is not blocked), and of the presentation engine:
`vkAcquireNextImageKHR` blocks without a timeout in the code and Vulkan
guarantees progress with the number of images the swapchain requests.

`Validation`: a thread inside a function of the layer runs on while it can.

The liveness properties are stated with their excuse: `CallsReturn` up to a
failed submission, `LoopAdvances` up to a failed acquisition. What happens
after these is a finding or a listed hazard.

### Properties worth knowing

* `HandleTableSpec`: a handle names what it was created for and nothing after
  a copy of it was destroyed. It rests on the generation alone, so it lapses
  with a shutdown, after which the pool issues the same handles again, and when
  a generation wraps; `FreeListIsNullSlots` and `ObjectsOwnedOnce` go on.
* `ViewNamesItsBuffer`: nothing invalidates the view cache. It holds all the
  same: the key of the cache is the buffer's *handle* with its generation, so a
  new buffer in the old slot misses the cache, and a view freed twice or served
  from a stale entry resolves to nothing.
* `DriverCallsSound`: the swapchain keeps its images in the pools of the
  client's textures. The order in `freeAllVulkanResources`, swapchain first,
  and the vectors `destroySwapchain` clears are what keeps the allocator from
  being handed an image of the swapchain's.
* `SwapchainConsistent`: an iteration of `createSwapchain` whose depth texture
  fails goes on; what is left is an invalid handle at that index, never the
  image of another.
* `OldSamplersDead`: samplers are freed one by one at a shutdown, their pool
  is not cleared. A sampler handle therefore stays dead for ever, a
  stronger promise than buffers make, at the price of slots that are lost.
* `InitialDataArrives`, `TexturesReady`: uploads share one array, with padding
  between them, and one submission; each keeps its own bytes.
* `LayoutFollowsPipeline`, `PushStagesExact`: a list works from copies. They
  are right from `setPipeline` on, whatever was bound, pushed and lost before.
* `SetsOwnStorage`, `NothingLost`: the slot of a set is computed back from its
  byte offset when it is freed, across pools with different strides and bases;
  and an entry of `g_SetPool` outlives its set exactly if its pool was reset or
  destroyed.
* `DescriptorsAsWritten`: relates what the client wrote last to what the driver
  holds, over calls with many writes, freed sets and VkDescriptorSets handed out
  again. It is exact about what the code drops (`skipped`) and about handles
  whose entry was reset, which give the binding a `VK_NULL_HANDLE`.
* `ListsNotInFlight`: the loop only waits for the *graphics* Timeline of a
  slot, and records the *compute* list too. That is sound because each graphics
  submission depends on the compute submission of its iteration; without the
  dependency TLC finds the list still in flight.
* `AcquireSemaphoreUnused`: semaphores rotate over `maxFramesInFlight`, which
  must be no less than `FRAME_COUNT`, an assumption named in the module.
* `RenderSemaphoreUnused`: one render-complete semaphore per image, not per
  frame; indexed by frame, one is signalled again while its present is pending.
* `LiveRangesDisjoint`: holds although the immediate uploader retires with
  `UINT64_MAX` and recycles chunks the deferred one has not flushed. It holds
  *because of* the fault of the second finding: the recycled chunk goes on at
  its old offset. Resetting the offset, as a comment has it, breaks it.
* `HostKnowledgeSound`: `Poll` compares strictly, so it answers false for the
  value reached last; the error is on the safe side.
* `NoFalseReports`: a function checks handles under the mutex, releases it and
  takes it again, with the other thread in between; that does no harm to a
  program that does not race on its objects. `UnregisterTextureView` does not
  tell the parent, so a texture destroyed after its views *is* reported
  (`RX_Validation.cpp:341`); the property names this case, `ForgottenViews`.
  What changes in the gap are other objects in the same tables: calls on one
  object are kept apart by the program (`Synchronised`).
* `MistakesNoticed`: the rules are not read off the layer's tests, so a test
  that is missing or too weak shows; those that are (below) are named in
  `Overlooked`, and any other is a violation.

### What the code does and the models show

The models have these as they are. A property that one of them touches names
it, or excuses the client it needs.

* The assertion of `addWait2` is on `m_SignalCount` (`VK_Queue.cpp:142`) where
  the index is `m_WaitCount`, and `waitDependencies` is a vector of any length
  (`RX_Common.h:2883`): with five dependencies, or four and the swapchain's
  wait, a submission writes past `m_WaitInfos` (`SubmitListOverruns`).
* The handle of a texture view that was just destroyed passes the assertion
  "invalid texture view handle" of `VKWriteSet` and the test of `VKWriteSets`
  (`VK_Resource_Bindings.cpp:511`, `:652`), and that of a sampler the assertion
  of the former: `free()` leaves the generation alone, so `get()` returns the
  reset entry until the slot is used again (`VK_Common.h:522-552`), and a
  `VK_NULL_HANDLE` is written over the binding (`NullHandles`).
* `VKWriteSet` drops the writes after the 32nd without a word
  (`VK_Resource_Bindings.cpp:479`).
* `ValidateDrawIndexed` never looks at `instanceCount`
  (`RX_Validation.cpp:734-770`), where `ValidateDrawCall` reports a draw of no
  instances; `ValidateBufferWrite` adds offset and size in 32 bits (`:1035`) and
  `ValidateBufferCopy` in 64 (`:1002`), so a range past the end whose sum wraps
  to the start of the buffer passes (`Overlooked`).

* A view that was destroyed cannot be created again: the cache answers with the
  dead handle as long as the session lasts (`VK_Buffer.cpp:149`).
* `VKDestroyTexture`, `VKDestroyTextureView` and `VKDestroySampler` free a slot
  twice for a second copy of a handle; `VKDestroyBuffer` tests for it. The
  client of `Textures` that does this is `misused`.
* The pools of sets, heaps and samplers are not in the list a shutdown clears;
  their slots are lost (`VK_Common.cpp:243`).
* A reset or destroyed descriptor pool leaves the entries of its sets in
  `g_SetPool` for ever, and their handles pass the assertion of `VKWriteSet`.
* `VKWriteSets` passes over samplers without a word, `VKWriteSet` writes them
  (`VK_Resource_Bindings.cpp:668`, `:530`). Combined image samplers are written
  by neither.
* A MANUAL pool places every set at offset 0 of the heap; the `AllocateSetAt`
  its comment sends the user to does not exist
  (`VK_Resource_Bindings.cpp:283`).
* A VkDescriptorPool is made for `capacity` descriptors of each type, whatever
  the layout (`VK_Common.h:182`), so a layout with two of a type may exhaust it
  after half as many sets; the allocation then fails an assertion.
* A failed graphics pipeline destroys its layout, which other pipelines may
  have been made with (`VK_Pipeline.cpp:266`).
* `pushConstants` asserts that a layout was cached, which a recording before
  this one may have done; and lets a push pass that covers a range in part.
* The layer's rule is that a submitted list is reset before it is begun again
  (`RX_Validation.cpp:613`). HelloCube does not reset its lists, and would be
  reported if its calls went through the layer.

### Findings

1. A failed `vkAcquireNextImageKHR` (an out-of-date swapchain, say) is logged
   and treated as success (`VK_Swapchain.cpp:96`). Nothing signals the acquire
   semaphore, the submission that waits for it never ends, and when its slot
   comes round the loop waits for ever.
2. `retire()` resets the *copy* of a chunk on the in-flight list;
   `getOrCreateChunk` (`VK_Staging.cpp:78`) returns the element of
   `m_AllChunks` with the old offset. A large enough free chunk is then handed
   out past its end, after an error in the log.
3. `VKResetDescriptorPool` sets the write pointer to the offset of the pool in
   the heap (`VK_Resource_Bindings.cpp:221`), while it is relative to that
   offset everywhere else. A pool that is not the first of its heap loses room.
4. `ValidationLayer::Report` locks the mutex its callers hold
   (`RX_Validation.cpp:105`): every report but those of the description checks
   hangs or throws. Nothing in the repository calls the layer yet.

## The proofs

Eight modules hold theorems; each is true of every value of the constants that
meets the named assumptions of its modules.

`Lemmas` holds what the others share, in three parts. About pools, whatever is
in them: what an allocation on an empty and on a non-empty free list and what a
free do to the occupied slots, the free list and the visited slots
(`AllocatedPush`, `AllocatedPop`, `FreedOK`). About the work of VkQueues,
whatever the batches are: appending a batch and finishing a head keep
`Ordered`, by which the values pending on a VkQueue lie above the semaphore of
their CommandQueue, up to `m_Submitted`, and increase along the queue
(`OrderedAppend`, `OrderedRemove`). About numbers: a set of them has a least
element (`Least`), and a set that has 0 and with each number the next has them
all (`AllNumbers`), which is how loops are reasoned about here without
induction over data. The module extends `Pool`, so the proofs of the queues and
of the staging allocator carry the constants of a pool, which nothing in their
models mentions.

`BufferResources_proofs` begins with the pool of buffers, for all sets of
variables and VkBuffers, every width of a generation and any number of
sessions:

* `TypeCorrect == Spec => []TypeOK`
* `FreeListCorrect == Spec => []FreeListIsNullSlots`
* `OwnershipCorrect == Spec => []ObjectsOwnedOnce`
* `Implementation == Spec => HandleTableSpec`

The inductive invariant `IInv` of the first three is their conjunction. None is
inductive alone. That a destroy pushes a slot that is not on the free list yet
follows from the null test with `FreeListIsNullSlots`; that a create takes a
VkBuffer no other slot holds needs `ObjectsOwnedOnce`; that a shutdown leaks
nothing needs the last conjunct of `TypeOK`: without a wrapped generation
`ForEach` visits every slot. The implementation is the usual pair of facts: the
initial state maps to an initial state, and under `IInv` each action maps to
the action of the same name, a stutter (a destroy through a dead handle) or a
`Lapse`. Its core is that the handle a create returns is not in `issuedBar`:
its generation is one more than any the slot had, as long as that is below
`GenMod`.

The rest of `BufferResources_proofs`, for all views, ranges, sizes, alignments
and widths of an offset:

* `BuffersUnchanged == AllSpec => Spec`: a step of the composition is a step of
  BufferHandles or leaves its variables alone, so the four theorems above hold
  of the composition; `TableImplemented` is the last of them.
* `ViewsCorrect`, `CacheCorrect`: within a session the cache only grows and is
  one to one, a slot of the view pool is occupied only by a description whose
  cached handle is that slot's, and so whatever resolves is what was asked for.
* `DataCorrect`: as `AlignUp` rounds up, an upload starts where the bytes end,
  so each queued upload owns its bytes, until an offset is cut off, which
  `misused` records; and a client that is not `misused` has one upload per
  VkBuffer in the queue.

`Commands_proofs`, first, for all lists, layouts and ranges: `TypeCorrect`,
`LayoutCorrect`, `PushCorrect`. The invariant adds to the type that occupied
slots of the pool hold layouts that are not destroyed and each its own, that
the handle of a pipeline resolves to the layout it was made with until that is
destroyed, and that what a list caches came from the pipeline it has bound.
From this, `PushStagesExact` is the arithmetic of half-open ranges.

The rest of it, for any number of queues, VkQueues, lists, submissions
and dependencies (`ClientAssumption`: there are finitely many queues, which
makes the set of dependencies of a submission finite; `MaxDeps` and `WaitSlots`
are any two numbers):

* `ClientTypeCorrect == ClientSpec => []ClientTypeOK`
* `KnowledgeCorrect == ClientSpec => []HostKnowledgeSound`
* `ListsOutlive == ClientSpec => []NoDestroyedListInFlight`
* `DependenciesCorrect == ClientSpec => []DependenciesHonoured`

`HostKnowledgeSound` speaks of lists, and is not inductive: whether a query may
call a list done depends on the Timeline of the submission *in flight*. The
invariant says that a list in flight was submitted last with exactly that
batch, and is not believed done (`ListsKnown`). With `WorkOrdered`, which is
`Ordered` of the variables, its
Timeline is above the semaphore, so no query the code makes can have answered
yes. For the dependencies, `WaitsKept`: a Timeline a submission was given is a
wait of its batch as long as the batch is pending.

`FrameLoop_proofs`, for any number of frame slots, acquire semaphores, images,
iterations and failed acquisitions, on one VkQueue or two
(`FrameLoopAssumption`; of it, `FrameCount <= SemaphoreCount` is what
`AcquireCorrect` rests on):

* `TypeCorrect`, `UniformCorrect`, `ListsCorrect`, `AcquireCorrect`,
  `RenderCorrect` and `DestroyCorrect`, each `Spec => []` the invariant of the
  run
* `OwnedCorrect == Spec => RendersOwnedImage`, an action property

The invariant counts iterations. The graphics batch of value v was submitted in
iteration v - 1 (`Rotation`), so its list, its uniform buffer and its acquire
semaphore are those `Age` rotations back; `SlotTimelines` and `Lead` say that
the wait at the head of an iteration keeps every age below `FrameCount`, so
nothing of the slot is in flight. A compute batch has a graphics batch of its
slot behind it that waits for it (`ComputeCovered`), which is why the loop need
not wait for the compute queue. For the images, the graphics queue is followed
up to the first batch whose acquire semaphore nobody is going to signal
(`Live`): up to there each batch and each present has an image handed over to
the program, one present for each (`LiveBatches`, `AppHolds`); behind it nothing
is ever executed. That is why `OwnedCorrect` holds even after a failed
acquisition, while `RenderSemaphoreUnused` is stated up to the first, and why
finding 1 ends in a hang and not in a torn image.

`Staging_proofs`, for any sizes, alignment, number of chunks and of uploads
(`StagingAssumption`):

* `TypeCorrect == Spec => []TypeOK`
* `PlacedOnce == Spec => []ChunkPlacedOnce`
* `RangesDisjoint == Spec => []LiveRangesDisjoint`

A chunk leaves one place before it enters another (`Placed`), and every live
range lies below the offset of its chunk (`RangesBelow`). Since no step takes an
offset back, a new range lies above all of them. The proof hence uses the very
fault of finding 2. That `retire` cuts the in-flight list at one place is
derived from the least index it does not retire (`Least`, from the
well-foundedness of the natural numbers).

`Textures_proofs`, for any handle variables, images, views, samplers,
generations and sessions, every outcome of creating a swapchain of any length,
and every width of an offset (`TexturesAssumption`: the bounds are positive,
and an empty slot and the absence of data are told from what is there):

* `CallsCorrect`, `PoolsCorrect`, `SwapchainCorrect`, `DataCorrect`,
  `SamplersCorrect` and `TypeCorrect`, each `Spec => []` the invariant of the
  run

The inductive invariant has a part per concern. `ImageInv`: each image and view
is in one occupied slot (`Sound`); every handle of the swapchain names what its
index says, no two share a slot, and no slot with an image of the swapchain is
outside of the vectors (`Linked`); the names are within the bounds (`Small`)
and no generation has wrapped (`Young`), which the bound `MaxGen` sees to: what
a wrap does is a question of `BufferHandles`. The loops of `destroySwapchain`
and `createSwapchain` call the operations of the pools once per image, so their
proofs are about what one iteration leaves: an iteration of the first takes one
index out of those whose slots are still in place (`ChainOwns`), one of the
second adds an entry to the vectors (`LongerChain`). The loops are functions of
the number of iterations done, whose values are characterised for every number
by the least one where that would fail (`Least`), since induction over data is
not available. In the middle of `createSwapchain` the bounds on the names need
not hold; that the names are *low* (at most as many as there are objects), and
that there is room in the end, brings them back. `DataInv`: the queued uploads
own their bytes, as for buffers, and go to images of the allocator's that are
not destroyed. `SamplerInv`: a slot that a shutdown empties is not put on the
free list, so no later session can take it up and no old handle names what is
there; textures and buffers do put theirs on it, which is why `OldSamplersDead`
is about samplers alone. These parts hold up to the call that breaks a rule of
the API (`misused`); the types hold in that very step too, which is shown for
each such call (`MisuseSteps`).

`DescriptorPools_proofs`, for any pools, regions, capacities, strides, sets,
bindings, views, handles of what is gone, caps and batches
(`DescriptorAssumption`; of it, that the client lays out regions that do not
overlap is what keeps the sets of two pools apart):

* `TypeCorrect`, `StorageCorrect`, `NothingLostCorrect` and `WritesCorrect`,
  each `Spec => []` the invariant of the run

Here too the invariant has a part per concern. `EntryInv`: a live set has an
entry of `g_SetPool` to itself, made by the pool its variable says, and every
other occupied entry was left behind. `VkInv`: the driver's sets of a pool are
those of its live sets, one each. `LinearInv`: the sets of a linear heap lie
apart, all of them before the write pointer. It holds after a reset, which
sets the pointer to `heapBaseOffset` and not to 0 (finding 3), because no set
is left that could lie behind it; what is lost then is capacity, and never the
separation of sets. `SlotInv`: each set of a POOL heap lies in a slot, whose
number `VKFreeSet` gets back by dividing (`(k * stride) \div stride = k`), and
the list has the other slots once each. That `VKAllocateSets` gives each set of
a batch a handle of its own is a claim about its loop: after n iterations the
first n entries occupy slots that differ from each other and from all before
(`GrownBy`, `AllocateLoop`). `ContentInv` is `DescriptorsAsWritten` with the
types. What a call leaves in a binding is what the driver read for the gathered
write with the greatest index (`Newest`); it read that write's own info, since
no two gathered writes of a kind have the same `InfoIndex`; the write is the
last one the client made to the binding unless that one was dropped; and two
sets with one VkDescriptorSet are one set by `VkInv`.

`Validation_proofs`, for any threads, objects, lists, categories that are
on, programs, size of a buffer and widths of the integers
(`ValidationAssumption`: the kinds of objects do not overlap, what is configured
are categories, and the widths are not 0):

* `TypesHold == Spec => []TypeOK`
* `ReportsAreTrue == Spec => []NoFalseReports`
* `MistakesAreNoticed == Spec => []MistakesNoticed`

The layer must know what the program does, but hears of it only when a call
takes the mutex, by which time the program and other threads have gone on. The
invariant therefore says of each table that it agrees with the program about
every object that no call under way is about to register or unregister
(`Settled`, `Kept`; `MapsKept` and `ViewsKept` for what is mapped and for the
views of a texture), and of each list that either it is the list a call is at
work on and the layer has a state from which that call was allowed (`Before`),
or the layer's state matches the program's (`Match`) in everything whose
category is on. What the rules give a call when it starts stays true until it
returns (`CallFacts`), since no two threads are in calls of which one changes
what the other uses (`Apart`): this is where the lock that is released between
the handle check and the rest of a function does no harm. The tables are
claimed to be right up to the first mistake if objects are tracked whenever
handles are checked (`TablesKept`), and also after a mistake if every category
is on (`Watched`), since the call that makes it then reports instead of changing
a table. For that the mistake is followed through the function
(`MistakeCaught`): it is still to be found by the checks ahead, the handles
passed so far being alive. The checks of a function are a sequence of up to
seven; that none of them fails, or that one does and is reported, is shown for
each function from what its call may assume (`CallFacts`, `Rule`). Between the
rules and the tests stands `Seems`, the calls that the tests let pass: those the
rules allow, and the `Overlooked` ones (`SeemsRight`, which is where the sums
that wrap are dealt with).

Each inductive argument is about named conjuncts with a lemma per action; the
properties the runs state are the ones the theorems name in `PROJECT.json`, so
TLC and TLAPS speak of the same formulas. Each inductive invariant was checked
by TLC on the instance of the run before it was proved.

Model-checked only: liveness (`CallsReturn`, `LoopAdvances`, `SlotFinishes`,
`ReportsReturn`), which is out of the prover's reach. Every invariant and every
action property of the passing runs is proved, and so is the refinement of
`HandleTable`. The findings are shown by their runs: `RangesInBounds` and
`LinearCapacity` are false.

## Not modelled

* Draws, copies, dispatches, barriers and render passes: a command list
  translates them into calls of the driver and keeps nothing. Render passes,
  framebuffers and shaders are pools like the others. The state a texture is
  given when it is created (`VK_Texture.cpp:108`) is neither updated nor read
  by anything, and `generateMips` reserves levels that nobody fills.
* Set layouts, heaps as objects, the bindless table and binding; descriptor
  heaps are written with a placeholder.
* The format, extent and present mode of a swapchain, and a resize to more
  images than it had first, which indexes `m_WaitSemaphores` beyond its end.
* Failures of host memory, the loss of the device, and two application threads
  in the queues, of which the API says nothing.
* The key of the view cache is a 64-bit hash of a description in the code, and
  the description itself in the model: collisions are left out.
* The OpenGL backend (declared non-functional), the sample that loads models
  (a second client of the API with the loop of HelloCube), logging and files.
* Most lines of the tree are vendored: the memory allocator
  (`vk_mem_alloc.h`), spdlog with fmt, and image loading. They are modelled
  where the code calls them, as an allocator that gives out what is free.

## Plan

1. Pools, buffers and their promise; queues, frame loop, staging, descriptor
   pools, validation layer - done.
2. Views and their cache, load-time uploads, textures and the swapchain's
   images, samplers, the shutdown, command lists and layouts, both descriptor
   paths with writes, a resize to fewer images - done.
3. Proofs of the implementation of HandleTable, of views and uploads, of
   command lists, of the queues, the frame loop, the staging allocator, of
   textures, the swapchain and samplers, of descriptor pools, and of the
   validation layer - done.
4. Next, models: set layouts and heaps as objects; command allocators with
   Reset; configuration changes of the validation layer.
5. Then, their proofs; and `Validation` followed beyond the first mistake.
