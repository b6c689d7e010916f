------------------------------- MODULE Staging -------------------------------
(***************************************************************************)
(* VulkanStagingAllocator (src/Vulkan/VK_Staging.cpp) shared by its two    *)
(* users: the immediate uploader, which copies at once and waits, and the  *)
(* deferred uploader, which keeps its staging ranges until flush().  Each  *)
(* user has a thread and a mutex of its own, the allocator has a third.    *)
(*                                                                         *)
(* m_AllChunks owns the chunks.  m_CurrentChunk points into it, while the  *)
(* in-flight and the free list hold copies of its elements: a chunk is     *)
(* identified with its VkBuffer, the index in m_AllChunks.                 *)
(***************************************************************************)
EXTENDS Integers, Sequences, FiniteSets

CONSTANTS
  Sizes,          \* the sizes a client uploads
  ChunkSize,      \* m_ChunkSize: 64 MB in the code
  Alignment,      \* 256 in the code
  MaxChunks,      \* bound: chunks that can be created
  MaxUploads      \* bound: uploads of both uploaders together

ASSUME StagingAssumption ==
  /\ Sizes \subseteq Nat \ {0}
  /\ ChunkSize \in Nat \ {0} /\ Alignment \in Nat \ {0}
  /\ MaxChunks \in Nat /\ MaxUploads \in Nat

VARIABLES
  allChunks,      \* m_AllChunks: [size, offset] of each chunk
  current,        \* m_CurrentChunk: index in allChunks, 0 for nullptr
  inFlight,       \* m_InFlightChunks: [chunk, size, id]
  free,           \* m_FreeChunks: [chunk, size]
  immediate,      \* the step the immediate uploader is at
  immediateRange, \* the staging ranges it copies from
  pending,        \* ranges of the deferred uploads not flushed yet
  executing,      \* ranges the device reads for a flush in progress
  flushes,        \* Timeline of the latest flush
  uploads

allocator == <<allChunks, current, inFlight, free>>
vars == <<allChunks, current, inFlight, free, immediate, immediateRange,
          pending, executing, flushes, uploads>>

Init == /\ allChunks = <<>>
        /\ current = 0
        /\ inFlight = <<>>
        /\ free = <<>>
        /\ immediate = "idle"
        /\ immediateRange = {}
        /\ pending = {}
        /\ executing = {}
        /\ flushes = 0
        /\ uploads = 0

(* UINT64_MAX: above the Timeline of every flush.                          *)
Forever == MaxUploads + 1

-----------------------------------------------------------------------------
(* StagingChunk.                                                           *)
AlignUp(n) == ((n + Alignment - 1) \div Alignment) * Alignment

CanAllocate(c, size) == AlignUp(c.offset) + size <= c.size

(* The range an allocation hands out; it is handed out even when it does   *)
(* not fit, after an error message.                                        *)
RangeIn(c, chunk, size) ==
  [chunk |-> chunk, from |-> AlignUp(c.offset),
   to |-> AlignUp(c.offset) + size, limit |-> c.size]

Advanced(c, size) == [c EXCEPT !.offset = AlignUp(@) + size]

-----------------------------------------------------------------------------
(* allocate().  Its three outcomes: the current chunk has room, the free   *)
(* chunk returned last is big enough, or a new chunk is created.  A        *)
(* current chunk without room is dropped: it stays in m_AllChunks only.    *)

LastFree == free[Len(free)]

FromCurrent(size) == current # 0 /\ CanAllocate(allChunks[current], size)

FromFree(size) == free # <<>> /\ LastFree.size >= size

(* Bug variant: the offset is reset, as the comment at retire() has it.    *)
TakeFreeReset(size) ==
  /\ current' = LastFree.chunk
  /\ allChunks' = [allChunks EXCEPT ![current'] =
                     Advanced([@ EXCEPT !.offset = 0], size)]
  /\ free' = SubSeq(free, 1, Len(free) - 1)
  /\ UNCHANGED inFlight

(* getOrCreateChunk returns the element of m_AllChunks, whose offset is    *)
(* where it was: retire() has reset the copy on the in-flight list.        *)
TakeFree(size) ==
  /\ current' = LastFree.chunk
  /\ allChunks' = [allChunks EXCEPT ![current'] = Advanced(@, size)]
  /\ free' = SubSeq(free, 1, Len(free) - 1)
  /\ UNCHANGED inFlight

NewChunk(size) == [size   |-> IF size > ChunkSize THEN size ELSE ChunkSize,
                   offset |-> 0]

(* Bug variant: the new chunk is not listed in m_AllChunks.                *)
TakeNewUnlisted(size) ==
  /\ Len(allChunks) < MaxChunks
  /\ current' = Len(allChunks) + 1
  /\ UNCHANGED <<allChunks, inFlight, free>>

TakeNew(size) ==
  /\ Len(allChunks) < MaxChunks
  /\ current' = Len(allChunks) + 1
  /\ allChunks' = Append(allChunks, Advanced(NewChunk(size), size))
  /\ UNCHANGED <<inFlight, free>>

TakeCurrent(size) ==
  /\ allChunks' = [allChunks EXCEPT ![current] = Advanced(@, size)]
  /\ UNCHANGED <<current, inFlight, free>>

Allocate(size) == \/ FromCurrent(size) /\ TakeCurrent(size)
                  \/ ~ FromCurrent(size) /\ FromFree(size) /\ TakeFree(size)
                  \/ ~ FromCurrent(size) /\ ~ FromFree(size) /\ TakeNew(size)

(* The range it returns.                                                   *)
Granted(size) ==
  IF FromCurrent(size) THEN RangeIn(allChunks[current], current, size)
  ELSE IF FromFree(size)
  THEN RangeIn(allChunks[LastFree.chunk], LastFree.chunk, size)
  ELSE RangeIn(NewChunk(size), Len(allChunks) + 1, size)

(* createChunk fails: there is no current chunk any more.                  *)
AllocateFails(size) ==
  /\ ~ FromCurrent(size) /\ ~ FromFree(size)
  /\ current' = 0
  /\ UNCHANGED <<allChunks, inFlight, free>>

(* submit(id): the current chunk, if any, goes on the in-flight list.      *)
SubmitChunk(id) ==
  /\ current' = 0
  /\ inFlight' = IF current = 0 THEN inFlight
                 ELSE Append(inFlight, [chunk |-> current, id |-> id,
                                        size |-> allChunks[current].size])
  /\ UNCHANGED <<allChunks, free>>

(* retire(id): the chunks at the front of the list whose submission is     *)
(* complete move to the free list, in order.                               *)
Retirable(id) ==
  CHOOSE n \in 0 .. Len(inFlight) :
    /\ \A i \in 1 .. n : inFlight[i].id <= id
    /\ n < Len(inFlight) => inFlight[n + 1].id > id

(* Bug variant: the front of the in-flight list is not popped.             *)
RetireKeeping(id) ==
  /\ free' = free \o [i \in 1 .. Retirable(id) |->
                        [chunk |-> inFlight[i].chunk,
                         size  |-> inFlight[i].size]]
  /\ UNCHANGED <<allChunks, current, inFlight>>

Retire(id) ==
  /\ free' = free \o [i \in 1 .. Retirable(id) |->
                        [chunk |-> inFlight[i].chunk,
                         size  |-> inFlight[i].size]]
  /\ inFlight' = SubSeq(inFlight, Retirable(id) + 1, Len(inFlight))
  /\ UNCHANGED <<allChunks, current>>

-----------------------------------------------------------------------------
(* VulkanImmediateUploader::uploadBuffer: allocate, copy and wait for the  *)
(* fence, then submit(UINT64_MAX) and retire(UINT64_MAX).                  *)
ImmediateAllocates(size) ==
  /\ immediate = "idle" /\ uploads < MaxUploads
  /\ immediate' = "copying"
  /\ Allocate(size)
  /\ immediateRange' = {Granted(size)}
  /\ uploads' = uploads + 1
  /\ UNCHANGED <<pending, executing, flushes>>

ImmediateFails(size) ==
  /\ immediate \in {"idle", "batch"} /\ uploads < MaxUploads
  /\ AllocateFails(size)
  /\ UNCHANGED <<immediate, immediateRange, pending, executing, flushes,
                 uploads>>

(* A batch: beginBatch, any number of allocations, and endBatch, which     *)
(* submits the copies and then goes the way of a single upload.            *)
BeginBatch ==
  /\ immediate = "idle"
  /\ immediate' = "batch"
  /\ UNCHANGED <<allocator, immediateRange, pending, executing, flushes,
                 uploads>>

BatchUploads(size) ==
  /\ immediate = "batch" /\ uploads < MaxUploads
  /\ Allocate(size)
  /\ immediateRange' = immediateRange \cup {Granted(size)}
  /\ uploads' = uploads + 1
  /\ UNCHANGED <<immediate, pending, executing, flushes>>

EndBatch ==
  /\ immediate = "batch"
  /\ immediate' = "copying"
  /\ UNCHANGED <<allocator, immediateRange, pending, executing, flushes,
                 uploads>>

(* The fence is signaled.                                                  *)
ImmediateCopied ==
  /\ immediate = "copying"
  /\ immediate' = "submit"
  /\ immediateRange' = {}
  /\ UNCHANGED <<allocator, pending, executing, flushes, uploads>>

ImmediateSubmits ==
  /\ immediate = "submit"
  /\ immediate' = "retire"
  /\ SubmitChunk(Forever)
  /\ UNCHANGED <<immediateRange, pending, executing, flushes, uploads>>

ImmediateRetires ==
  /\ immediate = "retire"
  /\ immediate' = "idle"
  /\ Retire(Forever)
  /\ UNCHANGED <<immediateRange, pending, executing, flushes, uploads>>

(* VulkanDeferredUploader: uploadBuffer, flush with the WaitIdle that      *)
(* destroying its command allocator implies, and retire.                   *)
DeferredUploads(size) ==
  /\ executing = {} /\ uploads < MaxUploads
  /\ Allocate(size)
  /\ pending' = pending \cup {Granted(size)}
  /\ uploads' = uploads + 1
  /\ UNCHANGED <<immediate, immediateRange, executing, flushes>>

DeferredFails(size) ==
  /\ executing = {} /\ uploads < MaxUploads
  /\ AllocateFails(size)
  /\ UNCHANGED <<immediate, immediateRange, pending, executing, flushes,
                 uploads>>

FlushSubmits ==
  /\ executing = {} /\ pending # {}
  /\ flushes' = flushes + 1
  /\ SubmitChunk(flushes')
  /\ executing' = pending
  /\ pending' = {}
  /\ UNCHANGED <<immediate, immediateRange, uploads>>

FlushReturns ==
  /\ executing # {}
  /\ executing' = {}
  /\ UNCHANGED <<allocator, immediate, immediateRange, pending, flushes,
                 uploads>>

(* retire takes no lock of the uploader: the caller passes the Timeline of *)
(* any flush that has returned.                                            *)
DeferredRetires ==
  /\ \E id \in 0 .. flushes : /\ executing # {} => id < flushes
                              /\ Retire(id)
  /\ UNCHANGED <<immediate, immediateRange, pending, executing, flushes,
                 uploads>>

Next ==
  \/ \E size \in Sizes : \/ ImmediateAllocates(size) \/ ImmediateFails(size)
                         \/ BatchUploads(size)
                         \/ DeferredUploads(size) \/ DeferredFails(size)
  \/ BeginBatch \/ EndBatch
  \/ ImmediateCopied \/ ImmediateSubmits \/ ImmediateRetires
  \/ FlushSubmits \/ FlushReturns \/ DeferredRetires

Spec == Init /\ [][Next]_vars

-----------------------------------------------------------------------------
TypeOK ==
  /\ allChunks \in Seq([size : Nat, offset : Nat])
  /\ current \in 0 .. Len(allChunks)
  /\ \A i \in 1 .. Len(inFlight) :
       /\ inFlight[i].chunk \in 1 .. Len(allChunks)
       /\ inFlight[i].size = allChunks[inFlight[i].chunk].size
  /\ \A i \in 1 .. Len(free) :
       /\ free[i].chunk \in 1 .. Len(allChunks)
       /\ free[i].size = allChunks[free[i].chunk].size

(* Where a chunk is: the current one, on the in-flight list, on the free   *)
(* list, or dropped.                                                       *)
Places(c) ==
  (IF current = c THEN {<<"current", 0>>} ELSE {}) \cup
  {p \in {"inFlight"} \X (1 .. Len(inFlight)) : inFlight[p[2]].chunk = c} \cup
  {p \in {"free"} \X (1 .. Len(free)) : free[p[2]].chunk = c}

(* A chunk is in one place at most, although the lists hold copies: it is  *)
(* never handed out twice, nor recycled while it is the current one.       *)
ChunkPlacedOnce ==
  \A c \in 1 .. Len(allChunks) : Cardinality(Places(c)) <= 1

LiveRanges == immediateRange \cup pending \cup executing

(* Two uploads that still need their staging data never share a byte of a  *)
(* staging buffer, although the immediate uploader retires with UINT64_MAX *)
(* and so recycles the chunks of deferred uploads that are not flushed or  *)
(* still execute: the chunk comes back with its old offset.                *)
LiveRangesDisjoint ==
  /\ \A r, s \in LiveRanges :
       r # s /\ r.chunk = s.chunk => r.to <= s.from \/ s.to <= r.from
  /\ immediateRange \cap (pending \cup executing) = {}

(* "If free chunk is big enough, use it": what an upload is given lies     *)
(* inside its staging buffer.                                              *)
RangesInBounds == \A r \in LiveRanges : r.to <= r.limit

=============================================================================
