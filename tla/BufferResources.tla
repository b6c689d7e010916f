-------------------------- MODULE BufferResources --------------------------
(***************************************************************************)
(* What hangs on a buffer (src/Vulkan/VK_Buffer.cpp): the views of it,     *)
(* handed out through g_BufferViewCache, and its initial data, which waits *)
(* in the load-time uploader under the raw VkBuffer until VKFlushUploads.  *)
(* BufferHandles supplies the buffers and their handles; every action of   *)
(* it is completed here by what it does to views and uploads.              *)
(***************************************************************************)
EXTENDS BufferHandles, LoadUploader, FiniteSets

CONSTANTS
  ViewVars,      \* the client's BufferViewHandle variables
  Ranges,        \* the <<offset, range>> pairs a view may have
  Sizes,         \* the sizes of initial data
  Programs,      \* the facilities a program uses besides creating and
                 \* destroying buffers: sets of "copies", "views", "data"
  NoData,        \* the contents of a buffer nobody wrote to
  MaxViews,      \* bound: slots of the view pool
  MaxCached,     \* bound: descriptions in the cache
  MaxViewGen,    \* bound: generations of a view, below the wrap
  MaxUploads,    \* bound: uploads queued at a time
  MaxUsedGen     \* bound: generations of a buffer in a program that does
                 \* more than copy handles

ASSUME ResourcesAssumption ==
  /\ MaxViews \in Nat /\ MaxCached \in Nat
  /\ MaxViewGen \in 1 .. GenMod - 1
  /\ MaxUploads \in Nat
  /\ MaxUsedGen \in Nat
  /\ Sizes \subseteq Nat \ {0}

VARIABLES
  uses,          \* the facilities this program uses
  viewPool,      \* g_BufferViewPool, of descriptions <<buffer, range>>
  cache,         \* g_BufferViewCache: description -> view handle
  viewHeld,      \* per view variable: the handle, the description it was
                 \* asked for with, and the session of that call
  uploader,      \* ctx.loadTimeStagingUploader
  want,          \* history: the data each VkBuffer was created with
  have,          \* the data each VkBuffer holds
  unflushed,     \* history: the VkBuffers with data queued since the last
                 \* VKFlushUploads
  misused        \* history: whether the client destroyed one of those, or
                 \* queued 2^32 bytes of data

viewVars   == <<viewPool, cache, viewHeld>>
uploadVars == <<uploader, want, have, unflushed, misused>>
allVars    == <<vars, uses, viewVars, uploadVars>>

NoView == [handle |-> InvalidHandle, of |-> <<>>, session |-> 0]

AllInit ==
  /\ Init
  /\ uses \in Programs
  /\ viewPool = EmptyPool
  /\ cache = [k \in {} |-> InvalidHandle]
  /\ viewHeld = [w \in ViewVars |-> NoView]
  /\ uploader = EmptyUploader
  /\ want = [o \in Objects |-> NoData]
  /\ have = [o \in Objects |-> NoData]
  /\ unflushed = {}
  /\ misused = FALSE

(* What every function that takes a buffer tests: alive and not null.      *)
Names(h) == IsAlive(pool, h) /\ Get(pool, h) # NullRes

-----------------------------------------------------------------------------
(* Creating a buffer: without initial data, with data written through the  *)
(* mapping at once, or - MemoryType::GPU_ONLY - with data queued.          *)

NewBuffer == CHOOSE o \in objects' : o \notin objects

CreateEmpty(v) ==
  /\ VKCreateBuffer(v)
  /\ want' = [want EXCEPT ![NewBuffer] = NoData]
  /\ have' = [have EXCEPT ![NewBuffer] = NoData]
  /\ UNCHANGED <<viewVars, uploader, unflushed, misused>>

CreateMapped(v) ==
  /\ VKCreateBuffer(v)
  /\ want' = [want EXCEPT ![NewBuffer] = held'[v]]
  /\ have' = [have EXCEPT ![NewBuffer] = held'[v]]
  /\ UNCHANGED <<viewVars, uploader, unflushed, misused>>

CreateGpuOnly(v, size) ==
  /\ Len(uploader.bufs) < MaxUploads
  /\ VKCreateBuffer(v)
  /\ uploader' = uploadBuffer(uploader, NewBuffer, held'[v], size)
  /\ want' = [want EXCEPT ![NewBuffer] = held'[v]]
  /\ have' = [have EXCEPT ![NewBuffer] = NoData]
  /\ unflushed' = unflushed \cup {NewBuffer}
  /\ misused' = (misused \/ ~ Fits(uploader, size))
  /\ UNCHANGED viewVars

CreateFails(v) == VKCreateBufferFails(v) /\ UNCHANGED <<viewVars, uploadVars>>

CopyBufferHandle(v, w) == CopyHandle(v, w) /\ UNCHANGED <<viewVars, uploadVars>>

(* Neither the cache nor the uploader is told.                             *)
DestroyBuffer(v) ==
  /\ VKDestroyBuffer(v)
  /\ LET o == Get(pool, held[v])
     IN  /\ want' = [want EXCEPT ![o] = NoData]
         /\ have' = [have EXCEPT ![o] = NoData]
         /\ unflushed' = unflushed \ {o}
         /\ misused' = (misused \/ o \in unflushed)
  /\ UNCHANGED <<viewVars, uploader>>

-----------------------------------------------------------------------------
(* VKFlushUploads(): one submission, waited for.                           *)
VKFlushUploads ==
  /\ ~ NothingQueued(uploader)
  /\ \E copied \in Copies(uploader) :
       have' = [o \in Objects |->
                  IF o \in DOMAIN copied THEN copied[o] ELSE have[o]]
  /\ uploader' = Flushed(uploader)
  /\ unflushed' = {}
  /\ UNCHANGED <<vars, viewVars, want, misused>>

(* The early return.                                                       *)
VKFlushNothing ==
  /\ NothingQueued(uploader)
  /\ unflushed' = {}
  /\ UNCHANGED <<vars, viewVars, uploader, want, have, misused>>

-----------------------------------------------------------------------------
(* VKCreateBufferView() of the buffer in v into w: a description seen      *)
(* before is answered from the cache, whatever became of that view.        *)

ViewRoom == /\ NewHandle(viewPool).index <= MaxViews
            /\ NewHandle(viewPool).gen \in 1 .. MaxViewGen
            /\ Cardinality(DOMAIN cache) < MaxCached

(* Bug variant: a new view is not entered into the cache.                  *)
CachedNot(desc, h) == cache
Cached(desc, h) == [k \in DOMAIN cache \cup {desc} |->
                      IF k = desc THEN h ELSE cache[k]]

VKCreateBufferView(v, r, w) ==
  LET desc == <<held[v], r>>
      hit  == desc \in DOMAIN cache
      h    == IF hit THEN cache[desc] ELSE NewHandle(viewPool)
  IN  /\ Names(held[v])
      /\ \/ hit /\ UNCHANGED <<viewPool, cache>>
         \/ /\ ~ hit
            /\ ViewRoom
            /\ viewPool' = Allocated(viewPool, desc)
            /\ cache' = Cached(desc, h)
      /\ viewHeld' = [viewHeld EXCEPT ![w] =
                        [handle |-> h, of |-> desc, session |-> session]]
      /\ UNCHANGED <<vars, uploadVars>>

(* An invalid, stale or null buffer, or a range beyond its size.           *)
VKCreateBufferViewFails(w) ==
  /\ viewHeld' = [viewHeld EXCEPT ![w] = NoView]
  /\ UNCHANGED <<vars, viewPool, cache, uploadVars>>

(* VKDestroyBufferView() is free() and its assertions: whoever shared the  *)
(* view through the cache keeps a handle, and so does the cache.  It may   *)
(* free a slot twice; MaxViews bounds how often.                           *)
VKDestroyBufferView(w) ==
  /\ IsAlive(viewPool, viewHeld[w].handle)
  /\ Len(viewPool.free) < MaxViews
  /\ viewPool' = Freed(viewPool, viewHeld[w].handle)
  /\ viewHeld' = [viewHeld EXCEPT ![w] = NoView]
  /\ UNCHANGED <<vars, cache, uploadVars>>

-----------------------------------------------------------------------------
(* Bug variant: the cache outlives the session.                            *)
CacheKept == cache
CacheCleared == [k \in {} |-> InvalidHandle]

(* Shutdown() and the next Init(): the pools and the cache are cleared, the*)
(* uploader is deleted with what it has queued.                            *)
ShutdownAll ==
  /\ Shutdown
  /\ viewPool' = EmptyPool
  /\ cache' = CacheCleared
  /\ uploader' = EmptyUploader
  /\ want' = [o \in Objects |-> NoData]
  /\ have' = [o \in Objects |-> NoData]
  /\ unflushed' = {}
  /\ UNCHANGED <<viewHeld, misused>>

(* Programs that do more than copy handles, and those that use views, lose *)
(* none that is in use.                                                    *)
CreateRoom(v) == \/ uses = {"copies"}
                 \/ /\ NewHandle(pool).gen \in 1 .. MaxUsedGen
                    /\ ~ Names(held[v])

BufferStep ==
  /\ \/ \E v \in Vars : \/ CreateRoom(v) /\ CreateEmpty(v)
                        \/ DestroyBuffer(v)
     \/ /\ "copies" \in uses
        /\ \E v, w \in Vars : CopyBufferHandle(v, w) \/ CreateFails(v)
     \/ ShutdownAll
  /\ UNCHANGED uses

NamesView(h) == IsAlive(viewPool, h) /\ Get(viewPool, h) # NullRes

ViewStep ==
  /\ "views" \in uses
  /\ \E w \in ViewVars :
       \/ /\ ~ NamesView(viewHeld[w].handle)
          /\ \/ \E v \in Vars, r \in Ranges : VKCreateBufferView(v, r, w)
             \/ VKCreateBufferViewFails(w)
       \/ VKDestroyBufferView(w)
  /\ UNCHANGED uses

DataStep ==
  /\ "data" \in uses
  /\ \/ \E v \in Vars :
           /\ CreateRoom(v)
           /\ CreateMapped(v) \/ \E size \in Sizes : CreateGpuOnly(v, size)
     \/ VKFlushUploads
     \/ VKFlushNothing
  /\ UNCHANGED uses

AllNext == BufferStep \/ ViewStep \/ DataStep

AllSpec == AllInit /\ [][AllNext]_allVars

-----------------------------------------------------------------------------
(* A view handle, through whatever cache hits, destructions and reuses of  *)
(* slots it went, resolves to the view of the buffer and range its holder  *)
(* asked for, or to none; never to another's (within the session it was    *)
(* obtained in).                                                           *)
ViewNamesItsBuffer ==
  \A w \in ViewVars :
    LET x == viewHeld[w]
    IN  /\ x.session = session
        /\ IsAlive(viewPool, x.handle)
        /\ Get(viewPool, x.handle) # NullRes
        => Get(viewPool, x.handle) = x.of

(* The cache does its work: no two views of one description exist.         *)
OneViewPerDescription == NoSharing(viewPool)

(* A buffer holds the data it was created with once the uploads are        *)
(* flushed, and nothing but that before; a flush writes to no VkBuffer that*)
(* was destroyed or given to another buffer since.  It takes a client that *)
(* flushes before it destroys what it queued, and queues less than 2^32    *)
(* bytes: the uploader checks neither.                                     *)
InitialDataArrives ==
  ~ misused =>
    \A o \in Objects : \/ have[o] = want[o]
                       \/ have[o] = NoData /\ o \in unflushed
=============================================================================
