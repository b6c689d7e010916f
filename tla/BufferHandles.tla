--------------------------- MODULE BufferHandles ---------------------------
(***************************************************************************)
(* Buffers and their handles (src/Vulkan/VK_Buffer.cpp): the buffer pool,  *)
(* the VkBuffer objects the driver has alive, and the BufferHandle         *)
(* variables of a client, which copies handles freely and may destroy any  *)
(* copy of any handle at any time.  Shutdown() followed by Init() empties  *)
(* the pool and leaves the client's variables as they are.                 *)
(***************************************************************************)
EXTENDS Pool

CONSTANTS
  Vars,         \* the client's BufferHandle variables
  Objects,      \* the VkBuffers the driver can hand out
  Sessions,     \* bound: how many Init() .. Shutdown() sessions there are
  MaxGen        \* bound: a slot is given out in generations 1 .. MaxGen;
                \* GenMod lifts the bound, generations then wrap around

ASSUME BufferAssumption ==
  /\ NullRes \notin Objects
  /\ Sessions \in Nat \ {0}
  /\ MaxGen \in 1 .. GenMod

VARIABLES
  pool,         \* g_BufferPool
  objects,      \* VkBuffers created and not destroyed
  held,         \* the handle in each client variable
  session,
  wrapped       \* whether a slot was ever given out in generation 0

vars == <<pool, objects, held, session, wrapped>>

Init == /\ pool = EmptyPool
        /\ objects = {}
        /\ held = [v \in Vars |-> InvalidHandle]
        /\ session = 1
        /\ wrapped = FALSE

(* The bound on generations: whether the next handle stays within it.      *)
GenRoom == MaxGen = GenMod \/ NewHandle(pool).gen \in 1 .. MaxGen

(* vmaCreateBuffer succeeds with a VkBuffer that is not in use.            *)
VKCreateBuffer(v) ==
  /\ GenRoom
  /\ \E o \in Objects \ objects :
       /\ objects' = objects \cup {o}
       /\ pool' = Allocated(pool, o)
  /\ held' = [held EXCEPT ![v] = NewHandle(pool)]
  /\ wrapped' = (wrapped \/ NewHandle(pool).gen = 0)
  /\ UNCHANGED session

(* Every error path: size zero, no allocator, vmaCreateBuffer fails, or    *)
(* the mapping for the initial data fails and the new VkBuffer is          *)
(* destroyed again.                                                        *)
VKCreateBufferFails(v) ==
  /\ held' = [held EXCEPT ![v] = InvalidHandle]
  /\ UNCHANGED <<pool, objects, session, wrapped>>

(* The client copies a handle.                                             *)
CopyHandle(v, w) ==
  /\ held' = [held EXCEPT ![w] = held[v]]
  /\ UNCHANGED <<pool, objects, session, wrapped>>

(* Bug variant of VKDestroyBuffer: without the null test, as the texture,  *)
(* view and sampler paths have it.                                         *)
DestroyWithoutNullTest(v) ==
  /\ IsAlive(pool, held[v])
  /\ objects' = objects \ {Get(pool, held[v])}
  /\ pool' = Freed(pool, held[v])
  /\ held' = [held EXCEPT ![v] = InvalidHandle]
  /\ UNCHANGED <<session, wrapped>>

(* An invalid, stale or already destroyed handle is only warned about.     *)
VKDestroyBuffer(v) ==
  /\ IsAlive(pool, held[v])
  /\ Get(pool, held[v]) # NullRes
  /\ objects' = objects \ {Get(pool, held[v])}
  /\ pool' = Freed(pool, held[v])
  /\ held' = [held EXCEPT ![v] = InvalidHandle]
  /\ UNCHANGED <<session, wrapped>>

(* Bug variant: the pool is cleared and nothing in it destroyed.           *)
ClearOnly ==
  /\ session < Sessions
  /\ session' = session + 1
  /\ pool' = EmptyPool
  /\ UNCHANGED <<objects, held, wrapped>>

(* Shutdown() and the next Init(): freeAllVulkanResources destroys the     *)
(* VkBuffers ForEach visits and clears the pool.                           *)
Shutdown ==
  /\ session < Sessions
  /\ session' = session + 1
  /\ objects' = objects \ {pool.res[i] : i \in Visited(pool)}
  /\ pool' = EmptyPool
  /\ UNCHANGED <<held, wrapped>>

Next == \/ \E v \in Vars : \/ VKCreateBuffer(v)
                           \/ VKCreateBufferFails(v)
                           \/ VKDestroyBuffer(v)
        \/ \E v, w \in Vars : CopyHandle(v, w)
        \/ Shutdown

Spec == Init /\ [][Next]_vars

-----------------------------------------------------------------------------
(* The types of the pool and of the client's handles: in one session a     *)
(* handle never names a slot the pool does not have.                       *)
TypeOK ==
  /\ IsPool(pool, Objects)
  /\ objects \subseteq Objects
  /\ held \in [Vars -> [index : Nat, gen : Gens]]
  /\ session \in 1 .. Sessions
  /\ wrapped \in BOOLEAN
  /\ ~ wrapped => Visited(pool) = Slots(pool)

(* Whatever copies a client destroys, and in whatever order, the free list *)
(* of the pool is exactly its null slots, each of them once: no slot is    *)
(* ever given out twice (VKDestroyBuffer tests for VK_NULL_HANDLE before   *)
(* g_BufferPool.free).                                                     *)
FreeListIsNullSlots == FreeListExact(pool)

(* Each occupied slot holds a VkBuffer of its own that is alive, so nothing*)
(* is destroyed twice or behind a slot's back.  Each VkBuffer alive sits   *)
(* in a slot: nothing leaks, through re-initialisation neither - until a   *)
(* generation wraps to 0, for Shutdown passes over such a slot.            *)
ObjectsOwnedOnce ==
  /\ {pool.res[i] : i \in Occupied(pool)} \subseteq objects
  /\ NoSharing(pool)
  /\ ~ wrapped => objects \subseteq {pool.res[i] : i \in Occupied(pool)}

-----------------------------------------------------------------------------
(* The handles that name a buffer are those of the occupied slots, and a   *)
(* slot has issued one handle for each of its generations so far.          *)
tableBar ==
  [h \in {[index |-> i, gen |-> pool.gen[i]] : i \in Occupied(pool)} |->
     pool.res[h.index]]

issuedBar == UNION {{[index |-> i, gen |-> g] : g \in 1 .. pool.gen[i]} :
                      i \in Slots(pool)}

HT == INSTANCE HandleTable WITH
        Handle   <- [index : Nat, gen : Gens],
        Invalid  <- InvalidHandle,
        table    <- tableBar,
        issued   <- issuedBar,
        promised <- session = 1 /\ ~ wrapped

(* Up to the first Shutdown(), and below 2^32 reuses of a slot, buffers    *)
(* keep the promise of the abstract handle table: a handle names its own   *)
(* buffer from the VKCreateBuffer that returned it to the first            *)
(* VKDestroyBuffer of any of its copies, and then nothing.                 *)
HandleTableSpec == HT!Spec
=============================================================================
