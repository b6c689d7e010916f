--------------------------- MODULE DescriptorPools ---------------------------
(***************************************************************************)
(* Descriptor pools and sets (src/Vulkan/VK_Resource_Bindings.cpp).  On    *)
(* the DESCRIPTOR_SETS path a set is a VkDescriptorSet of a                *)
(* VkDescriptorPool; on the DESCRIPTOR_BUFFER path it is a place in a      *)
(* heap, found by moving a write pointer (LINEAR), through a list of free  *)
(* slots (POOL), or left to the client (MANUAL).  Either way the set is an *)
(* entry of g_SetPool, and the client has a handle of that.  Bytes of a    *)
(* heap are counted in units of 256, to which strides and offsets are      *)
(* aligned.                                                                *)
(*                                                                         *)
(* The client is one that follows the API: it frees a set once, into the   *)
(* pool it came from, and forgets the sets of a pool it resets or          *)
(* destroys; but it may write views that were destroyed since it got their *)
(* handles.  A failing RENDERX_ASSERT stops a debug build, so an action   *)
(* whose assertion does not hold is disabled.                              *)
(***************************************************************************)
EXTENDS Pool, FiniteSets, Functions

CONSTANTS
  Pools,           \* the pools a client creates
  Policy,          \* of each: "LINEAR", "POOL" or "MANUAL"
  Path,            \* of each: "SETS" or "BUFFER"
  HeapOffset,      \* heapBaseOffset of each
  Capacity,        \* the most sets of each
  Stride,          \* stridePerSet of each
  Sets,            \* the client's SetHandle variables
  VkSets,          \* what the driver calls its VkDescriptorSets
  Kind,            \* bindings of a set: "buffer", "texture", "sampler"
                   \* or "combined"
  Views,           \* of each binding: the live views it may be given
  ViewHandles,     \* of each binding: the handles a client may write
  Programs,        \* the pools a program uses
  NoPool,          \* the pool of a variable that holds no set
  NoVkSet,         \* VK_NULL_HANDLE
  NoView,          \* nothing: nobody wrote the binding, get() found nothing
  NullView,        \* the VK_NULL_HANDLE of an entry that was reset
  Emptied,         \* a handle of a destroyed view, its slot not used again
  Stale,           \* a handle of a destroyed view whose slot was used again
  Orphan,          \* a live buffer view of such an emptied buffer
  WriteCap,        \* the most writes of a VKWriteSet(): 32 in the code
  MaxEntries,      \* bound: entries of g_SetPool
  MaxGen,          \* bound: generations of an entry
  MaxWrites,       \* bound, of each pool: the writes of a VKWriteSet() to
                   \* a set of it, 0 if its sets are not written to
  MaxBatch         \* bound: the writes of a VKWriteSets()

Bindings == DOMAIN Kind

Of(policy) == {p \in Pools : Policy[p] = policy}
On(path) == {p \in Pools : Path[p] = path}

(* Those that choose a place in a heap for a set.                          *)
Placed == On("BUFFER") \ Of("MANUAL")

ASSUME DescriptorAssumption ==
  /\ Policy \in [Pools -> {"LINEAR", "POOL", "MANUAL"}]
  /\ Path \in [Pools -> {"SETS", "BUFFER"}]
  /\ Of("MANUAL") \subseteq On("BUFFER")
  /\ Kind \in [Bindings -> {"buffer", "texture", "sampler", "combined"}]
  /\ HeapOffset \in [Pools -> Nat]
  /\ Capacity \in [Pools -> Nat \ {0}]
  /\ Stride \in [Pools -> Nat \ {0}]
  /\ Programs \subseteq SUBSET Pools
  /\ NoPool \notin Pools /\ NoVkSet \notin VkSets
  /\ NullRes \notin [of : Pools, vk : VkSets \cup {NoVkSet}, offset : Nat]
  /\ NullView # NoView
  /\ \A b \in Bindings : Views[b] \cap {NoView, Emptied, Stale, Orphan} = {}
  /\ MaxGen \in 1 .. GenMod - 1
  /\ WriteCap \in Nat /\ MaxWrites \in [Pools -> Nat] /\ MaxBatch \in Nat
  /\ \A program \in Programs : \A p, q \in program \cap On("BUFFER") :
       p = q \/ HeapOffset[p] + Capacity[p] * Stride[p] <= HeapOffset[q]
             \/ HeapOffset[q] + Capacity[q] * Stride[q] <= HeapOffset[p]

VARIABLES
  uses,            \* the pools of this program
  alive,           \* pools created and not destroyed
  writePtr,        \* writePtr of each pool
  freeSlots,       \* freeSlots of each pool
  vkSets,          \* the driver: sets allocated from each VkDescriptorPool
  content,         \* the driver: what each VkDescriptorSet holds
  setPool,         \* g_SetPool, of [of, vk, offset]
  set,             \* per variable: the handle in it and its pool
  left,            \* history: entries whose pool was reset or destroyed
  meant,           \* history: what the client named last, per variable
  skipped          \* history: the bindings whose last write was dropped

pools   == <<uses, alive, writePtr, freeSlots>>
history == <<meant, skipped>>
vars    == <<pools, vkSets, content, setPool, set, left, history>>

NoSet == [handle |-> InvalidHandle, of |-> NoPool]

Blank == [b \in Bindings |-> NoView]

Content(b) == Views[b] \cup {NullView, NoView}

Contents == {c \in [Bindings -> UNION {Content(b) : b \in Bindings}] :
               \A b \in Bindings : c[b] \in Content(b)}

Init == /\ uses \in Programs
        /\ alive = {}
        /\ writePtr = [p \in Pools |-> 0]
        /\ freeSlots = [p \in Pools |-> <<>>]
        /\ vkSets = [p \in Pools |-> {}]
        /\ content = [v \in VkSets |-> Blank]
        /\ setPool = EmptyPool
        /\ set = [s \in Sets |-> NoSet]
        /\ left = {}
        /\ meant = [s \in Sets |-> Blank]
        /\ skipped = {}

SetsOf(p) == {s \in Sets : set[s].of = p}

Live == {s \in Sets : set[s].of # NoPool}

Entry(s) == Get(setPool, set[s].handle)

-----------------------------------------------------------------------------
(* The driver frees some of the sets of a VkDescriptorPool.                *)
VkFree(p, S) ==
  /\ vkSets' = [vkSets EXCEPT ![p] = @ \ S]
  /\ content' = [v \in VkSets |-> IF v \in S THEN Blank ELSE content[v]]

Forget(S) == /\ meant' = [s \in Sets |-> IF s \in S THEN Blank ELSE meant[s]]
             /\ skipped' = {w \in skipped : w[1] \notin S}

(* The sets of a pool that is reset or destroyed: the client forgets them, *)
(* their entries stay.                                                     *)
ForgetSetsOf(p) ==
  /\ set' = [s \in Sets |-> IF set[s].of = p THEN NoSet ELSE set[s]]
  /\ left' = left \cup {set[s].handle.index : s \in SetsOf(p)}
  /\ Forget(SetsOf(p))
  /\ UNCHANGED setPool

(* VKCreateDescriptorPool(): a POOL pool in a heap lists all its slots.    *)
VKCreateDescriptorPool(p) ==
  /\ p \in uses \ alive
  /\ alive' = alive \cup {p}
  /\ writePtr' = [writePtr EXCEPT ![p] = 0]
  /\ freeSlots' = [freeSlots EXCEPT ![p] =
                     IF p \in Of("POOL") \cap On("BUFFER")
                     THEN [i \in 1 .. Capacity[p] |-> i - 1] ELSE <<>>]
  /\ UNCHANGED <<uses, vkSets, content, setPool, set, left, history>>

VKDestroyDescriptorPool(p) ==
  /\ p \in alive
  /\ alive' = alive \ {p}
  /\ VkFree(p, vkSets[p])
  /\ ForgetSetsOf(p)
  /\ UNCHANGED <<uses, writePtr, freeSlots>>

(* VKResetDescriptorPool() asserts LINEAR.  writePtr is relative to the    *)
(* pool's region everywhere else; here it is given an absolute offset.     *)
VKResetDescriptorPool(p) ==
  /\ p \in alive \cap Of("LINEAR")
  /\ IF p \in On("SETS")
     THEN VkFree(p, vkSets[p]) /\ UNCHANGED writePtr
     ELSE /\ writePtr' = [writePtr EXCEPT ![p] = HeapOffset[p]]
          /\ UNCHANGED <<vkSets, content>>
  /\ ForgetSetsOf(p)
  /\ UNCHANGED <<uses, alive, freeSlots>>

-----------------------------------------------------------------------------
(* g_SetPool after each number of entries that a call allocates.           *)
AllocateSome(entries) ==
  LET after[n \in 0 .. Len(entries)] ==
        IF n = 0 THEN setPool ELSE Allocated(after[n - 1], entries[n])
  IN  after

(* A call that makes new entries of pool p and returns their handles, one  *)
(* in each of the variables ss.                                            *)
Return(p, ss, entries) ==
  LET after     == AllocateSome(entries)
      handle(s) == NewHandle(after[(CHOOSE i \in DOMAIN ss : ss[i] = s) - 1])
  IN  /\ \A i \in DOMAIN ss : ss[i] \notin Live
      /\ setPool' = after[Len(entries)]
      /\ setPool'.size <= MaxEntries + 1
      /\ \A i \in Slots(setPool') : setPool'.gen[i] \in 1 .. MaxGen
      /\ set' = [s \in Sets |-> IF s \in Range(ss)
                                THEN [handle |-> handle(s), of |-> p]
                                ELSE set[s]]
      /\ UNCHANGED <<left, history>>

InHeap(p, offset) == [of |-> p, vk |-> NoVkSet, offset |-> offset]

(* VKAllocateSets() and VKAllocateSet() on the DESCRIPTOR_SETS path: one   *)
(* call to the driver for all the sets, whose success is asserted.  What   *)
(* a new VkDescriptorSet holds is undefined, NoView.  On the other path    *)
(* VKAllocateSets() is as many calls of VKAllocateSet().                   *)
VKAllocateSets(p, ss) ==
  /\ p \in alive \cap On("SETS")
  /\ Cardinality(vkSets[p]) + Len(ss) <= Capacity[p]
  /\ \E vk \in [DOMAIN ss -> VkSets \ UNION {vkSets[q] : q \in Pools}] :
       /\ \A i, j \in DOMAIN ss : vk[i] = vk[j] => i = j
       /\ vkSets' = [vkSets EXCEPT ![p] = @ \cup {vk[i] : i \in DOMAIN ss}]
       /\ Return(p, ss, [i \in DOMAIN ss |->
                           [of |-> p, vk |-> vk[i], offset |-> 0]])
  /\ UNCHANGED <<pools, content>>

(* VKAllocateSet(), LINEAR.  Bug variant: the size of the set is not       *)
(* counted in.                                                             *)
RoomForOneMore(p) == writePtr[p] <= Capacity[p] * Stride[p]

LinearRoom(p) == writePtr[p] + Stride[p] <= Capacity[p] * Stride[p]

AllocateLinear(p, s) ==
  /\ p \in alive \cap Of("LINEAR") \cap On("BUFFER")
  /\ LinearRoom(p)
  /\ Return(p, <<s>>, <<InHeap(p, HeapOffset[p] + writePtr[p])>>)
  /\ writePtr' = [writePtr EXCEPT ![p] = @ + Stride[p]]
  /\ UNCHANGED <<uses, alive, freeSlots, vkSets, content>>

(* VKAllocateSet(), POOL: the slot freed last.                             *)
LastFreed(p) == freeSlots[p][Len(freeSlots[p])]

AllocateSlot(p, s) ==
  /\ p \in alive \cap Of("POOL") \cap On("BUFFER")
  /\ freeSlots[p] # <<>>
  /\ Return(p, <<s>>, <<InHeap(p, HeapOffset[p] + LastFreed(p) * Stride[p])>>)
  /\ freeSlots' = [freeSlots EXCEPT ![p] = SubSeq(@, 1, Len(@) - 1)]
  /\ UNCHANGED <<uses, alive, writePtr, vkSets, content>>

(* VKAllocateSet(), MANUAL: at the start of the heap, for "user must use   *)
(* AllocateSetAt", which does not exist.                                   *)
AllocateManual(p, s) ==
  /\ p \in alive \cap Of("MANUAL")
  /\ Return(p, <<s>>, <<InHeap(p, 0)>>)
  /\ UNCHANGED <<pools, vkSets, content>>

(* VKFreeSet() finds the slot from the byte offset.  Bug variant: one slot *)
(* too low.                                                                *)
SlotBelow(p, offset) == (offset - HeapOffset[p]) \div Stride[p] - 1

SlotOf(p, offset) == (offset - HeapOffset[p]) \div Stride[p]

(* VKFreeSet() asserts POOL.  Bug variant: the entry stays.                *)
ReleaseStorage(p, s) ==
  /\ p \in alive \cap Of("POOL")
  /\ set[s].of = p
  /\ IF p \in On("SETS")
     THEN VkFree(p, {Entry(s).vk}) /\ UNCHANGED freeSlots
     ELSE /\ freeSlots' = [freeSlots EXCEPT ![p] =
                             Append(@, SlotOf(p, Entry(s).offset))]
          /\ UNCHANGED <<vkSets, content>>
  /\ set' = [set EXCEPT ![s] = NoSet]
  /\ Forget({s})
  /\ UNCHANGED <<uses, alive, writePtr, left>>

FreeSetOnly(p, s) == ReleaseStorage(p, s) /\ UNCHANGED setPool

VKFreeSet(p, s) ==
  /\ ReleaseStorage(p, s)
  /\ setPool' = Freed(setPool, set[s].handle)

-----------------------------------------------------------------------------
(* Writes to sets of the DESCRIPTOR_SETS path, [set, slot, view] each.     *)
(* The two functions gather those they support in an array for one call to *)
(* vkUpdateDescriptorSets, which applies them in order.  In a heap nothing *)
(* is written: "write a placeholder".                                      *)

Newest(I) == CHOOSE i \in I : \A j \in I : j <= i

(* Handles whose entry get() finds, but reset to ResourceType{}: that of a *)
(* destroyed texture view or sampler, until its slot is used again.  A     *)
(* reset buffer view has no buffer to find; a live one may have a reset    *)
(* one.                                                                    *)
NullHandles(b) == IF Kind[b] = "buffer" THEN {Orphan} ELSE {Emptied}

(* What get() makes of the handle of a write.                              *)
Found(w) == IF w.view \in Views[w.slot] THEN w.view
            ELSE IF w.view \in NullHandles(w.slot) THEN NullView ELSE NoView

(* bufInfos or imgInfos.                                                   *)
Infos(w) == IF Kind[w.slot] = "buffer" THEN "bufInfos" ELSE "imgInfos"

(* bufIdx or imgIdx when write i of the gathered writes G takes it.  Bug   *)
(* variant: it is not advanced.                                            *)
InfoIndexStuck(writes, G, i) == 0

InfoIndex(writes, G, i) ==
  Cardinality({j \in G : j < i /\ Infos(writes[j]) = Infos(writes[i])})

(* What the driver reads through the pointer of write i: the info that was *)
(* put at that place of the array last.                                    *)
InfoRead(writes, G, i) ==
  Found(writes[Newest({j \in G : /\ Infos(writes[j]) = Infos(writes[i])
                                 /\ InfoIndex(writes, G, j) = InfoIndex(writes, G, i)})])

(* dstSet of a write.  Bug variant: of the first write.                    *)
DstSetOfFirst(writes, i) == Entry(Head(writes).set).vk

DstSet(writes, i) == Entry(writes[i].set).vk

(* The driver applies the writes G.  History: what the client meant, of    *)
(* the writes whose handle names something, and which of those are not in  *)
(* G though no later one is to the same binding.                           *)
Apply(writes, G) ==
  LET named       == {i \in DOMAIN writes : Found(writes[i]) # NoView}
      onto(v, b)  == {i \in G : DstSet(writes, i) = v /\ writes[i].slot = b}
      given(s, b) == {i \in named : writes[i].set = s /\ writes[i].slot = b}
  IN  /\ content' = [v \in VkSets |-> [b \in Bindings |->
           IF onto(v, b) = {} THEN content[v][b]
           ELSE InfoRead(writes, G, Newest(onto(v, b)))]]
      /\ meant' = [s \in Sets |-> [b \in Bindings |->
           IF given(s, b) = {} THEN meant[s][b]
           ELSE Found(writes[Newest(given(s, b))])]]
      /\ skipped' = {p \in Live \X Bindings :
           IF given(p[1], p[2]) = {} THEN p \in skipped
           ELSE Newest(given(p[1], p[2])) \notin G}
      /\ UNCHANGED <<pools, vkSets, setPool, set, left>>

Supported(writes, kinds) == {i \in DOMAIN writes : Kind[writes[i].slot] \in kinds}

(* VKWriteSet(): to one set, and no more than fit its arrays.  It asserts  *)
(* that get() finds every view, "WriteSet: invalid texture view handle".   *)
VKWriteSet(writes) ==
  LET G == {i \in Supported(writes, {"buffer", "texture", "sampler"}) : i <= WriteCap}
  IN  /\ \A i \in G : Found(writes[i]) # NoView
      /\ Apply(writes, G)

(* VKWriteSets(): to one set or to several, passing over samplers and what *)
(* get() does not find.                                                    *)
VKWriteSets(writes) ==
  Apply(writes, {i \in Supported(writes, {"buffer", "texture"}) :
                   Found(writes[i]) # NoView})

Writable == {s \in Live : set[s].of \in On("SETS")}

(* What a client may write: to the sets S that it has.                     *)
Target == {s \in Writable : MaxWrites[set[s].of] > 0}

OneWrite(S) == UNION {[set : S, slot : {b}, view : ViewHandles[b]] : b \in Bindings}

UpTo(n, S) == UNION {[1 .. k -> OneWrite(S)] : k \in 1 .. n}

Next ==
  \/ \E p \in Pools : \/ VKCreateDescriptorPool(p)
                      \/ VKDestroyDescriptorPool(p)
                      \/ VKResetDescriptorPool(p)
  \/ \E p \in Pools, s \in Sets :
       \/ VKAllocateSets(p, <<s>>)
       \/ AllocateLinear(p, s)
       \/ AllocateSlot(p, s)
       \/ AllocateManual(p, s)
       \/ VKFreeSet(p, s)
  \/ \E p \in Pools, s, t \in Sets : s # t /\ VKAllocateSets(p, <<s, t>>)
  \/ \E s \in Target : \E writes \in UpTo(MaxWrites[set[s].of], {s}) :
       VKWriteSet(writes)
  \/ \E writes \in UpTo(MaxBatch, Target) : VKWriteSets(writes)

Spec == Init /\ [][Next]_vars

-----------------------------------------------------------------------------
TypeOK ==
  /\ uses \in Programs /\ alive \subseteq uses
  /\ writePtr \in [Pools -> Nat]
  /\ freeSlots \in [Pools -> Seq(Nat)]
  /\ vkSets \in [Pools -> SUBSET VkSets]
  /\ content \in [VkSets -> Contents]
  /\ IsPool(setPool, [of : uses, vk : VkSets \cup {NoVkSet}, offset : Nat])
  /\ \A s \in Sets : set[s].of \in alive \cup {NoPool}
  /\ left \subseteq Slots(setPool)
  /\ meant \in [Sets -> Contents]
  /\ skipped \subseteq Live \X Bindings

(* The handle of every set the client has names storage of its own: a      *)
(* VkDescriptorSet its pool has allocated, or a place inside the region of *)
(* its pool, and no two of them the same storage, whatever pools they come *)
(* from and however often pools were reset and sets freed.  Where a MANUAL *)
(* set lies is nobody's business.                                          *)
SetsOwnStorage ==
  /\ \A s \in Live :
       /\ IsAlive(setPool, set[s].handle)
       /\ Entry(s) # NullRes /\ Entry(s).of = set[s].of
  /\ \A s, t \in Writable :
       /\ Entry(s).vk \in vkSets[set[s].of]
       /\ s # t => Entry(s).vk # Entry(t).vk
  /\ \A s \in Live : \A p \in {set[s].of} \cap Placed :
       /\ HeapOffset[p] <= Entry(s).offset
       /\ Entry(s).offset + Stride[p] <= HeapOffset[p] + Capacity[p] * Stride[p]
       /\ \A t \in Live \ {s} : \A q \in {set[t].of} \cap Placed :
            \/ Entry(s).offset + Stride[p] <= Entry(t).offset
            \/ Entry(t).offset + Stride[q] <= Entry(s).offset

(* Nothing is lost and nothing given out twice: the free slots of a POOL   *)
(* pool are exactly those no live set has, each of them once; the driver's *)
(* sets are exactly the live ones; and an entry of g_SetPool belongs to a  *)
(* live set, or to one that went with its pool - those are never freed.    *)
NothingLost ==
  /\ \A p \in alive \cap Of("POOL") \cap On("BUFFER") :
       /\ IsInjective(freeSlots[p])
       /\ Range(freeSlots[p]) =
            (0 .. Capacity[p] - 1) \ {SlotOf(p, Entry(s).offset) : s \in SetsOf(p)}
  /\ \A p \in alive \cap On("SETS") :
       vkSets[p] = {Entry(s).vk : s \in SetsOf(p)}
  /\ Occupied(setPool) = left \cup {set[s].handle.index : s \in Live}
  /\ \A s \in Live : set[s].handle.index \notin left

(* A VkDescriptorSet holds what the last write to the client's set named:  *)
(* the view, or the VK_NULL_HANDLE that a destroyed one has become; over   *)
(* calls with several writes to one set or to several, the infos of the    *)
(* two kinds sharing no place, although VkDescriptorSets and the entries   *)
(* that name them are used again.  All but the bindings whose last write   *)
(* was dropped: beyond the 32nd, or a sampler of a batch.                  *)
DescriptorsAsWritten ==
  \A s \in Writable, b \in Bindings :
    meant[s][b] \notin {NoView, content[Entry(s).vk][b]} => <<s, b>> \in skipped

(* "LINEAR / POOL -> maximum descriptor sets": a LINEAR pool with fewer    *)
(* sets than its capacity has room for one more, after a reset too.        *)
LinearCapacity ==
  \A p \in alive \cap Of("LINEAR") \cap On("BUFFER") :
    Cardinality(SetsOf(p)) < Capacity[p] => LinearRoom(p)
=============================================================================
