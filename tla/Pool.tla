-------------------------------- MODULE Pool --------------------------------
(***************************************************************************)
(* ResourcePool<ResourceType, Tag> (src/Vulkan/VK_Common.h): the container *)
(* behind every handle of the library.  A pool is three vectors, the       *)
(* resources, a 32-bit generation per slot and a LIFO list of free slots.  *)
(* A handle packs <<generation, index>> and encrypts the pair with the key *)
(* of the pool; the encryption is a bijection undone by every operation,   *)
(* so a handle is modelled as the pair.                                    *)
(*                                                                         *)
(* The operators are pure: each takes a pool and returns a pool or a       *)
(* verdict, and the components that own a pool build their actions from    *)
(* them.                                                                   *)
(***************************************************************************)
EXTENDS Integers, Sequences

CONSTANTS
  NullRes,   \* ResourceType{}: what a freed slot holds
  GenMod     \* the number of values of a generation: 2^32 in the code

ASSUME GenModAssumption == GenMod \in Nat /\ GenMod > 1

(* Handle{}: id 0.  Slot 0 keeps generation 1 for ever, so this resolves   *)
(* to nothing.                                                             *)
InvalidHandle == [index |-> 0, gen |-> 0]

isValid(h) == h # InvalidHandle

Gens == 0 .. GenMod - 1

(* The constructor and clear(): slot 0 is reserved, nothing is free.       *)
EmptyPool == [size |-> 1,
              res  |-> [i \in 0 .. 0 |-> NullRes],
              gen  |-> [i \in 0 .. 0 |-> 1],
              free |-> <<>>]

Slots(p) == 1 .. p.size - 1

Occupied(p) == {i \in Slots(p) : p.res[i] # NullRes}

-----------------------------------------------------------------------------
(* allocate(): push a new slot of generation 1, or pop the slot freed last *)
(* and advance its generation.                                             *)

PoppedSlot(p) == p.free[Len(p.free)]

NewHandle(p) ==
  IF p.free = <<>>
  THEN [index |-> p.size, gen |-> 1]
  ELSE [index |-> PoppedSlot(p), gen |-> (p.gen[PoppedSlot(p)] + 1) % GenMod]

(* Bug variants of Allocated, for the mutation runs.                       *)
AllocatedSameGen(p, r) ==
  IF p.free = <<>>
  THEN [size |-> p.size + 1,
        res  |-> [i \in 0 .. p.size |-> IF i = p.size THEN r ELSE p.res[i]],
        gen  |-> [i \in 0 .. p.size |-> IF i = p.size THEN 1 ELSE p.gen[i]],
        free |-> <<>>]
  ELSE [p EXCEPT !.res  = [@ EXCEPT ![PoppedSlot(p)] = r],
                 !.free = SubSeq(@, 1, Len(@) - 1)]

AllocatedNoWrap(p, r) ==
  IF p.free = <<>>
  THEN AllocatedSameGen(p, r)
  ELSE [AllocatedSameGen(p, r) EXCEPT
          !.gen = [@ EXCEPT ![PoppedSlot(p)] = @ + 1]]

AllocatedNoPop(p, r) ==
  IF p.free = <<>>
  THEN AllocatedSameGen(p, r)
  ELSE [p EXCEPT !.res = [@ EXCEPT ![PoppedSlot(p)] = r],
                 !.gen = [@ EXCEPT ![PoppedSlot(p)] = (@ + 1) % GenMod]]

Allocated(p, r) ==
  IF p.free = <<>>
  THEN [size |-> p.size + 1,
        res  |-> [i \in 0 .. p.size |-> IF i = p.size THEN r ELSE p.res[i]],
        gen  |-> [i \in 0 .. p.size |-> IF i = p.size THEN 1 ELSE p.gen[i]],
        free |-> <<>>]
  ELSE [size |-> p.size,
        res  |-> [p.res EXCEPT ![PoppedSlot(p)] = r],
        gen  |-> [p.gen EXCEPT ![PoppedSlot(p)] = (@ + 1) % GenMod],
        free |-> SubSeq(p.free, 1, Len(p.free) - 1)]

-----------------------------------------------------------------------------
(* IsAlive() and get(): a handle resolves while the generation of its slot *)
(* is its own.  A slot that was freed and not yet reused still resolves,   *)
(* to a null resource, because free() leaves the generation alone.         *)

IsAlive(p, h) == /\ isValid(h)
                 /\ h.index < p.size
                 /\ p.gen[h.index] = h.gen

Get(p, h) == p.res[h.index]

(* free(): reset the resource and push the slot.  It asserts IsAlive, and  *)
(* does not notice that the slot is on the free list already.  Bug         *)
(* variant: the resource stays.                                            *)
FreedNoReset(p, h) == [p EXCEPT !.free = Append(@, h.index)]

Freed(p, h) == [size |-> p.size,
                res  |-> [p.res EXCEPT ![h.index] = NullRes],
                gen  |-> p.gen,
                free |-> Append(p.free, h.index)]

(* ForEach(), with which a shutdown visits the resources: every slot whose *)
(* generation is not zero, free ones included.                             *)
Visited(p) == {i \in Slots(p) : p.gen[i] # 0}

-----------------------------------------------------------------------------
(* The shape of a pool of resources R.                                     *)
IsPool(p, R) ==
  /\ p = [size |-> p.size, res |-> p.res, gen |-> p.gen, free |-> p.free]
  /\ p.size \in Nat \ {0}
  /\ p.res \in [0 .. p.size - 1 -> R \cup {NullRes}]
  /\ p.res[0] = NullRes
  /\ p.gen \in [0 .. p.size - 1 -> Gens]
  /\ p.free \in Seq(Slots(p))

(* The free list names each null slot once and nothing else.               *)
FreeListExact(p) ==
  /\ \A i, j \in 1 .. Len(p.free) : p.free[i] = p.free[j] => i = j
  /\ \A s \in Slots(p) :
       p.res[s] = NullRes <=> \E i \in 1 .. Len(p.free) : p.free[i] = s

(* No two slots hold the same resource.                                    *)
NoSharing(p) == \A i, j \in Occupied(p) : p.res[i] = p.res[j] => i = j
=============================================================================
