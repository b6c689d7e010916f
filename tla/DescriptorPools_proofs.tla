----------------------- MODULE DescriptorPools_proofs -----------------------
(***************************************************************************)
(* Descriptor sets for any pools, capacities, strides, sets, bindings and  *)
(* batches, and any number of entries.  The argument: a live set has an    *)
(* entry of g_SetPool to itself, which its pool made; what that entry      *)
(* names - a VkDescriptorSet, a place before the write pointer, a slot     *)
(* that is not on the list - no other set of the pool has; and the regions *)
(* of two pools are apart because the client keeps them so.                *)
(***************************************************************************)
EXTENDS DescriptorPools, Lemmas, FiniteSetTheorems

Handles == [index : Nat, gen : Gens]

Entries == [of : uses, vk : VkSets \cup {NoVkSet}, offset : Nat]

(* Pools in a heap that move a pointer, and those with a list of slots.    *)
Linear == Of("LINEAR") \cap On("BUFFER")
Slotted == Of("POOL") \cap On("BUFFER")

(* g_SetPool and the handles of the client: a live set has an entry of its *)
(* own, which its pool made, and the other occupied entries are left over. *)
EntryInv ==
  /\ PoolOK(setPool, Entries)
  /\ set \in [Sets -> [handle : Handles, of : alive \cup {NoPool}]]
  /\ Occupied(setPool) = left \cup {set[s].handle.index : s \in Live}
  /\ \A s \in Live : /\ set[s].handle.index \notin left
                     /\ setPool.gen[set[s].handle.index] = set[s].handle.gen
                     /\ Entry(s).of = set[s].of
  /\ \A s, t \in Live : set[s].handle.index = set[t].handle.index => s = t

(* The driver's sets are those of the live sets, one each.                 *)
VkInv ==
  /\ vkSets \in [Pools -> SUBSET VkSets]
  /\ \A p \in Pools \ On("SETS") : vkSets[p] = {}
  /\ \A p \in On("SETS") : vkSets[p] = {Entry(s).vk : s \in SetsOf(p)}
  /\ \A s, t \in Writable : Entry(s).vk = Entry(t).vk => s = t

(* Where the sets of a LINEAR pool lie: before the pointer, one after the  *)
(* other.                                                                  *)
Before(a, p, b, q) == a + Stride[p] <= b \/ b + Stride[q] <= a

InRegion(p, a) == /\ HeapOffset[p] <= a
                  /\ a + Stride[p] <= HeapOffset[p] + Capacity[p] * Stride[p]

LinearInv ==
  /\ writePtr \in [Pools -> Nat]
  /\ \A s \in Live : set[s].of \in Linear =>
       /\ InRegion(set[s].of, Entry(s).offset)
       /\ Entry(s).offset + Stride[set[s].of] <= HeapOffset[set[s].of] + writePtr[set[s].of]
  /\ \A s, t \in Live : set[s].of = set[t].of /\ set[s].of \in Linear /\ s # t =>
       Before(Entry(s).offset, set[s].of, Entry(t).offset, set[t].of)

(* Where those of a POOL pool lie: in a slot each, and the other slots are *)
(* on the list.                                                            *)
SlotOffset(p, k) == HeapOffset[p] + k * Stride[p]

SlotsOf(p) == {SlotOf(p, Entry(s).offset) : s \in SetsOf(p)}

SlotInv ==
  /\ freeSlots \in [Pools -> Seq(Nat)]
  /\ \A s \in Live : set[s].of \in Slotted =>
       \E k \in 0 .. Capacity[set[s].of] - 1 : Entry(s).offset = SlotOffset(set[s].of, k)
  /\ \A s, t \in Live :
       set[s].of = set[t].of /\ set[s].of \in Slotted /\ Entry(s).offset = Entry(t).offset
         => s = t
  /\ \A p \in alive \cap Slotted :
       /\ IsInjective(freeSlots[p])
       /\ Range(freeSlots[p]) = (0 .. Capacity[p] - 1) \ SlotsOf(p)

ContentInv ==
  /\ content \in [VkSets -> Contents] /\ meant \in [Sets -> Contents]
  /\ skipped \subseteq Live \X Bindings
  /\ \A s \in Sets \ Live : meant[s] = Blank
  /\ DescriptorsAsWritten

UsesInv == uses \in Programs /\ alive \subseteq uses \cap Pools

(* The inductive invariant.                                                *)
IInv == UsesInv /\ EntryInv /\ VkInv /\ LinearInv /\ SlotInv /\ ContentInv

-----------------------------------------------------------------------------
(* The allocations of a call, one after the other.                         *)
LEMMA AllocateSomeIs ==
  ASSUME NEW e, Len(e) \in Nat
  PROVE  /\ AllocateSome(e)[0] = setPool
         /\ \A n \in 0 .. Len(e) - 1 :
              AllocateSome(e)[n + 1] = Allocated(AllocateSome(e)[n], e[n + 1])
<1> PICK N \in Nat : N = Len(e)
  OBVIOUS
<1> DEFINE Loop(g, m) ==
             g = [n \in 0 .. m |-> IF n = 0 THEN setPool ELSE Allocated(g[n - 1], e[n])]
           P == {m \in Nat : \E g : Loop(g, m)}
<1>1. 0 \in P
  <2> DEFINE g == [n \in 0 .. 0 |-> setPool]
  <2>1. Loop(g, 0)
    OBVIOUS
  <2>2. QED BY <2>1
<1>2. ASSUME NEW m \in 0 .. N - 1, m \in P PROVE m + 1 \in P
  <2>1. PICK g : Loop(g, m)
    BY <1>2
  <2> DEFINE h == [n \in 0 .. m + 1 |-> IF n = m + 1 THEN Allocated(g[m], e[m + 1]) ELSE g[n]]
  <2>2. ASSUME NEW n \in 0 .. m + 1
        PROVE  h[n] = IF n = 0 THEN setPool ELSE Allocated(h[n - 1], e[n])
    <3>1. CASE n = m + 1
      <4>1. h[m] = g[m] /\ n - 1 = m /\ n # 0
        BY <3>1
      <4>2. QED BY <3>1, <4>1
    <3>2. CASE n = 0
      BY <2>1, <3>2
    <3>3. CASE n \in 1 .. m
      <4>1. n - 1 \in 0 .. m /\ n \in 0 .. m /\ n # 0 /\ n # m + 1 /\ n - 1 # m + 1
        BY <3>3
      <4>2. h[n] = g[n] /\ h[n - 1] = g[n - 1]
        BY <4>1
      <4>3. g[n] = Allocated(g[n - 1], e[n])
        BY <2>1, <4>1
      <4>4. QED BY <4>1, <4>2, <4>3
    <3>4. QED BY <3>1, <3>2, <3>3
  <2>3. Loop(h, m + 1)
    BY <2>2
  <2>4. \E f : Loop(f, m + 1)
    <3> HIDE DEF h
    <3>1. QED BY <2>3
  <2>5. QED BY <2>4
<1>3. PICK g : Loop(g, N)
  <2> HIDE DEF P
  <2>1. N \in P
    <3>1. 0 .. N \subseteq P
      BY <1>1, <1>2, AllNumbers
    <3>2. QED BY <3>1
  <2>2. QED BY <2>1 DEF P
<1>4. AllocateSome(e) =
        [n \in 0 .. N |-> IF n = 0 THEN setPool ELSE Allocated(AllocateSome(e)[n - 1], e[n])]
  BY <1>3, Zenon DEF AllocateSome
<1>5. ASSUME NEW n \in 0 .. N - 1
      PROVE  AllocateSome(e)[n + 1] = Allocated(AllocateSome(e)[n], e[n + 1])
  <2> PICK f : f = AllocateSome(e)
    OBVIOUS
  <2>1. n + 1 \in 0 .. N /\ n + 1 # 0 /\ n + 1 - 1 = n
    OBVIOUS
  <2>2. QED BY <1>4, <2>1
<1>6. AllocateSome(e)[0] = setPool
  <2> PICK f : f = AllocateSome(e)
    OBVIOUS
  <2>1. 0 \in 0 .. N
    OBVIOUS
  <2>2. QED BY <1>4, <2>1
<1>7. QED BY <1>5, <1>6

(* After n of them: a slot more per entry, with a handle, and the others   *)
(* as they were.                                                           *)
Handle(e, i) == NewHandle(AllocateSome(e)[i - 1])

GrownBy(p, q, e, n) ==
  /\ PoolOK(q, Entries)
  /\ Occupied(q) = Occupied(p) \cup {Handle(e, i).index : i \in 1 .. n}
  /\ \A x \in Occupied(p) : q.res[x] = p.res[x] /\ q.gen[x] = p.gen[x]
  /\ \A i \in 1 .. n : /\ Handle(e, i) \in Handles
                       /\ Handle(e, i).index \notin Occupied(p)
                       /\ q.res[Handle(e, i).index] = e[i]
                       /\ q.gen[Handle(e, i).index] = Handle(e, i).gen
  /\ \A i, j \in 1 .. n : Handle(e, i).index = Handle(e, j).index => i = j

(* The loop of VKAllocateSets over all its entries: each gets a handle of its*)
(* own, and no other handle changes what it names.                         *)
LEMMA AllocateLoop ==
  ASSUME PoolOK(setPool, Entries), NullRes \notin Entries, NEW e \in Seq(Entries)
  PROVE  GrownBy(setPool, AllocateSome(e)[Len(e)], e, Len(e))
<1> PICK N \in Nat : N = Len(e)
  OBVIOUS
<1> PICK f : f = AllocateSome(e)
  OBVIOUS
<1> DEFINE P == {n \in 0 .. N : GrownBy(setPool, f[n], e, n)}
<1>1. f[0] = setPool /\ \A n \in 0 .. N - 1 : f[n + 1] = Allocated(f[n], e[n + 1])
  BY AllocateSomeIs
<1>2. 0 \in P
  <2>1. GrownBy(setPool, setPool, e, 0)
    BY DEF GrownBy
  <2>2. QED BY <1>1, <2>1
<1>3. ASSUME NEW n \in 0 .. N - 1, n \in P PROVE n + 1 \in P
  <2> PICK p : p = setPool
    OBVIOUS
  <2> PICK g : g = f[n]
    OBVIOUS
  <2> PICK h : h = f[n + 1]
    OBVIOUS
  <2> PICK k : k = NewHandle(g)
    OBVIOUS
  <2>1. GrownBy(p, g, e, n)
    BY <1>3
  <2>2. h = Allocated(g, e[n + 1]) /\ e[n + 1] \in Entries /\ e[n + 1] # NullRes
    BY <1>1
  <2>3. Handle(e, n + 1) = k
    BY DEF Handle
  <2>4. /\ PoolOK(h, Entries) /\ k \in Handles
        /\ k.index \notin Occupied(g) /\ Occupied(h) = Occupied(g) \cup {k.index}
        /\ \A x \in Occupied(g) : h.res[x] = g.res[x] /\ h.gen[x] = g.gen[x]
        /\ h.res[k.index] = e[n + 1] /\ h.gen[k.index] = k.gen
    <3>1. PoolOK(g, Entries)
      BY <2>1 DEF GrownBy
    <3> PICK r \in Entries : r = e[n + 1]
      BY <2>2
    <3>2. h = Allocated(g, r) /\ r # NullRes
      BY <2>2
    <3> HIDE DEF P
    <3>3. QED BY <3>1, <3>2, AllocatedOK DEF Handles
  <2>5. Occupied(h) = Occupied(p) \cup {Handle(e, i).index : i \in 1 .. n + 1}
    <3>1. 1 .. n + 1 = (1 .. n) \cup {n + 1}
      OBVIOUS
    <3>2. {Handle(e, i).index : i \in 1 .. n + 1}
            = {Handle(e, i).index : i \in 1 .. n} \cup {k.index}
      BY <2>3, <3>1
    <3>3. Occupied(g) = Occupied(p) \cup {Handle(e, i).index : i \in 1 .. n}
      BY <2>1 DEF GrownBy
    <3>4. QED BY <2>4, <3>2, <3>3
  <2>6. ASSUME NEW i \in 1 .. n
        PROVE  /\ Handle(e, i) \in Handles /\ Handle(e, i).index \notin Occupied(p)
               /\ Handle(e, i).index \in Occupied(g)
               /\ h.res[Handle(e, i).index] = e[i]
               /\ h.gen[Handle(e, i).index] = Handle(e, i).gen
    BY <2>1, <2>4 DEF GrownBy
  <2>7. ASSUME NEW i \in 1 .. n + 1
        PROVE  /\ Handle(e, i) \in Handles /\ Handle(e, i).index \notin Occupied(p)
               /\ h.res[Handle(e, i).index] = e[i]
               /\ h.gen[Handle(e, i).index] = Handle(e, i).gen
    <3>1. k.index \notin Occupied(p)
      BY <2>1, <2>4 DEF GrownBy
    <3>2. CASE i = n + 1
      BY <2>3, <2>4, <3>1, <3>2
    <3>3. CASE i \in 1 .. n
      BY <2>6, <3>3
    <3>4. QED BY <3>2, <3>3
  <2>8. ASSUME NEW i \in 1 .. n + 1, NEW j \in 1 .. n + 1,
               Handle(e, i).index = Handle(e, j).index
        PROVE  i = j
    <3>1. CASE i \in 1 .. n /\ j \in 1 .. n
      BY <2>1, <2>8, <3>1 DEF GrownBy
    <3>2. CASE i \in 1 .. n /\ j = n + 1
      BY <2>3, <2>4, <2>6, <2>8, <3>2
    <3>3. CASE i = n + 1 /\ j \in 1 .. n
      BY <2>3, <2>4, <2>6, <2>8, <3>3
    <3>4. QED BY <3>1, <3>2, <3>3
  <2>9. \A x \in Occupied(p) : h.res[x] = p.res[x] /\ h.gen[x] = p.gen[x]
    BY <2>1, <2>4 DEF GrownBy
  <2>10. GrownBy(p, h, e, n + 1)
    BY <2>4, <2>5, <2>7, <2>8, <2>9 DEF GrownBy
  <2>11. QED BY <2>10
<1>4. N \in P
  <2> HIDE DEF P
  <2>1. 0 .. N \subseteq P
    BY <1>2, <1>3, AllNumbers
  <2>2. QED BY <2>1
<1>5. QED BY <1>4

(* A call returned new sets of pool p in the variables ss, with entries e. *)
Gained(p, ss, e) ==
  /\ Live' = Live \cup Range(ss) /\ Range(ss) \cap Live = {}
  /\ \A s \in Live : set'[s] = set[s] /\ Entry(s)' = Entry(s)
  /\ \A s \in Range(ss) : set'[s].of = p
  /\ \A i \in DOMAIN ss : Entry(ss[i])' = e[i]
  /\ UNCHANGED <<left, history>>

(* Which no handle of another set notices.                                 *)
LEMMA ReturnStep ==
  ASSUME EntryInv, UNCHANGED <<uses, alive>>, NEW p \in alive, p # NoPool,
         NEW ss \in Seq(Sets), NEW e \in Seq(Entries), Len(e) = Len(ss),
         \A i, j \in 1 .. Len(ss) : ss[i] = ss[j] => i = j,
         \A i \in 1 .. Len(e) : e[i].of = p, NullRes \notin Entries,
         Return(p, ss, e)
  PROVE  EntryInv' /\ Gained(p, ss, e)
<1> PICK n \in Nat : n = Len(ss)
  OBVIOUS
<1> PICK D : D = 1 .. n
  OBVIOUS
<1> PICK q : q = setPool'
  OBVIOUS
<1> PICK h : h = [i \in D |-> Handle(e, i)]
  OBVIOUS
<1>1. /\ DOMAIN ss = D /\ \A i \in D : ss[i] \in Sets
      /\ \A i, j \in D : ss[i] = ss[j] => i = j
      /\ \A i \in D : e[i].of = p
  OBVIOUS
<1>2. Range(ss) = {ss[i] : i \in D} /\ Range(ss) \subseteq Sets
  BY <1>1 DEF Range
<1>3. /\ \A i \in D : ss[i] \notin Live
      /\ q = AllocateSome(e)[n]
      /\ UNCHANGED <<left, history>>
      /\ set' = [s \in Sets |-> IF s \in Range(ss)
                   THEN [handle |-> NewHandle(AllocateSome(e)[(CHOOSE i \in DOMAIN ss : ss[i] = s) - 1]),
                         of |-> p]
                   ELSE set[s]]
  BY <1>1 DEF Return
<1>4. GrownBy(setPool, q, e, n)
  BY <1>3, AllocateLoop DEF EntryInv
<1>5. /\ PoolOK(q, Entries)
      /\ \A x \in Occupied(setPool) : q.res[x] = setPool.res[x] /\ q.gen[x] = setPool.gen[x]
      /\ \A i \in D : /\ h[i] \in Handles /\ h[i].index \notin Occupied(setPool)
                      /\ q.res[h[i].index] = e[i] /\ q.gen[h[i].index] = h[i].gen
      /\ \A i, j \in D : h[i].index = h[j].index => i = j
  BY <1>4 DEF GrownBy
<1>6. Occupied(q) = Occupied(setPool) \cup {h[i].index : i \in D}
  <2>1. Occupied(q) = Occupied(setPool) \cup {Handle(e, i).index : i \in 1 .. n}
    BY <1>4 DEF GrownBy
  <2>2. {Handle(e, i).index : i \in 1 .. n} = {h[i].index : i \in D}
    OBVIOUS
  <2>3. QED BY <2>1, <2>2
<1>7. ASSUME NEW i \in D
      PROVE  /\ set'[ss[i]].handle = h[i] /\ set'[ss[i]].of = p
             /\ set'[ss[i]] \in [handle : Handles, of : alive \cup {NoPool}]
  <2>1. ss[i] \in Sets /\ ss[i] \in Range(ss)
    BY <1>1, <1>2
  <2>2. (CHOOSE j \in DOMAIN ss : ss[j] = ss[i]) = i
    BY <1>1
  <2>3. h[i] = NewHandle(AllocateSome(e)[i - 1]) /\ h[i] \in Handles
    BY <1>5 DEF Handle
  <2>4. set'[ss[i]] = [handle |-> h[i], of |-> p]
    BY <1>3, <2>1, <2>2, <2>3
  <2>5. QED BY <2>3, <2>4
<1>8. \A s \in Sets \ Range(ss) : set'[s] = set[s]
  BY <1>3
<1>9. Range(ss) \cap Live = {}
  BY <1>2, <1>3
<1>10. Live' = Live \cup Range(ss)
  <2>1. \A s \in Sets : s \in Live' <=> set'[s].of # NoPool
    BY DEF Live
  <2>2. \A s \in Sets : s \in Live <=> set[s].of # NoPool
    BY DEF Live
  <2>3. \A s \in Range(ss) : set'[s].of # NoPool
    BY <1>2, <1>7
  <2>4. Live' \subseteq Sets /\ Live \subseteq Sets
    BY DEF Live
  <2>5. QED BY <1>2, <1>8, <2>1, <2>2, <2>3, <2>4
<1>11. \A s \in Live : set'[s] = set[s]
  <2>1. Live \subseteq Sets
    BY DEF Live
  <2>2. QED BY <1>8, <1>9, <2>1
<1>12. \A s \in Live : set[s].handle.index \in Occupied(setPool)
  BY DEF EntryInv
<1>13. \A s \in Live : Entry(s)' = Entry(s)
  BY <1>5, <1>11, <1>12 DEF Entry, Get
<1>14. \A i \in D : Entry(ss[i])' = e[i]
  BY <1>5, <1>7 DEF Entry, Get
<1>15. Gained(p, ss, e)
  <2>1. \A s \in Range(ss) : set'[s].of = p
    BY <1>2, <1>7
  <2>2. QED BY <1>1, <1>3, <1>9, <1>10, <1>11, <1>13, <1>14, <2>1 DEF Gained
<1>16. set' \in [Sets -> [handle : Handles, of : alive \cup {NoPool}]]
  <2>1. DOMAIN set' = Sets /\ set' = [s \in Sets |-> set'[s]]
    BY <1>3
  <2>2. ASSUME NEW s \in Sets PROVE set'[s] \in [handle : Handles, of : alive \cup {NoPool}]
    <3>1. CASE s \in Range(ss)
      <4>1. PICK i \in D : s = ss[i]
        BY <1>2, <3>1
      <4>2. QED BY <1>5, <1>7, <4>1
    <3>2. CASE s \notin Range(ss)
      BY <1>8, <3>2 DEF EntryInv
    <3>3. QED BY <3>1, <3>2
  <2>3. QED BY <2>1, <2>2
<1>17. Occupied(q) = left \cup {set'[s].handle.index : s \in Live'}
  <2>1. {set'[s].handle.index : s \in Live'}
          = {set[s].handle.index : s \in Live} \cup {h[i].index : i \in D}
    <3>1. \A s \in Live : set'[s].handle.index = set[s].handle.index
      BY <1>11
    <3>2. \A i \in D : set'[ss[i]].handle.index = h[i].index
      BY <1>7
    <3>3. QED BY <1>2, <1>10, <3>1, <3>2
  <2>2. QED BY <1>6, <2>1 DEF EntryInv
<1>18. ASSUME NEW s \in Live'
       PROVE  /\ set'[s].handle.index \notin left
              /\ q.gen[set'[s].handle.index] = set'[s].handle.gen
              /\ Entry(s)'.of = set'[s].of
  <2>1. CASE s \in Live
    <3>1. /\ set[s].handle.index \notin left
          /\ setPool.gen[set[s].handle.index] = set[s].handle.gen
          /\ Entry(s).of = set[s].of
      BY <2>1 DEF EntryInv
    <3>2. q.gen[set[s].handle.index] = setPool.gen[set[s].handle.index]
      BY <1>5, <1>12, <2>1
    <3>3. QED BY <1>11, <1>13, <2>1, <3>1, <3>2
  <2>2. CASE s \in Range(ss)
    <3>1. PICK i \in D : s = ss[i]
      BY <1>2, <2>2
    <3>2. left \subseteq Occupied(setPool)
      BY DEF EntryInv
    <3>3. QED BY <1>1, <1>5, <1>7, <1>14, <3>1, <3>2
  <2>3. QED BY <1>10, <2>1, <2>2
<1>19. ASSUME NEW s \in Live', NEW t \in Live', set'[s].handle.index = set'[t].handle.index
       PROVE  s = t
  <2>1. CASE s \in Live /\ t \in Live
    BY <1>11, <1>19, <2>1 DEF EntryInv
  <2>2. CASE s \in Range(ss) /\ t \in Range(ss)
    <3>1. PICK i \in D : s = ss[i]
      BY <1>2, <2>2
    <3>2. PICK j \in D : t = ss[j]
      BY <1>2, <2>2
    <3>3. QED BY <1>5, <1>7, <1>19, <3>1, <3>2
  <2>3. CASE s \in Live /\ t \in Range(ss)
    <3>1. PICK j \in D : t = ss[j]
      BY <1>2, <2>3
    <3>2. QED BY <1>5, <1>7, <1>11, <1>12, <1>19, <2>3, <3>1
  <2>4. CASE s \in Range(ss) /\ t \in Live
    <3>1. PICK j \in D : s = ss[j]
      BY <1>2, <2>4
    <3>2. QED BY <1>5, <1>7, <1>11, <1>12, <1>19, <2>4, <3>1
  <2>5. QED BY <1>10, <2>1, <2>2, <2>3, <2>4
<1>20. EntryInv'
  <2>1. Entries' = Entries /\ left' = left
    BY <1>3 DEF Entries
  <2>2. QED BY <1>5, <1>16, <1>17, <1>18, <1>19, <2>1 DEF EntryInv
<1>21. QED BY <1>15, <1>20

(* The sets S go, and the rest stays.                                      *)
Gone(S) ==
  /\ S \subseteq Live /\ Live' = Live \ S
  /\ \A s \in Live \ S : set'[s] = set[s] /\ Entry(s)' = Entry(s)

(* The sets of a pool that is reset or destroyed.                          *)
LEMMA ForgetStep ==
  ASSUME EntryInv, NEW p, p # NoPool, uses' = uses, alive \ {p} \subseteq alive',
         ForgetSetsOf(p)
  PROVE  EntryInv' /\ Gone(SetsOf(p))
<1> PICK G : G = SetsOf(p)
  OBVIOUS
<1>1. /\ set' = [s \in Sets |-> IF set[s].of = p THEN NoSet ELSE set[s]]
      /\ left' = left \cup {set[s].handle.index : s \in G}
      /\ setPool' = setPool
  BY DEF ForgetSetsOf
<1>2. /\ G = {s \in Sets : set[s].of = p}
      /\ Live = {s \in Sets : set[s].of # NoPool}
      /\ Live' = {s \in Sets : set'[s].of # NoPool}
  BY DEF SetsOf, Live
<1>3. G \subseteq Live /\ Live' = Live \ G /\ \A s \in Live \ G : set'[s] = set[s]
  <2>1. NoSet.of = NoPool
    BY DEF NoSet
  <2>2. QED BY <1>1, <1>2, <2>1
<1>4. \A s \in Live \ G : Entry(s)' = Entry(s)
  BY <1>1, <1>3 DEF Entry, Get
<1>5. Gone(G)
  BY <1>3, <1>4 DEF Gone
<1>6. set' \in [Sets -> [handle : Handles, of : alive' \cup {NoPool}]]
  <2>1. NoSet \in [handle : Handles, of : alive' \cup {NoPool}]
    BY GenModAssumption DEF NoSet, InvalidHandle, Handles, Gens
  <2>2. ASSUME NEW s \in Sets, set[s].of # p
        PROVE  set[s] \in [handle : Handles, of : alive' \cup {NoPool}]
    <3>1. set[s] \in [handle : Handles, of : alive \cup {NoPool}]
      BY DEF EntryInv
    <3>2. QED BY <2>2, <3>1
  <2>3. QED BY <1>1, <2>1, <2>2
<1>7. Occupied(setPool) = left' \cup {set'[s].handle.index : s \in Live'}
  <2>1. Occupied(setPool) = left \cup {set[s].handle.index : s \in Live}
    BY DEF EntryInv
  <2>2. QED BY <1>1, <1>3, <2>1
<1>8. ASSUME NEW s \in Live'
      PROVE  /\ set'[s].handle.index \notin left'
             /\ setPool.gen[set'[s].handle.index] = set'[s].handle.gen
             /\ Entry(s)'.of = set'[s].of
  <2>1. s \in Live \ G /\ set'[s] = set[s] /\ Entry(s)' = Entry(s)
    BY <1>3, <1>4
  <2>2. \A t \in G : set[t].handle.index # set[s].handle.index
    BY <1>3, <2>1 DEF EntryInv
  <2>3. /\ set[s].handle.index \notin left
        /\ setPool.gen[set[s].handle.index] = set[s].handle.gen
        /\ Entry(s).of = set[s].of
    BY <2>1 DEF EntryInv
  <2>4. QED BY <1>1, <2>1, <2>2, <2>3
<1>9. \A s, t \in Live' : set'[s].handle.index = set'[t].handle.index => s = t
  BY <1>3 DEF EntryInv
<1>10. EntryInv'
  <2>1. Entries' = Entries
    BY DEF Entries
  <2>2. QED BY <1>1, <1>6, <1>7, <1>8, <1>9, <2>1 DEF EntryInv
<1>11. QED BY <1>5, <1>10

(* One set is freed.                                                       *)
LEMMA FreeStep ==
  ASSUME EntryInv, NEW s \in Live, UNCHANGED <<uses, alive, left>>,
         set' = [set EXCEPT ![s] = NoSet], setPool' = Freed(setPool, set[s].handle)
  PROVE  EntryInv' /\ Gone({s})
<1> PICK h : h = set[s].handle
  OBVIOUS
<1> PICK q : q = setPool'
  OBVIOUS
<1>1. /\ s \in Sets /\ Live = {t \in Sets : set[t].of # NoPool}
      /\ Live' = {t \in Sets : set'[t].of # NoPool}
      /\ set \in [Sets -> [handle : Handles, of : alive \cup {NoPool}]]
  BY DEF Live, EntryInv
<1>2. set'[s] = NoSet /\ \A t \in Sets \ {s} : set'[t] = set[t]
  BY <1>1
<1>3. Live' = Live \ {s} /\ \A t \in Live \ {s} : set'[t] = set[t]
  <2>1. NoSet.of = NoPool
    BY DEF NoSet
  <2>2. QED BY <1>1, <1>2, <2>1
<1>4. h.index \in Occupied(setPool) /\ h.index \notin left
  BY DEF EntryInv
<1>5. /\ PoolOK(q, Entries)
      /\ Occupied(q) = Occupied(setPool) \ {h.index}
      /\ \A i \in Slots(setPool) \ {h.index} : q.res[i] = setPool.res[i]
  BY <1>4, FreedOK DEF EntryInv
<1>6. q.gen = setPool.gen
  BY DEF Freed
<1>7. \A t \in Live \ {s} : set[t].handle.index # h.index
  BY DEF EntryInv
<1>8. \A t \in Live \ {s} : Entry(t)' = Entry(t)
  <2>1. \A t \in Live : set[t].handle.index \in Slots(setPool)
    BY DEF EntryInv, Occupied
  <2>2. QED BY <1>3, <1>5, <1>7, <2>1 DEF Entry, Get
<1>9. Gone({s})
  BY <1>3, <1>8 DEF Gone
<1>10. set' \in [Sets -> [handle : Handles, of : alive \cup {NoPool}]]
  <2>1. NoSet \in [handle : Handles, of : alive \cup {NoPool}]
    BY GenModAssumption DEF NoSet, InvalidHandle, Handles, Gens
  <2>2. QED BY <1>1, <2>1
<1>11. Occupied(q) = left \cup {set'[t].handle.index : t \in Live'}
  <2>1. Occupied(setPool) = left \cup {set[t].handle.index : t \in Live}
    BY DEF EntryInv
  <2>2. {set'[t].handle.index : t \in Live'} = {set[t].handle.index : t \in Live} \ {h.index}
    BY <1>3, <1>7
  <2>3. QED BY <1>4, <1>5, <2>1, <2>2
<1>12. ASSUME NEW t \in Live'
       PROVE  /\ set'[t].handle.index \notin left
              /\ q.gen[set'[t].handle.index] = set'[t].handle.gen
              /\ Entry(t)'.of = set'[t].of
  <2>1. t \in Live \ {s} /\ set'[t] = set[t] /\ Entry(t)' = Entry(t)
    BY <1>3, <1>8
  <2>2. /\ set[t].handle.index \notin left
        /\ setPool.gen[set[t].handle.index] = set[t].handle.gen
        /\ Entry(t).of = set[t].of
    BY <2>1 DEF EntryInv
  <2>3. QED BY <1>6, <2>1, <2>2
<1>13. \A t, u \in Live' : set'[t].handle.index = set'[u].handle.index => t = u
  BY <1>3 DEF EntryInv
<1>14. EntryInv'
  <2>1. Entries' = Entries
    BY DEF Entries
  <2>2. QED BY <1>5, <1>10, <1>11, <1>12, <1>13, <2>1 DEF EntryInv
<1>15. QED BY <1>9, <1>14

-----------------------------------------------------------------------------
(* A live set is of a pool that is alive.                                  *)
LEMMA LiveOf ==
  ASSUME UsesInv, EntryInv, NEW s \in Live
  PROVE  /\ s \in Sets /\ set[s].of \in alive /\ set[s].of \in Pools /\ set[s].of # NoPool
         /\ Entry(s) \in Entries
<1>1. s \in Sets /\ set[s].of # NoPool /\ set[s].of \in alive \cup {NoPool}
  BY DEF Live, EntryInv
<1>2. Entry(s) \in Entries
  <2>1. set[s].handle.index \in Occupied(setPool)
    BY DEF EntryInv
  <2>2. PoolOK(setPool, Entries)
    BY DEF EntryInv
  <2>3. QED BY <2>1, <2>2 DEF PoolOK, IsPool, Occupied, Slots, Entry, Get
<1>3. QED BY <1>1, <1>2 DEF UsesInv

(* What sets of each pool there are after some have gone.                  *)
LEMMA GoneSets ==
  ASSUME NEW S, Gone(S)
  PROVE  /\ \A q \in Pools : SetsOf(q)' = SetsOf(q) \ S
         /\ Writable' = Writable \ S
         /\ \A q \in Pools : SetsOf(q) \subseteq Live
<1>1. /\ S \subseteq Live /\ Live' = Live \ S
      /\ \A s \in Live \ S : set'[s] = set[s]
  BY DEF Gone
<1>2. ASSUME NEW q \in Pools
      PROVE  /\ SetsOf(q) = {s \in Live : set[s].of = q}
             /\ SetsOf(q)' = {s \in Live' : set'[s].of = q}
  <2>1. q # NoPool
    BY DescriptorAssumption
  <2>2. QED BY <2>1 DEF SetsOf, Live
<1>3. /\ Writable = {s \in Live : set[s].of \in On("SETS")}
      /\ Writable' = {s \in Live' : set'[s].of \in On("SETS")}
  BY DEF Writable
<1>4. QED BY <1>1, <1>2, <1>3

(* And after a call has returned some.                                     *)
LEMMA GainedSets ==
  ASSUME NEW p \in Pools, NEW ss, NEW e, Gained(p, ss, e)
  PROVE  /\ SetsOf(p)' = SetsOf(p) \cup Range(ss)
         /\ \A q \in Pools \ {p} : SetsOf(q)' = SetsOf(q)
         /\ \A q \in Pools : SetsOf(q) \subseteq Live
         /\ p \in On("SETS") => Writable' = Writable \cup Range(ss)
         /\ p \notin On("SETS") => Writable' = Writable
<1>1. /\ Live' = Live \cup Range(ss) /\ Range(ss) \cap Live = {}
      /\ \A s \in Live : set'[s] = set[s]
      /\ \A s \in Range(ss) : set'[s].of = p
  BY DEF Gained
<1>2. ASSUME NEW q \in Pools
      PROVE  /\ SetsOf(q) = {s \in Live : set[s].of = q}
             /\ SetsOf(q)' = {s \in Live' : set'[s].of = q}
  <2>1. q # NoPool
    BY DescriptorAssumption
  <2>2. QED BY <2>1 DEF SetsOf, Live
<1>3. /\ Writable = {s \in Live : set[s].of \in On("SETS")}
      /\ Writable' = {s \in Live' : set'[s].of \in On("SETS")}
  BY DEF Writable
<1>4. \A q \in Pools : SetsOf(q) \subseteq Live
  BY <1>2
<1>5. SetsOf(p)' = SetsOf(p) \cup Range(ss)
  BY <1>1, <1>2
<1>6. ASSUME NEW q \in Pools \ {p} PROVE SetsOf(q)' = SetsOf(q)
  <2>1. \A s \in Range(ss) : set'[s].of # q
    BY <1>1
  <2>2. ASSUME NEW s \in SetsOf(q)' PROVE s \in SetsOf(q)
    BY <1>1, <1>2, <2>1, <2>2
  <2>3. ASSUME NEW s \in SetsOf(q) PROVE s \in SetsOf(q)'
    BY <1>1, <1>2, <2>3
  <2>4. QED BY <2>2, <2>3
<1>7. p \in On("SETS") => Writable' = Writable \cup Range(ss)
  BY <1>1, <1>3
<1>8. p \notin On("SETS") => Writable' = Writable
  BY <1>1, <1>3
<1>9. QED BY <1>4, <1>5, <1>6, <1>7, <1>8

-----------------------------------------------------------------------------
(* The driver's sets, when sets of p go with theirs.                       *)
LEMMA VkGone ==
  ASSUME VkInv, NEW p \in Pools, NEW S, S \subseteq SetsOf(p), Gone(S), NEW V,
         vkSets' = [vkSets EXCEPT ![p] = @ \ V],
         p \in On("SETS") => V = {Entry(s).vk : s \in S}
  PROVE  VkInv'
<1>1. /\ vkSets \in [Pools -> SUBSET VkSets]
      /\ vkSets'[p] = vkSets[p] \ V /\ \A q \in Pools \ {p} : vkSets'[q] = vkSets[q]
      /\ vkSets' \in [Pools -> SUBSET VkSets]
  BY DEF VkInv
<1>2. /\ \A q \in Pools : SetsOf(q)' = SetsOf(q) \ S /\ SetsOf(q) \subseteq Live
      /\ Writable' = Writable \ S
      /\ \A s \in Live \ S : Entry(s)' = Entry(s)
      /\ Writable \subseteq Live
  BY GoneSets DEF Gone, Writable
<1>3. \A q \in Pools \ On("SETS") : vkSets'[q] = {}
  BY <1>1 DEF VkInv
<1>4. ASSUME NEW q \in On("SETS") PROVE vkSets'[q] = {Entry(s)'.vk : s \in SetsOf(q)'}
  <2>1. /\ q \in Pools /\ vkSets[q] = {Entry(s).vk : s \in SetsOf(q)}
    BY DEF VkInv, On
  <2>2. {Entry(s)'.vk : s \in SetsOf(q)'} = {Entry(s).vk : s \in SetsOf(q) \ S}
    BY <1>2, <2>1
  <2>3. CASE q = p
    <3>1. \A s, t \in SetsOf(p) : Entry(s).vk = Entry(t).vk => s = t
      <4>1. SetsOf(p) \subseteq Writable
        BY <1>2, <2>3 DEF Writable, SetsOf
      <4>2. QED BY <4>1 DEF VkInv
    <3>2. V = {Entry(s).vk : s \in S}
      BY <2>3
    <3>3. {Entry(s).vk : s \in SetsOf(p) \ S} = vkSets[p] \ V
      BY <2>1, <2>3, <3>1, <3>2
    <3>4. QED BY <1>1, <2>2, <2>3, <3>3
  <2>4. CASE q # p
    <3>1. SetsOf(q) \ S = SetsOf(q)
      BY <2>4 DEF SetsOf
    <3>2. QED BY <1>1, <2>1, <2>2, <2>4, <3>1
  <2>5. QED BY <2>3, <2>4
<1>5. \A s, t \in Writable' : Entry(s)'.vk = Entry(t)'.vk => s = t
  BY <1>2 DEF VkInv
<1>6. QED BY <1>1, <1>3, <1>4, <1>5 DEF VkInv

(* When a pool in a heap gets sets, they have none of the driver's.        *)
LEMMA VkGainedHeap ==
  ASSUME VkInv, NEW p \in Pools \ On("SETS"), NEW ss, NEW e, Gained(p, ss, e), vkSets' = vkSets
  PROVE  VkInv'
<1>1. /\ \A q \in On("SETS") : q \in Pools \ {p}
      /\ \A s \in Live : Entry(s)' = Entry(s)
      /\ Writable \subseteq Live
  BY DEF Gained, Writable, On
<1>2. \A q \in On("SETS") : SetsOf(q)' = SetsOf(q) /\ SetsOf(q) \subseteq Live
  BY <1>1, GainedSets
<1>3. Writable' = Writable
  BY GainedSets
<1>4. ASSUME NEW q \in On("SETS") PROVE vkSets'[q] = {Entry(s)'.vk : s \in SetsOf(q)'}
  <2>1. {Entry(s)'.vk : s \in SetsOf(q)'} = {Entry(s).vk : s \in SetsOf(q)}
    BY <1>1, <1>2
  <2>2. QED BY <2>1 DEF VkInv
<1>5. \A s, t \in Writable' : Entry(s)'.vk = Entry(t)'.vk => s = t
  BY <1>1, <1>3 DEF VkInv
<1>6. QED BY <1>4, <1>5 DEF VkInv

(* vkAllocateDescriptorSets gives out sets nobody has.                     *)
LEMMA VkGainedSets ==
  ASSUME VkInv, NEW p \in On("SETS"), NEW ss, NEW e, Gained(p, ss, e),
         NEW vk \in [DOMAIN ss -> VkSets \ UNION {vkSets[q] : q \in Pools}],
         \A i, j \in DOMAIN ss : vk[i] = vk[j] => i = j,
         \A i \in DOMAIN ss : e[i].vk = vk[i],
         vkSets' = [vkSets EXCEPT ![p] = @ \cup {vk[i] : i \in DOMAIN ss}]
  PROVE  VkInv'
<1> PICK D : D = DOMAIN ss
  OBVIOUS
<1>1. /\ p \in Pools /\ vkSets \in [Pools -> SUBSET VkSets]
      /\ \A i \in D : vk[i] \in VkSets /\ \A q \in Pools : vk[i] \notin vkSets[q]
  BY DEF VkInv, On
<1>2. /\ vkSets' \in [Pools -> SUBSET VkSets]
      /\ vkSets'[p] = vkSets[p] \cup {vk[i] : i \in D}
      /\ \A q \in Pools \ {p} : vkSets'[q] = vkSets[q]
  BY <1>1
<1>3. /\ \A s \in Live : Entry(s)' = Entry(s)
      /\ \A i \in D : Entry(ss[i])'.vk = vk[i]
      /\ Range(ss) = {ss[i] : i \in D}
      /\ Writable \subseteq Live
  BY DEF Gained, Writable, Range
<1>4. /\ SetsOf(p)' = SetsOf(p) \cup Range(ss) /\ Writable' = Writable \cup Range(ss)
      /\ \A q \in Pools \ {p} : SetsOf(q)' = SetsOf(q)
      /\ \A q \in Pools : SetsOf(q) \subseteq Live
  BY <1>1, GainedSets
<1>5. \A q \in Pools \ On("SETS") : vkSets'[q] = {}
  BY <1>2 DEF VkInv
<1>6. ASSUME NEW q \in On("SETS") PROVE vkSets'[q] = {Entry(s)'.vk : s \in SetsOf(q)'}
  <2>1. q \in Pools /\ vkSets[q] = {Entry(s).vk : s \in SetsOf(q)}
    BY DEF VkInv, On
  <2>2. {Entry(s)'.vk : s \in SetsOf(q)} = {Entry(s).vk : s \in SetsOf(q)}
    BY <1>3, <1>4, <2>1
  <2>3. CASE q = p
    <3>1. {Entry(s)'.vk : s \in Range(ss)} = {vk[i] : i \in D}
      BY <1>3
    <3>2. {Entry(s)'.vk : s \in SetsOf(p)'}
            = {Entry(s)'.vk : s \in SetsOf(p)} \cup {Entry(s)'.vk : s \in Range(ss)}
      BY <1>4
    <3>3. QED BY <1>2, <2>1, <2>2, <2>3, <3>1, <3>2
  <2>4. CASE q # p
    BY <1>2, <1>4, <2>1, <2>2, <2>4
  <2>5. QED BY <2>3, <2>4
<1>7. \A s \in Writable : Entry(s)'.vk = Entry(s).vk /\ \E q \in Pools : Entry(s).vk \in vkSets[q]
  <2>1. ASSUME NEW s \in Writable PROVE \E q \in Pools : Entry(s).vk \in vkSets[q]
    <3>1. set[s].of \in On("SETS") /\ set[s].of \in Pools /\ s \in SetsOf(set[s].of)
      BY DEF Writable, Live, SetsOf, On
    <3>2. QED BY <3>1 DEF VkInv
  <2>2. QED BY <1>3, <2>1
<1>8. ASSUME NEW s \in Writable', NEW t \in Writable', Entry(s)'.vk = Entry(t)'.vk PROVE s = t
  <2>1. CASE s \in Writable /\ t \in Writable
    BY <1>7, <1>8, <2>1 DEF VkInv
  <2>2. CASE s \in Range(ss) /\ t \in Range(ss)
    <3>1. PICK i \in D : s = ss[i]
      BY <1>3, <2>2
    <3>2. PICK j \in D : t = ss[j]
      BY <1>3, <2>2
    <3>3. QED BY <1>3, <1>8, <3>1, <3>2
  <2>3. CASE s \in Writable /\ t \in Range(ss)
    <3>1. PICK j \in D : t = ss[j]
      BY <1>3, <2>3
    <3>2. QED BY <1>1, <1>3, <1>7, <1>8, <2>3, <3>1
  <2>4. CASE s \in Range(ss) /\ t \in Writable
    <3>1. PICK j \in D : s = ss[j]
      BY <1>3, <2>4
    <3>2. QED BY <1>1, <1>3, <1>7, <1>8, <2>4, <3>1
  <2>5. QED BY <1>4, <2>1, <2>2, <2>3, <2>4
<1>9. QED BY <1>2, <1>5, <1>6, <1>8 DEF VkInv

-----------------------------------------------------------------------------
(* The constants of a pool are numbers.                                    *)
LEMMA PoolNumbers ==
  ASSUME NEW p \in Pools
  PROVE  /\ HeapOffset[p] \in Nat /\ Capacity[p] \in Nat \ {0} /\ Stride[p] \in Nat \ {0}
         /\ Capacity[p] * Stride[p] \in Nat
<1>1. HeapOffset[p] \in Nat /\ Capacity[p] \in Nat \ {0} /\ Stride[p] \in Nat \ {0}
  BY DescriptorAssumption
<1>2. QED BY <1>1

(* A LINEAR pool's pointer stays, or goes where it likes when its sets go. *)
LEMMA LinearGone ==
  ASSUME LinearInv, NEW S, Gone(S), writePtr' \in [Pools -> Nat],
         \A q \in Pools : writePtr'[q] = writePtr[q] \/ SetsOf(q) \subseteq S
  PROVE  LinearInv'
<1>1. ASSUME NEW s \in Live'
      PROVE  s \in Live /\ s \notin S /\ set'[s] = set[s] /\ Entry(s)' = Entry(s)
  BY DEF Gone
<1>2. ASSUME NEW s \in Live', set'[s].of \in Linear
      PROVE  /\ InRegion(set'[s].of, Entry(s)'.offset)
             /\ Entry(s)'.offset + Stride[set'[s].of] <= HeapOffset[set'[s].of] + writePtr'[set'[s].of]
  <2> PICK q : q = set[s].of
    OBVIOUS
  <2>1. s \in Live /\ s \notin S /\ set'[s].of = q /\ Entry(s)' = Entry(s)
    BY <1>1
  <2>2. /\ InRegion(q, Entry(s).offset)
        /\ Entry(s).offset + Stride[q] <= HeapOffset[q] + writePtr[q]
    BY <1>2, <2>1 DEF LinearInv
  <2>3. q \in Pools /\ s \in SetsOf(q)
    BY <1>2, <2>1 DEF Linear, Of, SetsOf, Live
  <2>4. writePtr'[q] = writePtr[q]
    BY <2>1, <2>3
  <2>5. QED BY <2>1, <2>2, <2>4
<1>3. ASSUME NEW s \in Live', NEW t \in Live', set'[s].of = set'[t].of, set'[s].of \in Linear, s # t
      PROVE  Before(Entry(s)'.offset, set'[s].of, Entry(t)'.offset, set'[t].of)
  BY <1>1, <1>3 DEF LinearInv
<1>4. QED BY <1>2, <1>3 DEF LinearInv

(* Sets of other pools are not in it.                                      *)
LEMMA LinearGained ==
  ASSUME LinearInv, NEW p, p \notin Linear, NEW ss, NEW e, Gained(p, ss, e), writePtr' = writePtr
  PROVE  LinearInv'
<1>1. ASSUME NEW s \in Live', set'[s].of \in Linear
      PROVE  s \in Live /\ set'[s] = set[s] /\ Entry(s)' = Entry(s)
  BY <1>1 DEF Gained
<1>2. QED BY <1>1 DEF LinearInv

(* A new one lies behind all the others.                                   *)
LEMMA LinearGainedOne ==
  ASSUME UsesInv, EntryInv, LinearInv, NEW p \in Linear, NEW s, NEW e,
         Gained(p, <<s>>, e), e[1].offset = HeapOffset[p] + writePtr[p], LinearRoom(p),
         writePtr' = [writePtr EXCEPT ![p] = @ + Stride[p]]
  PROVE  LinearInv'
<1>1. p \in Pools /\ writePtr \in [Pools -> Nat]
  BY DEF Linear, Of, LinearInv
<1> PICK b \in Nat : b = HeapOffset[p]
  BY <1>1, PoolNumbers
<1> PICK d \in Nat \ {0} : d = Stride[p]
  BY <1>1, PoolNumbers
<1> PICK c \in Nat : c = Capacity[p] * Stride[p]
  BY <1>1, PoolNumbers
<1> PICK w \in Nat : w = writePtr[p]
  BY <1>1
<1>2. /\ writePtr' \in [Pools -> Nat] /\ writePtr'[p] = w + d
      /\ \A q \in Pools \ {p} : writePtr'[q] = writePtr[q]
  BY <1>1
<1>3. w + d <= c
  BY DEF LinearRoom
<1>4. /\ Live' = Live \cup {s} /\ s \notin Live
      /\ \A t \in Live : set'[t] = set[t] /\ Entry(t)' = Entry(t)
      /\ set'[s].of = p /\ Entry(s)' = e[1]
  <2>1. DOMAIN <<s>> = {1} /\ <<s>>[1] = s
    OBVIOUS
  <2>2. Range(<<s>>) = {s}
    BY <2>1 DEF Range
  <2>3. QED BY <2>1, <2>2 DEF Gained
<1>5. Entry(s)'.offset = b + w
  BY <1>4
<1>6. InRegion(p, Entry(s)'.offset)
  BY <1>3, <1>5 DEF InRegion
<1>7. ASSUME NEW t \in Live, set[t].of = p
      PROVE  /\ InRegion(p, Entry(t).offset) /\ Entry(t).offset \in Nat
             /\ Entry(t).offset + d <= b + w
  <2>1. Entry(t).offset \in Nat
    BY LiveOf DEF Entries
  <2>2. QED BY <1>7, <2>1 DEF LinearInv
<1>8. ASSUME NEW t \in Live', set'[t].of \in Linear
      PROVE  /\ InRegion(set'[t].of, Entry(t)'.offset)
             /\ Entry(t)'.offset + Stride[set'[t].of] <= HeapOffset[set'[t].of] + writePtr'[set'[t].of]
  <2>1. CASE t = s
    BY <1>2, <1>4, <1>5, <1>6, <2>1
  <2>2. CASE t \in Live /\ set[t].of = p
    <3>1. set'[t].of = p /\ Entry(t)'.offset = Entry(t).offset
      BY <1>4, <2>2
    <3>2. Entry(t).offset + d <= b + (w + d)
      BY <1>7, <2>2
    <3>3. QED BY <1>2, <1>7, <2>2, <3>1, <3>2
  <2>3. CASE t \in Live /\ set[t].of # p
    <3> PICK q : q = set[t].of
      OBVIOUS
    <3>1. set'[t].of = q /\ Entry(t)' = Entry(t) /\ q \in Linear /\ q \in Pools \ {p}
      BY <1>4, <1>8, <2>3 DEF Linear, Of
    <3>2. /\ InRegion(q, Entry(t).offset)
          /\ Entry(t).offset + Stride[q] <= HeapOffset[q] + writePtr[q]
      BY <2>3, <3>1 DEF LinearInv
    <3>3. QED BY <1>2, <3>1, <3>2
  <2>4. QED BY <1>4, <2>1, <2>2, <2>3
<1>9. ASSUME NEW t \in Live', NEW u \in Live', set'[t].of = set'[u].of, set'[t].of \in Linear, t # u
      PROVE  Before(Entry(t)'.offset, set'[t].of, Entry(u)'.offset, set'[u].of)
  <2>1. CASE t \in Live /\ u \in Live
    BY <1>4, <1>9, <2>1 DEF LinearInv
  <2>2. CASE t = s /\ u \in Live
    <3>1. set[u].of = p /\ Entry(u)' = Entry(u)
      BY <1>4, <1>9, <2>2
    <3>2. Entry(u).offset + d <= b + w
      BY <1>7, <2>2, <3>1
    <3>3. QED BY <1>4, <1>5, <1>9, <2>2, <3>1, <3>2 DEF Before
  <2>3. CASE t \in Live /\ u = s
    <3>1. set[t].of = p /\ Entry(t)' = Entry(t)
      BY <1>4, <1>9, <2>3
    <3>2. Entry(t).offset + d <= b + w
      BY <1>7, <2>3, <3>1
    <3>3. QED BY <1>4, <1>5, <1>9, <2>3, <3>1, <3>2 DEF Before
  <2>4. QED BY <1>4, <1>9, <2>1, <2>2, <2>3
<1>10. QED BY <1>2, <1>8, <1>9 DEF LinearInv

-----------------------------------------------------------------------------
(* VKFreeSet() finds the slot of an offset.                                *)
LEMMA SlotOfOffset ==
  ASSUME NEW p \in Pools, NEW k \in Nat
  PROVE  SlotOf(p, SlotOffset(p, k)) = k
<1> PICK b \in Nat : b = HeapOffset[p]
  BY PoolNumbers
<1> PICK d \in Nat \ {0} : d = Stride[p]
  BY PoolNumbers
<1>1. (k * d) \div d = k
  OBVIOUS
<1>2. (b + k * d) - b = k * d
  OBVIOUS
<1>3. QED BY <1>1, <1>2 DEF SlotOf, SlotOffset

(* A list without its last slot.                                           *)
LEMMA Shorter ==
  ASSUME NEW f \in Seq(Nat), f # <<>>, IsInjective(f), NEW g, g = SubSeq(f, 1, Len(f) - 1)
  PROVE  /\ f[Len(f)] \in Range(f) /\ f[Len(f)] \in Nat
         /\ g \in Seq(Nat) /\ IsInjective(g) /\ Range(g) = Range(f) \ {f[Len(f)]}
<1> PICK n \in Nat \ {0} : n = Len(f)
  BY EmptySeq
<1>1. DOMAIN f = 1 .. n /\ \A i \in 1 .. n : f[i] \in Nat
  OBVIOUS
<1>2. g \in Seq(Nat) /\ Len(g) = n - 1 /\ \A i \in 1 .. n - 1 : g[i] = f[i]
  OBVIOUS
<1>3. DOMAIN g = 1 .. n - 1
  BY <1>2
<1>4. \A i, j \in 1 .. n : f[i] = f[j] => i = j
  BY <1>1 DEF IsInjective
<1>5. IsInjective(g)
  BY <1>2, <1>3, <1>4, SMTT(30) DEF IsInjective
<1>6. Range(f) = {f[i] : i \in 1 .. n} /\ Range(g) = {g[i] : i \in 1 .. n - 1}
  BY <1>1, <1>3 DEF Range
<1>7. ASSUME NEW x \in Range(g) PROVE x \in Range(f) /\ x # f[n]
  <2>1. PICK i \in 1 .. n - 1 : x = f[i]
    BY <1>2, <1>6
  <2>2. i \in 1 .. n /\ n \in 1 .. n /\ i # n
    OBVIOUS
  <2>3. QED BY <1>4, <1>6, <2>1, <2>2
<1>8. ASSUME NEW x \in Range(f), x # f[n] PROVE x \in Range(g)
  <2>1. PICK i \in 1 .. n : x = f[i]
    BY <1>6
  <2>2. i \in 1 .. n - 1
    BY <1>8, <2>1
  <2>3. QED BY <1>2, <1>6, <2>1, <2>2
<1>9. f[n] \in Range(f) /\ f[n] \in Nat
  BY <1>1, <1>6
<1>10. QED BY <1>2, <1>5, <1>7, <1>8, <1>9

(* A list with one more.                                                   *)
LEMMA Longer ==
  ASSUME NEW f \in Seq(Nat), IsInjective(f), NEW k \in Nat, k \notin Range(f),
         NEW g, g = Append(f, k)
  PROVE  g \in Seq(Nat) /\ IsInjective(g) /\ Range(g) = Range(f) \cup {k}
<1> PICK n \in Nat : n = Len(f)
  OBVIOUS
<1>1. DOMAIN f = 1 .. n
  OBVIOUS
<1>2. g \in Seq(Nat) /\ Len(g) = n + 1 /\ g[n + 1] = k /\ \A i \in 1 .. n : g[i] = f[i]
  OBVIOUS
<1>3. DOMAIN g = 1 .. n + 1
  BY <1>2
<1>4. /\ Range(f) = {f[i] : i \in 1 .. n} /\ Range(g) = {g[i] : i \in 1 .. n + 1}
      /\ \A i, j \in 1 .. n : f[i] = f[j] => i = j
  BY <1>1, <1>3 DEF Range, IsInjective
<1>5. \A i \in 1 .. n : f[i] # k
  BY <1>4
<1>6. ASSUME NEW i \in 1 .. n + 1, NEW j \in 1 .. n + 1, g[i] = g[j] PROVE i = j
  <2>1. CASE i \in 1 .. n /\ j \in 1 .. n
    BY <1>2, <1>4, <1>6, <2>1
  <2>2. CASE i = n + 1 \/ j = n + 1
    BY <1>2, <1>5, <1>6, <2>2
  <2>3. QED BY <2>1, <2>2
<1>7. IsInjective(g)
  BY <1>3, <1>6 DEF IsInjective
<1>8. Range(g) = Range(f) \cup {k}
  BY <1>2, <1>4
<1>9. QED BY <1>2, <1>7, <1>8

(* The slots of sets that stay, when others go.                            *)
LEMMA SlotGone ==
  ASSUME SlotInv, NEW S, Gone(S), freeSlots' \in [Pools -> Seq(Nat)],
         \A q \in alive' \cap Slotted :
           /\ IsInjective(freeSlots'[q])
           /\ Range(freeSlots'[q])
                = (0 .. Capacity[q] - 1) \ {SlotOf(q, Entry(s).offset) : s \in SetsOf(q) \ S}
  PROVE  SlotInv'
<1>1. ASSUME NEW s \in Live'
      PROVE  s \in Live /\ s \notin S /\ set'[s] = set[s] /\ Entry(s)' = Entry(s)
  BY DEF Gone
<1>2. \A s \in Live' : set'[s].of \in Slotted =>
        \E k \in 0 .. Capacity[set'[s].of] - 1 : Entry(s)'.offset = SlotOffset(set'[s].of, k)
  BY <1>1 DEF SlotInv
<1>3. \A s, t \in Live' :
        set'[s].of = set'[t].of /\ set'[s].of \in Slotted /\ Entry(s)'.offset = Entry(t)'.offset
          => s = t
  BY <1>1 DEF SlotInv
<1>4. ASSUME NEW q \in alive' \cap Slotted
      PROVE  /\ IsInjective(freeSlots'[q])
             /\ Range(freeSlots'[q]) = (0 .. Capacity[q] - 1) \ SlotsOf(q)'
  <2>1. q \in Pools
    BY DEF Slotted, Of
  <2>2. SetsOf(q)' = SetsOf(q) \ S /\ SetsOf(q) \subseteq Live
    BY <2>1, GoneSets
  <2>3. \A s \in SetsOf(q) \ S : Entry(s)' = Entry(s)
    BY <2>2 DEF Gone
  <2>4. SlotsOf(q)' = {SlotOf(q, Entry(s)'.offset) : s \in SetsOf(q)'}
    BY DEF SlotsOf
  <2>5. SlotsOf(q)' = {SlotOf(q, Entry(s).offset) : s \in SetsOf(q) \ S}
    BY <2>2, <2>3, <2>4
  <2>6. QED BY <2>5
<1>5. QED BY <1>2, <1>3, <1>4 DEF SlotInv

(* Nothing changes for a pool whose sets stay.                             *)
LEMMA SlotSame ==
  ASSUME SlotInv, NEW q \in alive \cap Slotted, NEW S, S \cap SetsOf(q) = {}
  PROVE  /\ IsInjective(freeSlots[q])
         /\ Range(freeSlots[q])
              = (0 .. Capacity[q] - 1) \ {SlotOf(q, Entry(s).offset) : s \in SetsOf(q) \ S}
<1>1. SetsOf(q) \ S = SetsOf(q)
  OBVIOUS
<1>2. SlotsOf(q) = {SlotOf(q, Entry(s).offset) : s \in SetsOf(q) \ S}
  BY <1>1 DEF SlotsOf
<1>3. QED BY <1>2 DEF SlotInv

(* Sets of another pool are not in a slot of this one.                     *)
LEMMA SlotGained ==
  ASSUME SlotInv, NEW p \in Pools, p \notin Slotted, NEW ss, NEW e, Gained(p, ss, e),
         UNCHANGED <<alive, freeSlots>>
  PROVE  SlotInv'
<1>1. ASSUME NEW s \in Live', set'[s].of \in Slotted
      PROVE  s \in Live /\ set'[s] = set[s] /\ Entry(s)' = Entry(s)
  BY <1>1 DEF Gained
<1>2. \A s \in Live' : set'[s].of \in Slotted =>
        \E k \in 0 .. Capacity[set'[s].of] - 1 : Entry(s)'.offset = SlotOffset(set'[s].of, k)
  BY <1>1 DEF SlotInv
<1>3. \A s, t \in Live' :
        set'[s].of = set'[t].of /\ set'[s].of \in Slotted /\ Entry(s)'.offset = Entry(t)'.offset
          => s = t
  BY <1>1 DEF SlotInv
<1>4. ASSUME NEW q \in alive \cap Slotted
      PROVE  /\ IsInjective(freeSlots[q])
             /\ Range(freeSlots[q]) = (0 .. Capacity[q] - 1) \ SlotsOf(q)'
  <2>1. q \in Pools \ {p}
    BY DEF Slotted, Of
  <2>2. SetsOf(q)' = SetsOf(q) /\ SetsOf(q) \subseteq Live
    BY <2>1, GainedSets
  <2>3. \A s \in SetsOf(q) : Entry(s)' = Entry(s)
    BY <2>2 DEF Gained
  <2>4. SlotsOf(q)' = {SlotOf(q, Entry(s)'.offset) : s \in SetsOf(q)'}
    BY DEF SlotsOf
  <2>5. SlotsOf(q)' = SlotsOf(q)
    BY <2>2, <2>3, <2>4 DEF SlotsOf
  <2>6. QED BY <2>5 DEF SlotInv
<1>5. QED BY <1>2, <1>3, <1>4 DEF SlotInv

(* A set gets the slot at the end of the list.                             *)
LEMMA SlotGainedOne ==
  ASSUME SlotInv, NEW p \in alive \cap Slotted, NEW s, NEW e, Gained(p, <<s>>, e),
         freeSlots[p] # <<>>, alive' = alive,
         e[1].offset = HeapOffset[p] + LastFreed(p) * Stride[p],
         freeSlots' = [freeSlots EXCEPT ![p] = SubSeq(@, 1, Len(@) - 1)]
  PROVE  SlotInv'
<1> PICK f : f = freeSlots[p]
  OBVIOUS
<1> PICK g : g = SubSeq(f, 1, Len(f) - 1)
  OBVIOUS
<1> PICK k : k = f[Len(f)]
  OBVIOUS
<1>1. p \in Pools /\ freeSlots \in [Pools -> Seq(Nat)] /\ f \in Seq(Nat) /\ f # <<>>
  BY DEF Slotted, Of, SlotInv
<1>2. IsInjective(f) /\ Range(f) = (0 .. Capacity[p] - 1) \ SlotsOf(p)
  BY DEF SlotInv
<1>3. /\ k \in Range(f) /\ k \in Nat
      /\ g \in Seq(Nat) /\ IsInjective(g) /\ Range(g) = Range(f) \ {k}
  BY <1>1, <1>2, Shorter
<1>4. k \in 0 .. Capacity[p] - 1 /\ k \notin SlotsOf(p)
  BY <1>2, <1>3
<1>5. /\ freeSlots' \in [Pools -> Seq(Nat)] /\ freeSlots'[p] = g
      /\ \A q \in Pools \ {p} : freeSlots'[q] = freeSlots[q]
  BY <1>1, <1>3
<1>6. /\ Live' = Live \cup {s} /\ s \notin Live
      /\ \A t \in Live : set'[t] = set[t] /\ Entry(t)' = Entry(t)
      /\ set'[s].of = p /\ Entry(s)' = e[1] /\ Range(<<s>>) = {s}
  <2>1. DOMAIN <<s>> = {1} /\ <<s>>[1] = s
    OBVIOUS
  <2>2. Range(<<s>>) = {s}
    BY <2>1 DEF Range
  <2>3. QED BY <2>1, <2>2 DEF Gained
<1>7. Entry(s)'.offset = SlotOffset(p, k)
  BY <1>6 DEF LastFreed, SlotOffset
<1>8. SlotOf(p, Entry(s)'.offset) = k
  BY <1>1, <1>3, <1>7, SlotOfOffset
<1>9. \A t \in Live : set[t].of = p => Entry(t).offset # SlotOffset(p, k)
  <2>1. ASSUME NEW t \in Live, set[t].of = p, Entry(t).offset = SlotOffset(p, k) PROVE FALSE
    <3>1. t \in SetsOf(p)
      BY <2>1 DEF SetsOf, Live
    <3>2. SlotOf(p, Entry(t).offset) = k
      BY <1>1, <1>3, <2>1, SlotOfOffset
    <3>3. QED BY <1>4, <3>1, <3>2 DEF SlotsOf
  <2>2. QED BY <2>1
<1>10. ASSUME NEW t \in Live', set'[t].of \in Slotted
       PROVE  \E i \in 0 .. Capacity[set'[t].of] - 1 : Entry(t)'.offset = SlotOffset(set'[t].of, i)
  <2>1. CASE t = s
    BY <1>4, <1>6, <1>7, <2>1
  <2>2. CASE t \in Live
    <3>1. set'[t] = set[t] /\ Entry(t)' = Entry(t)
      BY <1>6, <2>2
    <3>2. \E i \in 0 .. Capacity[set[t].of] - 1 : Entry(t).offset = SlotOffset(set[t].of, i)
      BY <1>10, <2>2, <3>1 DEF SlotInv
    <3>3. QED BY <3>1, <3>2
  <2>3. QED BY <1>6, <2>1, <2>2
<1>11. ASSUME NEW t \in Live', NEW u \in Live', set'[t].of = set'[u].of, set'[t].of \in Slotted,
              Entry(t)'.offset = Entry(u)'.offset
       PROVE  t = u
  <2>1. CASE t \in Live /\ u \in Live
    BY <1>6, <1>11, <2>1, SMTT(30) DEF SlotInv
  <2>2. CASE t = s /\ u \in Live
    BY <1>6, <1>7, <1>9, <1>11, <2>2
  <2>3. CASE t \in Live /\ u = s
    BY <1>6, <1>7, <1>9, <1>11, <2>3
  <2>4. QED BY <1>6, <2>1, <2>2, <2>3
<1>12. ASSUME NEW q \in alive \cap Slotted
       PROVE  /\ IsInjective(freeSlots'[q])
              /\ Range(freeSlots'[q]) = (0 .. Capacity[q] - 1) \ SlotsOf(q)'
  <2>1. q \in Pools /\ SetsOf(q) \subseteq Live
    BY <1>1, GainedSets DEF Slotted, Of
  <2>2. {SlotOf(q, Entry(t)'.offset) : t \in SetsOf(q)} = SlotsOf(q)
    BY <1>6, <2>1 DEF SlotsOf
  <2>3. SlotsOf(q)' = {SlotOf(q, Entry(t)'.offset) : t \in SetsOf(q)'}
    BY DEF SlotsOf
  <2>4. CASE q = p
    <3>1. SetsOf(p)' = SetsOf(p) \cup {s}
      BY <1>1, <1>6, GainedSets
    <3>2. SlotsOf(p)' = SlotsOf(p) \cup {k}
      BY <1>8, <2>2, <2>3, <2>4, <3>1
    <3>3. QED BY <1>2, <1>3, <1>5, <2>4, <3>2
  <2>5. CASE q # p
    <3>1. SetsOf(q)' = SetsOf(q)
      BY <1>1, <2>1, <2>5, GainedSets
    <3>2. SlotsOf(q)' = SlotsOf(q)
      BY <2>2, <2>3, <3>1
    <3>3. QED BY <1>5, <2>1, <2>5, <3>2 DEF SlotInv
  <2>6. QED BY <2>4, <2>5
<1>13. QED BY <1>5, <1>10, <1>11, <1>12 DEF SlotInv

(* The freed slot goes back on the list, and was not there.                *)
LEMMA SlotFreed ==
  ASSUME UsesInv, EntryInv, SlotInv, NEW s \in Live, set[s].of \in Slotted, Gone({s}), alive' = alive,
         freeSlots' = [freeSlots EXCEPT ![set[s].of] = Append(@, SlotOf(set[s].of, Entry(s).offset))]
  PROVE  SlotInv'
<1> PICK p : p = set[s].of
  OBVIOUS
<1> PICK f : f = freeSlots[p]
  OBVIOUS
<1>1. p \in Pools /\ p \in alive /\ s \in SetsOf(p)
  BY LiveOf DEF SetsOf
<1>2. /\ freeSlots \in [Pools -> Seq(Nat)] /\ f \in Seq(Nat)
      /\ IsInjective(f) /\ Range(f) = (0 .. Capacity[p] - 1) \ SlotsOf(p)
  BY <1>1 DEF SlotInv
<1>3. PICK k \in 0 .. Capacity[p] - 1 : Entry(s).offset = SlotOffset(p, k)
  BY DEF SlotInv
<1>4. k \in Nat /\ SlotOf(p, Entry(s).offset) = k
  BY <1>1, <1>3, SlotOfOffset
<1>5. k \in SlotsOf(p) /\ k \notin Range(f)
  BY <1>1, <1>2, <1>4 DEF SlotsOf
<1> PICK g : g = Append(f, k)
  OBVIOUS
<1>6. g \in Seq(Nat) /\ IsInjective(g) /\ Range(g) = Range(f) \cup {k}
  BY <1>2, <1>4, <1>5, Longer
<1>7. /\ freeSlots' \in [Pools -> Seq(Nat)] /\ freeSlots'[p] = g
      /\ \A q \in Pools \ {p} : freeSlots'[q] = freeSlots[q]
  BY <1>1, <1>2, <1>4, <1>6
<1>8. ASSUME NEW t \in SetsOf(p), t # s PROVE SlotOf(p, Entry(t).offset) # k
  <2>1. t \in Live /\ set[t].of = p
    BY <1>1, <1>8 DEF SetsOf, Live
  <2>2. PICK i \in 0 .. Capacity[p] - 1 : Entry(t).offset = SlotOffset(p, i)
    BY <2>1 DEF SlotInv
  <2>3. SlotOf(p, Entry(t).offset) = i
    BY <1>1, <2>2, SlotOfOffset
  <2>4. Entry(t).offset # Entry(s).offset
    BY <1>8, <2>1 DEF SlotInv
  <2>5. QED BY <1>3, <2>2, <2>3, <2>4
<1>9. ASSUME NEW q \in alive' \cap Slotted
      PROVE  /\ IsInjective(freeSlots'[q])
             /\ Range(freeSlots'[q])
                  = (0 .. Capacity[q] - 1) \ {SlotOf(q, Entry(t).offset) : t \in SetsOf(q) \ {s}}
  <2>1. CASE q = p
    <3>1. {SlotOf(p, Entry(t).offset) : t \in SetsOf(p) \ {s}} = SlotsOf(p) \ {k}
      BY <1>4, <1>8 DEF SlotsOf
    <3>2. QED BY <1>2, <1>6, <1>7, <2>1, <3>1
  <2>2. CASE q # p
    <3>1. {s} \cap SetsOf(q) = {}
      BY <2>2 DEF SetsOf
    <3>2. q \in alive \cap Slotted /\ q \in Pools
      BY DEF Slotted, Of
    <3>3. QED BY <1>7, <2>2, <3>1, <3>2, SlotSame
  <2>3. QED BY <2>1, <2>2
<1>10. QED BY <1>7, <1>9, SlotGone

(* A new pool has no sets and lists all of its slots.                      *)
LEMMA SlotCreated ==
  ASSUME UsesInv, EntryInv, SlotInv, NEW p \in Pools \ alive, Gone({}), alive' = alive \cup {p},
         freeSlots' = [freeSlots EXCEPT ![p] =
                        IF p \in Slotted THEN [i \in 1 .. Capacity[p] |-> i - 1] ELSE <<>>]
  PROVE  SlotInv'
<1> PICK c \in Nat : c = Capacity[p]
  BY PoolNumbers
<1> PICK g : g = IF p \in Slotted THEN [i \in 1 .. c |-> i - 1] ELSE <<>>
  OBVIOUS
<1>1. g \in Seq(Nat)
  OBVIOUS
<1>2. freeSlots \in [Pools -> Seq(Nat)]
  BY DEF SlotInv
<1>3. /\ freeSlots' \in [Pools -> Seq(Nat)] /\ freeSlots'[p] = g
      /\ \A q \in Pools \ {p} : freeSlots'[q] = freeSlots[q]
  BY <1>1, <1>2
<1>4. SetsOf(p) = {}
  <2>1. p # NoPool
    BY DescriptorAssumption
  <2>2. QED BY <2>1 DEF SetsOf, EntryInv
<1>5. ASSUME NEW q \in alive' \cap Slotted
      PROVE  /\ IsInjective(freeSlots'[q])
             /\ Range(freeSlots'[q])
                  = (0 .. Capacity[q] - 1) \ {SlotOf(q, Entry(t).offset) : t \in SetsOf(q) \ {}}
  <2>1. CASE q = p
    <3>1. g = [i \in 1 .. c |-> i - 1]
      BY <2>1
    <3>2. IsInjective(g)
      BY <3>1 DEF IsInjective
    <3>3. Range(g) = 0 .. c - 1
      <4>1. Range(g) = {i - 1 : i \in 1 .. c}
        BY <3>1 DEF Range
      <4>2. ASSUME NEW x \in 0 .. c - 1 PROVE x \in {i - 1 : i \in 1 .. c}
        <5>1. x + 1 \in 1 .. c /\ (x + 1) - 1 = x
          OBVIOUS
        <5>2. QED BY <5>1
      <4>3. ASSUME NEW x \in {i - 1 : i \in 1 .. c} PROVE x \in 0 .. c - 1
        BY <4>3
      <4>4. QED BY <4>1, <4>2, <4>3
    <3>4. {SlotOf(p, Entry(t).offset) : t \in SetsOf(p) \ {}} = {}
      BY <1>4
    <3>5. QED BY <1>3, <2>1, <3>2, <3>3, <3>4
  <2>2. CASE q # p
    <3>1. q \in alive \cap Slotted /\ q \in Pools /\ {} \cap SetsOf(q) = {}
      BY <2>2 DEF Slotted, Of
    <3>2. QED BY <1>3, <2>2, <3>1, SlotSame
  <2>3. QED BY <2>1, <2>2
<1>6. QED BY <1>3, <1>5, SlotGone

(* Sets of a pool that has no list of slots go, or the pool does.          *)
LEMMA SlotForgotten ==
  ASSUME SlotInv, NEW p \in Pools, Gone(SetsOf(p)), freeSlots' = freeSlots,
         alive' \subseteq alive, p \notin alive' \cap Slotted
  PROVE  SlotInv'
<1>1. ASSUME NEW q \in alive' \cap Slotted
      PROVE  /\ IsInjective(freeSlots'[q])
             /\ Range(freeSlots'[q])
                  = (0 .. Capacity[q] - 1) \ {SlotOf(q, Entry(t).offset) : t \in SetsOf(q) \ SetsOf(p)}
  <2>1. q \in alive \cap Slotted /\ q # p
    OBVIOUS
  <2>2. SetsOf(p) \cap SetsOf(q) = {}
    BY <2>1 DEF SetsOf
  <2>3. QED BY <2>1, <2>2, SlotSame
<1>2. freeSlots' \in [Pools -> Seq(Nat)]
  BY DEF SlotInv
<1>3. QED BY <1>1, <1>2, SlotGone

(* Freeing a set of the driver's, or writing, moves no slot.               *)
LEMMA SlotUntouched ==
  ASSUME SlotInv, NEW S, Gone(S), UNCHANGED <<alive, freeSlots>>,
         \A s \in S : set[s].of \notin Slotted
  PROVE  SlotInv'
<1>1. ASSUME NEW q \in alive' \cap Slotted
      PROVE  /\ IsInjective(freeSlots'[q])
             /\ Range(freeSlots'[q])
                  = (0 .. Capacity[q] - 1) \ {SlotOf(q, Entry(t).offset) : t \in SetsOf(q) \ S}
  <2>1. S \cap SetsOf(q) = {} /\ q \in alive \cap Slotted
    BY DEF SetsOf
  <2>2. QED BY <2>1, SlotSame
<1>2. freeSlots' \in [Pools -> Seq(Nat)]
  BY DEF SlotInv
<1>3. QED BY <1>1, <1>2, SlotGone

-----------------------------------------------------------------------------
(* What a set may hold.                                                    *)
LEMMA ContentsAre ==
  ASSUME NEW c, c = [b \in Bindings |-> c[b]]
  PROVE  c \in Contents <=> \A b \in Bindings : c[b] \in Content(b)
<1>1. ASSUME \A b \in Bindings : c[b] \in Content(b) PROVE c \in Contents
  <2>1. c \in [Bindings -> UNION {Content(b) : b \in Bindings}]
    BY <1>1
  <2>2. QED BY <1>1, <2>1 DEF Contents
<1>2. QED BY <1>1 DEF Contents

(* A VkDescriptorSet the driver just made holds no view.                   *)
LEMMA BlankContents == Blank \in Contents /\ \A b \in Bindings : Blank[b] = NoView
<1>1. Blank = [b \in Bindings |-> Blank[b]] /\ \A b \in Bindings : Blank[b] = NoView
  BY DEF Blank
<1>2. QED BY <1>1, ContentsAre DEF Content

(* Sets go, and what the others hold is as it was.                         *)
LEMMA ContentGone ==
  ASSUME ContentInv, NEW S, Gone(S), Forget(S), content' \in [VkSets -> Contents],
         \A s \in Writable \ S : content'[Entry(s).vk] = content[Entry(s).vk]
  PROVE  ContentInv'
<1>1. /\ S \subseteq Live /\ Live' = Live \ S /\ Writable' = Writable \ S
      /\ \A s \in Live \ S : Entry(s)' = Entry(s)
      /\ Writable \subseteq Live /\ Live \subseteq Sets
  BY GoneSets DEF Gone, Writable, Live
<1>2. /\ meant' = [s \in Sets |-> IF s \in S THEN Blank ELSE meant[s]]
      /\ skipped' = {w \in skipped : w[1] \notin S}
  BY DEF Forget
<1>3. /\ meant \in [Sets -> Contents] /\ skipped \subseteq Live \X Bindings
      /\ \A s \in Sets \ Live : meant[s] = Blank
  BY DEF ContentInv
<1>4. meant' \in [Sets -> Contents]
  BY <1>2, <1>3, BlankContents
<1>5. \A s \in Sets \ Live' : meant'[s] = Blank
  BY <1>1, <1>2, <1>3
<1>6. skipped' \subseteq Live' \X Bindings
  BY <1>1, <1>2, <1>3
<1>7. ASSUME NEW s \in Writable', NEW b \in Bindings,
             meant'[s][b] \notin {NoView, content'[Entry(s)'.vk][b]}
      PROVE  <<s, b>> \in skipped'
  <2>1. s \in Writable /\ s \notin S /\ s \in Sets
    BY <1>1
  <2>2. meant'[s] = meant[s] /\ Entry(s)' = Entry(s)
    BY <1>1, <1>2, <2>1
  <2>3. content'[Entry(s)'.vk] = content[Entry(s).vk]
    BY <2>1, <2>2
  <2>4. <<s, b>> \in skipped
    BY <1>7, <2>1, <2>2, <2>3 DEF ContentInv, DescriptorsAsWritten
  <2>5. QED BY <1>2, <2>1, <2>4
<1>8. DescriptorsAsWritten'
  BY <1>7 DEF DescriptorsAsWritten
<1>9. QED BY <1>4, <1>5, <1>6, <1>8 DEF ContentInv

(* A new set has not been written to.                                      *)
LEMMA ContentGained ==
  ASSUME ContentInv, NEW p \in Pools, NEW ss, NEW e, Gained(p, ss, e), content' = content
  PROVE  ContentInv'
<1>1. /\ Live' = Live \cup Range(ss) /\ Range(ss) \cap Live = {}
      /\ \A s \in Live : Entry(s)' = Entry(s)
      /\ meant' = meant /\ skipped' = skipped
      /\ Writable' \subseteq Live' /\ Live' \subseteq Sets
      /\ Writable' \subseteq Writable \cup Range(ss)
  BY GainedSets DEF Gained, Writable, Live, history
<1>2. /\ content \in [VkSets -> Contents] /\ meant \in [Sets -> Contents]
      /\ skipped \subseteq Live \X Bindings
      /\ \A s \in Sets \ Live : meant[s] = Blank
  BY DEF ContentInv
<1>3. ASSUME NEW s \in Writable', NEW b \in Bindings,
             meant[s][b] \notin {NoView, content[Entry(s)'.vk][b]}
      PROVE  <<s, b>> \in skipped
  <2>1. CASE s \in Writable
    <3>1. Entry(s)' = Entry(s)
      BY <1>1, <2>1 DEF Writable
    <3>2. QED BY <1>3, <2>1, <3>1 DEF ContentInv, DescriptorsAsWritten
  <2>2. CASE s \in Range(ss)
    <3>1. s \in Sets \ Live
      BY <1>1, <2>2
    <3>2. meant[s][b] = NoView
      BY <1>2, <3>1, BlankContents
    <3>3. QED BY <1>3, <3>2
  <2>3. QED BY <1>1, <2>1, <2>2
<1>4. DescriptorsAsWritten'
  BY <1>1, <1>3 DEF DescriptorsAsWritten
<1>5. skipped \subseteq Live' \X Bindings
  BY <1>1, <1>2
<1>6. QED BY <1>1, <1>2, <1>4, <1>5 DEF ContentInv

(* The last of some writes is one of them.                                 *)
LEMMA NewestIs ==
  ASSUME NEW n \in Nat, NEW I \in SUBSET (1 .. n), I # {}
  PROVE  Newest(I) \in I /\ \A j \in I : j <= Newest(I)
<1>1. \E i \in I : \A j \in I : j <= i
  BY Greatest
<1>2. QED BY <1>1 DEF Newest

(* What get() makes of a handle may be in the binding.                     *)
LEMMA FoundIs ==
  ASSUME NEW w, w.slot \in Bindings
  PROVE  Found(w) \in Content(w.slot)
BY DEF Found, Content

(* No two of the gathered writes share a place in bufInfos or imgInfos: of *)
(* two with the same array the later counts the earlier one in.  So the    *)
(* driver reads for each what was found for it.                            *)
LEMMA InfoReadIs ==
  ASSUME NEW n \in Nat, NEW writes, NEW G \in SUBSET (1 .. n), NEW i \in G
  PROVE  InfoRead(writes, G, i) = Found(writes[i])
<1> DEFINE before(k) == {j \in G : j < k /\ Infos(writes[j]) = Infos(writes[k])}
           same == {j \in G : /\ Infos(writes[j]) = Infos(writes[i])
                              /\ InfoIndex(writes, G, j) = InfoIndex(writes, G, i)}
<1>1. ASSUME NEW j \in G, NEW k \in G, j < k, Infos(writes[j]) = Infos(writes[k])
      PROVE  InfoIndex(writes, G, j) # InfoIndex(writes, G, k)
  <2>1. IsFiniteSet(1 .. n)
    BY FS_Interval
  <2>2. before(k) \in SUBSET (1 .. n) /\ before(j) \in SUBSET before(k)
    <3>1. ASSUME NEW x \in before(j) PROVE x \in before(k)
      <4>1. x \in Int /\ j \in Int /\ k \in Int /\ x < j
        OBVIOUS
      <4>2. x < k
        BY <1>1, <4>1
      <4>3. QED BY <1>1, <4>2
    <3>2. QED BY <3>1
  <2>3. j \in before(k) /\ j \notin before(j)
    BY <1>1
  <2>4. IsFiniteSet(before(k))
    <3> HIDE DEF before
    <3>1. QED BY <2>1, <2>2, FS_Subset
  <2>5. Cardinality(before(j)) # Cardinality(before(k))
    <3> HIDE DEF before
    <3>1. QED BY <2>2, <2>3, <2>4, FS_Subset
  <2>6. QED BY <2>5 DEF InfoIndex
<1>2. ASSUME NEW j \in same PROVE j = i
  <2>1. j \in G /\ j \in Int /\ i \in Int
    OBVIOUS
  <2>2. /\ Infos(writes[j]) = Infos(writes[i])
        /\ InfoIndex(writes, G, j) = InfoIndex(writes, G, i)
    OBVIOUS
  <2> HIDE DEF same
  <2>3. ~ (j < i) /\ ~ (i < j)
    BY <1>1, <2>1, <2>2
  <2>4. QED BY <2>1, <2>3
<1>3. Newest(same) = i
  <2>1. i \in same /\ i \in Int
    OBVIOUS
  <2>2. \A j \in same : j = i
    BY <1>2
  <2> HIDE DEF same
  <2>3. same = {i}
    BY <2>1, <2>2
  <2>4. QED BY <2>1, <2>3 DEF Newest
<1>4. QED BY <1>3 DEF InfoRead

(* The gathered writes reach the VkDescriptorSets of the sets they are     *)
(* meant for, those to one and the same binding in their order.            *)
LEMMA ContentApply ==
  ASSUME UsesInv, EntryInv, VkInv, ContentInv,
         NEW n \in Nat, NEW writes, DOMAIN writes = 1 .. n,
         \A i \in 1 .. n : writes[i].set \in Writable /\ writes[i].slot \in Bindings,
         NEW G \in SUBSET (1 .. n), \A i \in G : Found(writes[i]) # NoView,
         Apply(writes, G)
  PROVE  ContentInv' /\ Gone({})
<1> DEFINE named == {i \in 1 .. n : Found(writes[i]) # NoView}
           onto(v, b) == {i \in G : DstSet(writes, i) = v /\ writes[i].slot = b}
           given(s, b) == {i \in named : writes[i].set = s /\ writes[i].slot = b}
           written(v, b) == IF onto(v, b) = {} THEN content[v][b]
                            ELSE InfoRead(writes, G, Newest(onto(v, b)))
           wanted(s, b) == IF given(s, b) = {} THEN meant[s][b]
                           ELSE Found(writes[Newest(given(s, b))])
<1>1. /\ content' = [v \in VkSets |-> [b \in Bindings |-> written(v, b)]]
      /\ meant' = [s \in Sets |-> [b \in Bindings |-> wanted(s, b)]]
      /\ skipped' = {p \in Live \X Bindings :
                       IF given(p[1], p[2]) = {} THEN p \in skipped
                       ELSE Newest(given(p[1], p[2])) \notin G}
  BY DEF Apply
<1>2. UNCHANGED <<uses, alive, setPool, set>>
  BY DEF Apply, pools
<1>3. Live' = Live /\ Writable' = Writable /\ \A s \in Live : set'[s] = set[s] /\ Entry(s)' = Entry(s)
  BY <1>2 DEF Live, Writable, Entry
<1>4. Gone({})
  BY <1>3 DEF Gone
<1>5. /\ content \in [VkSets -> Contents] /\ meant \in [Sets -> Contents]
      /\ \A s \in Sets \ Live : meant[s] = Blank
  BY DEF ContentInv
<1>6. ASSUME NEW v, NEW b, onto(v, b) # {}
      PROVE  /\ Newest(onto(v, b)) \in onto(v, b)
             /\ \A j \in onto(v, b) : j <= Newest(onto(v, b))
             /\ written(v, b) = Found(writes[Newest(onto(v, b))])
  <2> PICK I : I = onto(v, b)
    OBVIOUS
  <2>1. I \in SUBSET (1 .. n) /\ I \subseteq G
    OBVIOUS
  <2> HIDE DEF onto
  <2>2. Newest(I) \in I /\ \A j \in I : j <= Newest(I)
    BY <1>6, <2>1, NewestIs
  <2>3. InfoRead(writes, G, Newest(I)) = Found(writes[Newest(I)])
    BY <2>1, <2>2, InfoReadIs
  <2>4. QED BY <1>6, <2>2, <2>3
<1>7. ASSUME NEW s, NEW b, given(s, b) # {}
      PROVE  /\ Newest(given(s, b)) \in given(s, b)
             /\ \A j \in given(s, b) : j <= Newest(given(s, b))
             /\ wanted(s, b) = Found(writes[Newest(given(s, b))])
  <2> PICK I : I = given(s, b)
    OBVIOUS
  <2>1. I \in SUBSET (1 .. n)
    OBVIOUS
  <2> HIDE DEF given, named
  <2>2. Newest(I) \in I /\ \A j \in I : j <= Newest(I)
    BY <1>7, <2>1, NewestIs
  <2>3. QED BY <1>7, <2>2
<1>8. ASSUME NEW c \in Contents, NEW b \in Bindings PROVE c[b] \in Content(b)
  BY DEF Contents
<1>9. ASSUME NEW v \in VkSets, NEW b \in Bindings PROVE written(v, b) \in Content(b)
  <2>1. CASE onto(v, b) = {}
    BY <1>5, <1>8, <2>1
  <2>2. CASE onto(v, b) # {}
    <3>1. \A m \in onto(v, b) : m \in 1 .. n /\ writes[m].slot = b
      OBVIOUS
    <3> HIDE DEF onto, written
    <3>2. QED BY <1>6, <2>2, <3>1, FoundIs
  <2>3. QED BY <2>1, <2>2
<1>10. ASSUME NEW s \in Sets, NEW b \in Bindings PROVE wanted(s, b) \in Content(b)
  <2>1. CASE given(s, b) = {}
    BY <1>5, <1>8, <2>1
  <2>2. CASE given(s, b) # {}
    <3>1. \A m \in given(s, b) : m \in 1 .. n /\ writes[m].slot = b
      OBVIOUS
    <3> HIDE DEF given, named, wanted
    <3>2. QED BY <1>7, <2>2, <3>1, FoundIs
  <2>3. QED BY <2>1, <2>2
<1>11. content' \in [VkSets -> Contents] /\ meant' \in [Sets -> Contents]
  <2> HIDE DEF onto, given, named, written, wanted
  <2>1. ASSUME NEW v \in VkSets PROVE content'[v] \in Contents
    <3> PICK c : c = [b \in Bindings |-> written(v, b)]
      OBVIOUS
    <3>1. c = [b \in Bindings |-> c[b]] /\ \A b \in Bindings : c[b] \in Content(b)
      BY <1>9
    <3>2. QED BY <1>1, <3>1, ContentsAre
  <2>2. ASSUME NEW s \in Sets PROVE meant'[s] \in Contents
    <3> PICK c : c = [b \in Bindings |-> wanted(s, b)]
      OBVIOUS
    <3>1. c = [b \in Bindings |-> c[b]] /\ \A b \in Bindings : c[b] \in Content(b)
      BY <1>10
    <3>2. QED BY <1>1, <3>1, ContentsAre
  <2>3. content' = [v \in VkSets |-> content'[v]] /\ meant' = [s \in Sets |-> meant'[s]]
    BY <1>1
  <2>4. QED BY <2>1, <2>2, <2>3
<1>12. skipped' \subseteq Live' \X Bindings
  <2> HIDE DEF onto, given, named, written, wanted
  <2>1. QED BY <1>1, <1>3
<1>13. ASSUME NEW s \in Sets \ Live' PROVE meant'[s] = Blank
  <2>1. \A b \in Bindings : given(s, b) = {}
    BY <1>3 DEF Writable
  <2>2. meant[s] = Blank
    BY <1>3, <1>5
  <2>3. \A b \in Bindings : wanted(s, b) = NoView
    BY <2>1, <2>2, BlankContents
  <2> HIDE DEF wanted
  <2>4. meant'[s] = [b \in Bindings |-> NoView]
    BY <1>1, <2>3
  <2>5. QED BY <2>4 DEF Blank
<1>14. ASSUME NEW s \in Writable, NEW b \in Bindings,
              meant'[s][b] \notin {NoView, content'[Entry(s).vk][b]}
       PROVE  <<s, b>> \in skipped'
  <2> PICK v : v = Entry(s).vk
    OBVIOUS
  <2>1. s \in Sets /\ s \in Live /\ v \in VkSets
    <3>1. /\ s \in Sets /\ set[s].of \in On("SETS") /\ set[s].of \in Pools
          /\ s \in SetsOf(set[s].of) /\ s \in Live
      BY DEF Writable, Live, SetsOf, On
    <3>2. v \in vkSets[set[s].of] /\ vkSets[set[s].of] \subseteq VkSets
      BY <3>1 DEF VkInv
    <3>3. QED BY <3>1, <3>2
  <2>2. content'[v][b] = written(v, b) /\ meant'[s][b] = wanted(s, b)
    <3> HIDE DEF written, wanted
    <3>1. QED BY <1>1, <2>1
  <2>3. \A i \in 1 .. n : DstSet(writes, i) = v <=> writes[i].set = s
    BY DEF DstSet, VkInv
  <2>4. onto(v, b) = given(s, b) \cap G
    BY <2>3
  <2>5. CASE given(s, b) = {}
    <3>1. meant'[s][b] = meant[s][b] /\ content'[v][b] = content[v][b]
      BY <2>2, <2>4, <2>5
    <3>2. <<s, b>> \in skipped
      BY <1>14, <3>1 DEF ContentInv, DescriptorsAsWritten
    <3> HIDE DEF given
    <3>3. QED BY <1>1, <2>1, <2>5, <3>2
  <2>6. CASE given(s, b) # {} /\ Newest(given(s, b)) \in G
    <3> HIDE DEF onto, given, named, written, wanted
    <3>1. PICK m : m = Newest(given(s, b))
      OBVIOUS
    <3>2. /\ m \in given(s, b) /\ m \in onto(v, b)
          /\ \A j \in given(s, b) : j <= m
          /\ wanted(s, b) = Found(writes[m])
      BY <1>7, <2>4, <2>6, <3>1
    <3>3. PICK k : k = Newest(onto(v, b))
      OBVIOUS
    <3>4. /\ k \in given(s, b) /\ k \in G /\ m \in G
          /\ m <= k /\ k <= m
          /\ written(v, b) = Found(writes[k])
      BY <1>6, <2>4, <3>2, <3>3
    <3>5. k = m
      BY <3>4
    <3>6. QED BY <1>14, <2>2, <3>2, <3>4, <3>5
  <2>7. CASE given(s, b) # {} /\ Newest(given(s, b)) \notin G
    <3> HIDE DEF given
    <3>1. QED BY <1>1, <2>1, <2>7
  <2>8. QED BY <2>5, <2>6, <2>7
<1>15. DescriptorsAsWritten'
  <2>1. \A s \in Writable : Entry(s)' = Entry(s)
    BY <1>3 DEF Writable
  <2> HIDE DEF onto, given, named, written, wanted
  <2>2. QED BY <1>3, <1>14, <2>1 DEF DescriptorsAsWritten
<1>16. ContentInv'
  <2> HIDE DEF onto, given, named, written, wanted
  <2>1. QED BY <1>11, <1>12, <1>13, <1>15 DEF ContentInv
<1>17. QED BY <1>4, <1>16

-----------------------------------------------------------------------------
(* A pool has one path and one policy.                                     *)
LEMMA PoolKinds ==
  ASSUME NEW p \in Pools
  PROVE  /\ p \in On("SETS") => p \notin On("BUFFER")
         /\ p \in On("SETS") \/ p \in On("BUFFER")
         /\ p \in Of("LINEAR") => p \notin Of("POOL")
         /\ p \in Of("MANUAL") => p \notin Of("LINEAR") /\ p \notin Of("POOL")
         /\ p \in Linear => p \notin Slotted /\ p \notin On("SETS")
         /\ p \in Slotted => p \notin Linear /\ p \notin On("SETS")
         /\ p # NoPool
<1>1. Policy[p] \in {"LINEAR", "POOL", "MANUAL"} /\ Path[p] \in {"SETS", "BUFFER"} /\ p # NoPool
  BY DescriptorAssumption
<1>2. QED BY <1>1 DEF On, Of, Linear, Slotted

(* An entry is a resource.                                                 *)
LEMMA EntriesAreNot ==
  ASSUME UsesInv
  PROVE  NullRes \notin Entries /\ uses \subseteq Pools
<1>1. uses \subseteq Pools
  BY DescriptorAssumption DEF UsesInv
<1>2. Entries \subseteq [of : Pools, vk : VkSets \cup {NoVkSet}, offset : Nat]
  BY <1>1 DEF Entries
<1>3. QED BY <1>1, <1>2, DescriptorAssumption

(* The sets of a pool that is not alive: none.                             *)
LEMMA SetsOfDead ==
  ASSUME EntryInv, NEW p \in Pools \ alive
  PROVE  SetsOf(p) = {}
<1>1. p # NoPool
  BY DescriptorAssumption
<1>2. QED BY <1>1 DEF SetsOf, EntryInv

(* A call that takes no set away forgets none.                             *)
LEMMA ForgetNothing ==
  ASSUME ContentInv, UNCHANGED history
  PROVE  Forget({})
<1>1. meant' = meant /\ skipped' = skipped
  BY DEF history
<1>2. meant = [s \in Sets |-> meant[s]]
  BY DEF ContentInv
<1>3. QED BY <1>1, <1>2 DEF Forget

(* The client's handles stay, and so does what they name.                  *)
LEMMA KeepEntries ==
  ASSUME EntryInv, UNCHANGED <<uses, setPool, set, left>>, alive \subseteq alive'
  PROVE  EntryInv' /\ Gone({})
<1>1. /\ Live' = Live /\ Entries' = Entries
      /\ \A s \in Live : set'[s] = set[s] /\ Entry(s)' = Entry(s)
  BY DEF Live, Entry, Entries
<1>2. Gone({})
  BY <1>1 DEF Gone
<1>3. set' \in [Sets -> [handle : Handles, of : alive' \cup {NoPool}]]
  <2>1. ASSUME NEW s \in Sets PROVE set[s] \in [handle : Handles, of : alive' \cup {NoPool}]
    BY DEF EntryInv
  <2>2. set = [s \in Sets |-> set[s]]
    BY DEF EntryInv
  <2>3. QED BY <2>1, <2>2
<1>4. EntryInv'
  BY <1>1, <1>3 DEF EntryInv
<1>5. QED BY <1>2, <1>4

(* The driver frees no sets.                                               *)
LEMMA KeepVk ==
  ASSUME VkInv, NEW p \in Pools, NEW S, S \subseteq SetsOf(p), Gone(S), vkSets' = vkSets,
         S = {} \/ p \notin On("SETS")
  PROVE  VkInv'
<1>1. vkSets' = [vkSets EXCEPT ![p] = @ \ {}]
  BY DEF VkInv
<1>2. p \in On("SETS") => {} = {Entry(s).vk : s \in S}
  OBVIOUS
<1>3. QED BY <1>1, <1>2, VkGone

(* Sets go whose VkDescriptorSets stay: those of a heap, or of a pool that *)
(* never had any.                                                          *)
LEMMA KeepDriver ==
  ASSUME VkInv, ContentInv, NEW p \in Pools, NEW S, S \subseteq SetsOf(p), Gone(S), Forget(S),
         vkSets' = vkSets, content' = content, S = {} \/ p \notin On("SETS")
  PROVE  VkInv' /\ ContentInv'
<1>1. VkInv'
  BY KeepVk
<1>2. content' \in [VkSets -> Contents]
  BY DEF ContentInv
<1>3. ContentInv'
  BY <1>2, ContentGone
<1>4. QED BY <1>1, <1>3

(* It frees those of sets that go.                                         *)
LEMMA FreeDriver ==
  ASSUME VkInv, ContentInv, NEW p \in Pools, NEW S, S \subseteq SetsOf(p), Gone(S), Forget(S),
         NEW V, V = IF p \in On("SETS") THEN {Entry(s).vk : s \in S} ELSE {}, VkFree(p, V)
  PROVE  VkInv' /\ ContentInv'
<1>1. /\ vkSets' = [vkSets EXCEPT ![p] = @ \ V]
      /\ content' = [v \in VkSets |-> IF v \in V THEN Blank ELSE content[v]]
  BY DEF VkFree
<1>2. VkInv'
  BY <1>1, VkGone
<1>3. content' \in [VkSets -> Contents]
  BY <1>1, BlankContents DEF ContentInv
<1>4. ASSUME NEW s \in Writable \ S PROVE content'[Entry(s).vk] = content[Entry(s).vk]
  <2>1. /\ set[s].of \in On("SETS") /\ set[s].of \in Pools /\ s \in SetsOf(set[s].of)
    BY DEF Writable, Live, SetsOf, On
  <2>2. Entry(s).vk \in vkSets[set[s].of] /\ vkSets[set[s].of] \subseteq VkSets
    BY <2>1 DEF VkInv
  <2>3. Entry(s).vk \notin V
    <3>1. CASE p \in On("SETS")
      <4>1. SetsOf(p) \subseteq Writable
        <5>1. p # NoPool
          BY DescriptorAssumption
        <5>2. QED BY <3>1, <5>1 DEF SetsOf, Writable, Live
      <4>2. QED BY <3>1, <4>1 DEF VkInv
    <3>2. CASE p \notin On("SETS")
      BY <3>2
    <3>3. QED BY <3>1, <3>2
  <2>4. QED BY <1>1, <2>2, <2>3
<1>5. ContentInv'
  BY <1>3, <1>4, ContentGone
<1>6. QED BY <1>2, <1>5

-----------------------------------------------------------------------------
(* Creating a descriptor pool: it has no set yet and all its slots are free.*)
LEMMA CreateStep ==
  ASSUME IInv, NEW p \in Pools, VKCreateDescriptorPool(p)
  PROVE  IInv'
<1>1. /\ p \in uses /\ p \notin alive /\ alive' = alive \cup {p}
      /\ writePtr' = [writePtr EXCEPT ![p] = 0]
      /\ freeSlots' = [freeSlots EXCEPT ![p] =
                         IF p \in Slotted THEN [i \in 1 .. Capacity[p] |-> i - 1] ELSE <<>>]
      /\ UNCHANGED <<uses, vkSets, content, setPool, set, left, history>>
  BY DEF VKCreateDescriptorPool, Slotted
<1>2. UsesInv /\ EntryInv /\ VkInv /\ LinearInv /\ SlotInv /\ ContentInv
  BY DEF IInv
<1>3. UsesInv'
  BY <1>1, <1>2 DEF UsesInv
<1>4. EntryInv' /\ Gone({})
  BY <1>1, <1>2, KeepEntries
<1>5. VkInv' /\ ContentInv'
  <2>1. Forget({})
    BY <1>1, <1>2, ForgetNothing
  <2>2. QED BY <1>1, <1>2, <1>4, <2>1, KeepDriver
<1>6. LinearInv'
  <2>1. writePtr \in [Pools -> Nat]
    BY <1>2 DEF LinearInv
  <2>2. writePtr' \in [Pools -> Nat] /\ \A q \in Pools \ {p} : writePtr'[q] = writePtr[q]
    BY <1>1, <2>1
  <2>3. SetsOf(p) = {}
    BY <1>1, <1>2, SetsOfDead
  <2>4. QED BY <1>2, <1>4, <2>2, <2>3, LinearGone
<1>7. SlotInv'
  BY <1>1, <1>2, <1>4, SlotCreated
<1>8. QED BY <1>3, <1>4, <1>5, <1>6, <1>7 DEF IInv

(* Destroying one: its VkDescriptorSets are freed and its sets forgotten.  *)
LEMMA DestroyStep ==
  ASSUME IInv, NEW p \in Pools, VKDestroyDescriptorPool(p)
  PROVE  IInv'
<1>1. /\ p \in alive /\ alive' = alive \ {p} /\ VkFree(p, vkSets[p]) /\ ForgetSetsOf(p)
      /\ UNCHANGED <<uses, writePtr, freeSlots>>
  BY DEF VKDestroyDescriptorPool
<1>2. UsesInv /\ EntryInv /\ VkInv /\ LinearInv /\ SlotInv /\ ContentInv
  BY DEF IInv
<1>3. UsesInv'
  BY <1>1, <1>2 DEF UsesInv
<1>4. EntryInv' /\ Gone(SetsOf(p))
  <2>1. p # NoPool
    BY PoolKinds
  <2>2. QED BY <1>1, <1>2, <2>1, ForgetStep
<1>5. VkInv' /\ ContentInv'
  <2>1. Forget(SetsOf(p))
    BY <1>1 DEF ForgetSetsOf
  <2>2. vkSets[p] = IF p \in On("SETS") THEN {Entry(s).vk : s \in SetsOf(p)} ELSE {}
    BY <1>2 DEF VkInv
  <2>3. QED BY <1>1, <1>2, <1>4, <2>1, <2>2, FreeDriver
<1>6. LinearInv'
  <2>1. writePtr' \in [Pools -> Nat]
    BY <1>1, <1>2 DEF LinearInv
  <2>2. QED BY <1>1, <1>2, <1>4, <2>1, LinearGone
<1>7. SlotInv'
  BY <1>1, <1>2, <1>4, SlotForgotten
<1>8. QED BY <1>3, <1>4, <1>5, <1>6, <1>7 DEF IInv

(* Resetting one: its sets are forgotten, and the write pointer goes back. *)
LEMMA ResetStep ==
  ASSUME IInv, NEW p \in Pools, VKResetDescriptorPool(p)
  PROVE  IInv'
<1>1. /\ p \in alive /\ p \in Of("LINEAR") /\ ForgetSetsOf(p)
      /\ IF p \in On("SETS")
         THEN VkFree(p, vkSets[p]) /\ writePtr' = writePtr
         ELSE /\ writePtr' = [writePtr EXCEPT ![p] = HeapOffset[p]]
              /\ vkSets' = vkSets /\ content' = content
      /\ UNCHANGED <<uses, alive, freeSlots>>
  BY DEF VKResetDescriptorPool
<1>2. UsesInv /\ EntryInv /\ VkInv /\ LinearInv /\ SlotInv /\ ContentInv
  BY DEF IInv
<1>3. UsesInv'
  BY <1>1, <1>2 DEF UsesInv
<1>4. EntryInv' /\ Gone(SetsOf(p))
  <2>1. p # NoPool
    BY PoolKinds
  <2>2. QED BY <1>1, <1>2, <2>1, ForgetStep
<1>5. Forget(SetsOf(p))
  BY <1>1 DEF ForgetSetsOf
<1>6. VkInv' /\ ContentInv'
  <2>1. CASE p \in On("SETS")
    <3>1. vkSets[p] = IF p \in On("SETS") THEN {Entry(s).vk : s \in SetsOf(p)} ELSE {}
      BY <1>2 DEF VkInv
    <3>2. QED BY <1>1, <1>2, <1>4, <1>5, <2>1, <3>1, FreeDriver
  <2>2. CASE p \notin On("SETS")
    BY <1>1, <1>2, <1>4, <1>5, <2>2, KeepDriver
  <2>3. QED BY <2>1, <2>2
<1>7. LinearInv'
  <2>1. writePtr \in [Pools -> Nat] /\ HeapOffset[p] \in Nat
    BY <1>2, PoolNumbers DEF LinearInv
  <2>2. writePtr' \in [Pools -> Nat] /\ \A q \in Pools \ {p} : writePtr'[q] = writePtr[q]
    BY <1>1, <2>1
  <2>3. QED BY <1>2, <1>4, <2>2, LinearGone
<1>8. SlotInv'
  <2>1. p \notin Slotted
    BY <1>1, PoolKinds DEF Slotted
  <2>2. QED BY <1>1, <1>2, <1>4, <2>1, SlotForgotten
<1>9. QED BY <1>3, <1>4, <1>6, <1>7, <1>8 DEF IInv

-----------------------------------------------------------------------------
(* VkDescriptorSets for a list of sets: each gets a fresh one.             *)
LEMMA AllocateSetsStep ==
  ASSUME IInv, NEW p \in Pools, NEW ss \in Seq(Sets),
         \A i, j \in 1 .. Len(ss) : ss[i] = ss[j] => i = j, VKAllocateSets(p, ss)
  PROVE  IInv'
<1> PICK n \in Nat : n = Len(ss)
  OBVIOUS
<1>1. DOMAIN ss = 1 .. n
  OBVIOUS
<1>2. p \in alive /\ p \in On("SETS") /\ UNCHANGED <<uses, alive, writePtr, freeSlots, content>>
  BY DEF VKAllocateSets, pools
<1>3. PICK vk \in [DOMAIN ss -> VkSets \ UNION {vkSets[q] : q \in Pools}] :
        /\ \A i, j \in DOMAIN ss : vk[i] = vk[j] => i = j
        /\ vkSets' = [vkSets EXCEPT ![p] = @ \cup {vk[i] : i \in DOMAIN ss}]
        /\ Return(p, ss, [i \in DOMAIN ss |-> [of |-> p, vk |-> vk[i], offset |-> 0]])
  BY DEF VKAllocateSets
<1> PICK e : e = [i \in 1 .. n |-> [of |-> p, vk |-> vk[i], offset |-> 0]]
  OBVIOUS
<1>4. Return(p, ss, e)
  BY <1>1, <1>3
<1>5. UsesInv /\ EntryInv /\ VkInv /\ LinearInv /\ SlotInv /\ ContentInv
  BY DEF IInv
<1>6. UsesInv'
  BY <1>2, <1>5 DEF UsesInv
<1>7. /\ e \in Seq(Entries) /\ Len(e) = Len(ss)
      /\ \A i \in 1 .. Len(e) : e[i].of = p
      /\ \A i \in DOMAIN ss : e[i].vk = vk[i]
  <2>1. p \in uses
    BY <1>2, <1>5 DEF UsesInv
  <2>2. \A i \in 1 .. n : /\ e[i] \in Entries /\ e[i].of = p /\ e[i].vk = vk[i]
    BY <1>1, <1>3, <2>1 DEF Entries
  <2>3. e \in Seq(Entries) /\ Len(e) = n
    BY <2>2
  <2>4. QED BY <1>1, <2>2, <2>3
<1>8. EntryInv' /\ Gained(p, ss, e)
  <2>1. p # NoPool /\ NullRes \notin Entries
    BY <1>5, PoolKinds, EntriesAreNot
  <2>2. QED BY <1>2, <1>4, <1>5, <1>7, <2>1, ReturnStep
<1>9. VkInv'
  BY <1>2, <1>3, <1>5, <1>7, <1>8, VkGainedSets, ZenonT(60)
<1>10. p \notin Linear /\ p \notin Slotted
  BY <1>2, PoolKinds
<1>11. LinearInv'
  BY <1>2, <1>5, <1>8, <1>10, LinearGained
<1>12. SlotInv'
  BY <1>2, <1>5, <1>8, <1>10, SlotGained
<1>13. ContentInv'
  BY <1>2, <1>5, <1>8, ContentGained
<1>14. QED BY <1>6, <1>8, <1>9, <1>11, <1>12, <1>13 DEF IInv

(* A set in a heap, wherever.                                              *)
LEMMA InHeapStep ==
  ASSUME IInv, NEW p \in alive, p \in On("BUFFER"), NEW s \in Sets, NEW offset \in Nat,
         Return(p, <<s>>, <<InHeap(p, offset)>>), UNCHANGED <<uses, alive, vkSets, content>>
  PROVE  /\ UsesInv' /\ EntryInv' /\ VkInv' /\ ContentInv'
         /\ Gained(p, <<s>>, <<InHeap(p, offset)>>)
<1> PICK x : x = InHeap(p, offset)
  OBVIOUS
<1> PICK ss : ss = <<s>>
  OBVIOUS
<1> PICK e : e = <<x>>
  OBVIOUS
<1>1. UsesInv /\ EntryInv /\ VkInv /\ ContentInv
  BY DEF IInv
<1>2. p \in Pools /\ p \in uses /\ p # NoPool /\ p \notin On("SETS") /\ NullRes \notin Entries
  <2>1. p \in Pools /\ p \in uses
    BY <1>1 DEF UsesInv
  <2>2. QED BY <1>1, <2>1, PoolKinds, EntriesAreNot
<1>3. x \in Entries /\ x.of = p
  BY <1>2 DEF InHeap, Entries
<1>4. /\ ss \in Seq(Sets) /\ e \in Seq(Entries) /\ Len(e) = Len(ss)
      /\ \A i, j \in 1 .. Len(ss) : ss[i] = ss[j] => i = j
      /\ \A i \in 1 .. Len(e) : e[i].of = p
  BY <1>3
<1>5. EntryInv' /\ Gained(p, ss, e)
  <2>1. Return(p, ss, e)
    OBVIOUS
  <2>2. QED BY <1>1, <1>2, <1>4, <2>1, ReturnStep
<1>6. UsesInv'
  BY <1>1 DEF UsesInv
<1>7. VkInv'
  BY <1>1, <1>2, <1>5, VkGainedHeap
<1>8. ContentInv'
  BY <1>1, <1>2, <1>5, ContentGained
<1>9. QED BY <1>5, <1>6, <1>7, <1>8

(* A set at the write pointer of a linear heap.                            *)
LEMMA LinearStep ==
  ASSUME IInv, NEW p \in Pools, NEW s \in Sets, AllocateLinear(p, s)
  PROVE  IInv'
<1> PICK a : a = HeapOffset[p] + writePtr[p]
  OBVIOUS
<1> PICK e : e = <<InHeap(p, a)>>
  OBVIOUS
<1>1. /\ p \in alive /\ p \in Of("LINEAR") /\ p \in On("BUFFER")
      /\ LinearRoom(p) /\ Return(p, <<s>>, <<InHeap(p, a)>>)
      /\ writePtr' = [writePtr EXCEPT ![p] = @ + Stride[p]]
      /\ UNCHANGED <<uses, alive, freeSlots, vkSets, content>>
  BY DEF AllocateLinear
<1>2. UsesInv /\ EntryInv /\ LinearInv /\ SlotInv
  BY DEF IInv
<1>3. a \in Nat
  <2>1. HeapOffset[p] \in Nat /\ writePtr[p] \in Nat
    BY <1>2, PoolNumbers DEF LinearInv
  <2>2. QED BY <2>1
<1>4. UsesInv' /\ EntryInv' /\ VkInv' /\ ContentInv' /\ Gained(p, <<s>>, e)
  BY <1>1, <1>3, InHeapStep
<1>5. p \in Linear /\ p \notin Slotted
  <2>1. p \in Linear
    BY <1>1 DEF Linear
  <2>2. QED BY <2>1, PoolKinds
<1>6. e[1].offset = a
  BY DEF InHeap
<1>7. LinearInv'
  BY <1>1, <1>2, <1>4, <1>5, <1>6, LinearGainedOne
<1>8. SlotInv'
  BY <1>1, <1>2, <1>4, <1>5, SlotGained
<1>9. QED BY <1>4, <1>7, <1>8 DEF IInv

(* A set in the slot that was freed last.                                  *)
LEMMA SlotStep ==
  ASSUME IInv, NEW p \in Pools, NEW s \in Sets, AllocateSlot(p, s)
  PROVE  IInv'
<1> PICK a : a = HeapOffset[p] + LastFreed(p) * Stride[p]
  OBVIOUS
<1> PICK e : e = <<InHeap(p, a)>>
  OBVIOUS
<1>1. /\ p \in alive /\ p \in Of("POOL") /\ p \in On("BUFFER") /\ freeSlots[p] # <<>>
      /\ Return(p, <<s>>, <<InHeap(p, a)>>)
      /\ freeSlots' = [freeSlots EXCEPT ![p] = SubSeq(@, 1, Len(@) - 1)]
      /\ UNCHANGED <<uses, alive, writePtr, vkSets, content>>
  BY DEF AllocateSlot
<1>2. UsesInv /\ EntryInv /\ LinearInv /\ SlotInv
  BY DEF IInv
<1>3. p \in Slotted /\ p \notin Linear
  <2>1. p \in Slotted
    BY <1>1 DEF Slotted
  <2>2. QED BY <2>1, PoolKinds
<1>4. a \in Nat
  <2>1. HeapOffset[p] \in Nat /\ Stride[p] \in Nat
    BY PoolNumbers
  <2>2. freeSlots[p] \in Seq(Nat) /\ IsInjective(freeSlots[p])
    BY <1>1, <1>2, <1>3 DEF SlotInv
  <2> PICK f : f = freeSlots[p]
    OBVIOUS
  <2>3. LastFreed(p) \in Nat
    <3>1. f[Len(f)] \in Nat
      BY <1>1, <2>2, Shorter
    <3>2. QED BY <3>1 DEF LastFreed
  <2>4. QED BY <2>1, <2>3
<1>5. UsesInv' /\ EntryInv' /\ VkInv' /\ ContentInv' /\ Gained(p, <<s>>, e)
  BY <1>1, <1>4, InHeapStep
<1>6. e[1].offset = a
  BY DEF InHeap
<1>7. LinearInv'
  BY <1>1, <1>2, <1>3, <1>5, LinearGained
<1>8. SlotInv'
  BY <1>1, <1>2, <1>3, <1>5, <1>6, SlotGainedOne
<1>9. QED BY <1>5, <1>7, <1>8 DEF IInv

(* A set of a MANUAL pool lies at the start of its heap.                   *)
LEMMA ManualStep ==
  ASSUME IInv, NEW p \in Pools, NEW s \in Sets, AllocateManual(p, s)
  PROVE  IInv'
<1> PICK e : e = <<InHeap(p, 0)>>
  OBVIOUS
<1>1. /\ p \in alive /\ p \in Of("MANUAL") /\ Return(p, <<s>>, <<InHeap(p, 0)>>)
      /\ UNCHANGED <<uses, alive, writePtr, freeSlots, vkSets, content>>
  BY DEF AllocateManual, pools
<1>2. UsesInv /\ EntryInv /\ LinearInv /\ SlotInv
  BY DEF IInv
<1>3. p \notin Slotted /\ p \notin Linear /\ p \in On("BUFFER")
  BY <1>1, PoolKinds, DescriptorAssumption DEF Linear, Slotted
<1>4. UsesInv' /\ EntryInv' /\ VkInv' /\ ContentInv' /\ Gained(p, <<s>>, e)
  BY <1>1, <1>3, InHeapStep
<1>5. LinearInv'
  BY <1>1, <1>2, <1>3, <1>4, LinearGained
<1>6. SlotInv'
  BY <1>1, <1>2, <1>3, <1>4, SlotGained
<1>7. QED BY <1>4, <1>5, <1>6 DEF IInv

(* Freeing a set returns its storage to its pool.                          *)
LEMMA FreeSetStep ==
  ASSUME IInv, NEW p \in Pools, NEW s \in Sets, VKFreeSet(p, s)
  PROVE  IInv'
<1>1. /\ p \in alive /\ p \in Of("POOL") /\ set[s].of = p
      /\ IF p \in On("SETS")
         THEN VkFree(p, {Entry(s).vk}) /\ freeSlots' = freeSlots
         ELSE /\ freeSlots' = [freeSlots EXCEPT ![p] = Append(@, SlotOf(p, Entry(s).offset))]
              /\ vkSets' = vkSets /\ content' = content
      /\ set' = [set EXCEPT ![s] = NoSet] /\ Forget({s})
      /\ setPool' = Freed(setPool, set[s].handle)
      /\ UNCHANGED <<uses, alive, writePtr, left>>
  BY DEF VKFreeSet, ReleaseStorage
<1>2. UsesInv /\ EntryInv /\ VkInv /\ LinearInv /\ SlotInv /\ ContentInv
  BY DEF IInv
<1>3. UsesInv'
  BY <1>1, <1>2 DEF UsesInv
<1>4. s \in Live /\ s \in SetsOf(p)
  <2>1. p # NoPool
    BY PoolKinds
  <2>2. QED BY <1>1, <2>1 DEF Live, SetsOf
<1>5. EntryInv' /\ Gone({s})
  BY <1>1, <1>2, <1>4, FreeStep
<1>6. LinearInv'
  <2>1. writePtr' \in [Pools -> Nat]
    BY <1>1, <1>2 DEF LinearInv
  <2>2. QED BY <1>1, <1>2, <1>5, <2>1, LinearGone
<1>7. CASE p \in On("SETS")
  <2>1. {Entry(s).vk} = IF p \in On("SETS") THEN {Entry(t).vk : t \in {s}} ELSE {}
    BY <1>7
  <2>2. VkInv' /\ ContentInv'
    BY <1>1, <1>2, <1>4, <1>5, <1>7, <2>1, FreeDriver
  <2>3. p \notin Slotted
    BY <1>7, PoolKinds
  <2>4. SlotInv'
    BY <1>1, <1>2, <1>5, <1>7, <2>3, SlotUntouched
  <2>5. QED BY <1>3, <1>5, <1>6, <2>2, <2>4 DEF IInv
<1>8. CASE p \notin On("SETS")
  <2>1. VkInv' /\ ContentInv'
    BY <1>1, <1>2, <1>4, <1>5, <1>8, KeepDriver
  <2>2. p \in Slotted
    BY <1>1, <1>8, PoolKinds DEF Slotted
  <2>3. SlotInv'
    BY <1>1, <1>2, <1>4, <1>5, <1>8, <2>2, SlotFreed
  <2>4. QED BY <1>3, <1>5, <1>6, <2>1, <2>3 DEF IInv
<1>9. QED BY <1>7, <1>8

(* What the client hands to the two functions.                             *)
WritesAre(writes, n) ==
  /\ DOMAIN writes = 1 .. n
  /\ \A i \in 1 .. n : writes[i].set \in Writable /\ writes[i].slot \in Bindings

(* A batch of up to so many writes is a sequence of writes.                *)
LEMMA UpToIs ==
  ASSUME NEW N \in Nat, NEW S, S \subseteq Target, NEW writes \in UpTo(N, S)
  PROVE  \E n \in Nat : WritesAre(writes, n)
<1>1. PICK n \in 1 .. N : writes \in [1 .. n -> OneWrite(S)]
  BY DEF UpTo
<1>2. DOMAIN writes = 1 .. n /\ \A i \in 1 .. n : writes[i] \in OneWrite(S)
  BY <1>1
<1>3. ASSUME NEW w \in OneWrite(S) PROVE w.set \in Writable /\ w.slot \in Bindings
  <2>1. PICK b \in Bindings : w \in [set : S, slot : {b}, view : ViewHandles[b]]
    BY DEF OneWrite
  <2>2. QED BY <2>1 DEF Target
<1>4. n \in Nat /\ WritesAre(writes, n)
  BY <1>2, <1>3 DEF WritesAre
<1>5. QED BY <1>4

(* Writing to sets changes what they hold and nothing else.                *)
LEMMA WriteStep ==
  ASSUME IInv, NEW n \in Nat, NEW writes, DOMAIN writes = 1 .. n,
         \A i \in 1 .. n : writes[i].set \in Writable /\ writes[i].slot \in Bindings,
         NEW G \in SUBSET (1 .. n), \A i \in G : Found(writes[i]) # NoView,
         Apply(writes, G)
  PROVE  IInv'
<1>1. UNCHANGED <<uses, alive, writePtr, freeSlots, vkSets, setPool, set, left>>
  BY DEF Apply, pools
<1>2. UsesInv /\ EntryInv /\ VkInv /\ LinearInv /\ SlotInv /\ ContentInv
  BY DEF IInv
<1>3. ContentInv' /\ Gone({})
  BY <1>2, ContentApply
<1>4. UsesInv'
  BY <1>1, <1>2 DEF UsesInv
<1>5. EntryInv'
  BY <1>1, <1>2, KeepEntries
<1>6. VkInv'
  <2>1. Live' = Live /\ Writable' = Writable /\ \A q : SetsOf(q)' = SetsOf(q)
    BY <1>1 DEF Live, Writable, SetsOf
  <2>2. \A s : Entry(s)' = Entry(s)
    BY <1>1 DEF Entry
  <2>3. QED BY <1>1, <1>2, <2>1, <2>2 DEF VkInv
<1>7. LinearInv'
  <2>1. writePtr' \in [Pools -> Nat]
    BY <1>1, <1>2 DEF LinearInv
  <2>2. QED BY <1>1, <1>2, <1>3, <2>1, LinearGone
<1>8. SlotInv'
  BY <1>1, <1>2, <1>3, SlotUntouched
<1>9. QED BY <1>3, <1>4, <1>5, <1>6, <1>7, <1>8 DEF IInv

-----------------------------------------------------------------------------
(* Before the first call nothing is allocated.                             *)
LEMMA InitIInv == Init => IInv
<1> SUFFICES ASSUME Init PROVE IInv
  OBVIOUS
<1>1. /\ uses \in Programs /\ alive = {} /\ writePtr = [p \in Pools |-> 0]
      /\ freeSlots = [p \in Pools |-> <<>>] /\ vkSets = [p \in Pools |-> {}]
      /\ content = [v \in VkSets |-> Blank] /\ setPool = EmptyPool
      /\ set = [s \in Sets |-> NoSet] /\ left = {}
      /\ meant = [s \in Sets |-> Blank] /\ skipped = {}
  BY DEF Init
<1>2. Live = {} /\ Writable = {}
  BY <1>1 DEF Live, Writable, NoSet
<1>3. UsesInv
  BY <1>1 DEF UsesInv
<1>4. EntryInv
  <2>1. NoSet \in [handle : Handles, of : alive \cup {NoPool}]
    BY GenModAssumption DEF NoSet, InvalidHandle, Handles, Gens
  <2>2. PoolOK(EmptyPool, Entries) /\ Occupied(EmptyPool) = {}
    BY EmptyPoolOK
  <2>3. set \in [Sets -> [handle : Handles, of : alive \cup {NoPool}]]
    BY <1>1, <2>1
  <2>4. Occupied(setPool) = left \cup {set[s].handle.index : s \in Live}
    BY <1>1, <1>2, <2>2
  <2>5. QED BY <1>1, <1>2, <2>2, <2>3, <2>4 DEF EntryInv
<1>5. VkInv
  <2>1. \A p \in On("SETS") : p \in Pools /\ SetsOf(p) = {}
    <3>1. \A p \in Pools : p # NoPool
      BY DescriptorAssumption
    <3>2. QED BY <1>1, <3>1 DEF On, SetsOf, NoSet
  <2>2. vkSets \in [Pools -> SUBSET VkSets] /\ \A p \in Pools : vkSets[p] = {}
    BY <1>1
  <2>3. QED BY <1>2, <2>1, <2>2 DEF VkInv
<1>6. LinearInv
  <2>1. writePtr \in [Pools -> Nat]
    BY <1>1
  <2>2. QED BY <1>2, <2>1 DEF LinearInv
<1>7. SlotInv
  <2>1. freeSlots \in [Pools -> Seq(Nat)]
    BY <1>1
  <2>2. QED BY <1>1, <1>2, <2>1 DEF SlotInv
<1>8. ContentInv
  <2>1. content \in [VkSets -> Contents] /\ meant \in [Sets -> Contents]
    BY <1>1, BlankContents
  <2>2. QED BY <1>1, <1>2, <2>1 DEF ContentInv, DescriptorsAsWritten
<1>9. QED BY <1>3, <1>4, <1>5, <1>6, <1>7, <1>8 DEF IInv

(* A step that changes nothing.                                            *)
LEMMA StutterStep ==
  ASSUME IInv, UNCHANGED vars
  PROVE  IInv'
<1>1. UNCHANGED <<uses, alive, writePtr, freeSlots, vkSets, content, setPool, set, left, meant, skipped>>
  BY DEF vars, pools, history
<1>2. UsesInv /\ EntryInv /\ VkInv /\ LinearInv /\ SlotInv /\ ContentInv
  BY DEF IInv
<1>3. /\ Live' = Live /\ Writable' = Writable /\ \A q : SetsOf(q)' = SetsOf(q)
      /\ \A s : Entry(s)' = Entry(s)
  BY <1>1 DEF Live, Writable, SetsOf, Entry
<1>4. UsesInv'
  BY <1>1, <1>2 DEF UsesInv
<1>5. EntryInv' /\ Gone({})
  BY <1>1, <1>2, KeepEntries
<1>6. VkInv'
  BY <1>1, <1>2, <1>3 DEF VkInv
<1>7. LinearInv'
  <2>1. writePtr' \in [Pools -> Nat]
    BY <1>1, <1>2 DEF LinearInv
  <2>2. QED BY <1>1, <1>2, <1>5, <2>1, LinearGone
<1>8. SlotInv'
  BY <1>1, <1>2, <1>5, SlotUntouched
<1>9. ContentInv'
  <2>1. Forget({})
    BY <1>1, <1>2, ForgetNothing DEF history
  <2>2. content' \in [VkSets -> Contents]
    BY <1>1, <1>2 DEF ContentInv
  <2>3. QED BY <1>1, <1>2, <1>5, <2>1, <2>2, ContentGone
<1>10. QED BY <1>4, <1>5, <1>6, <1>7, <1>8, <1>9 DEF IInv

(* Every call preserves the invariant.                                     *)
LEMMA NextIInv == IInv /\ [Next]_vars => IInv'
<1> SUFFICES ASSUME IInv, [Next]_vars PROVE IInv'
  OBVIOUS
<1>1. CASE UNCHANGED vars
  BY <1>1, StutterStep
<1>2. ASSUME NEW p \in Pools,
             VKCreateDescriptorPool(p) \/ VKDestroyDescriptorPool(p) \/ VKResetDescriptorPool(p)
      PROVE  IInv'
  BY <1>2, CreateStep, DestroyStep, ResetStep
<1>3. ASSUME NEW p \in Pools, NEW s \in Sets, VKAllocateSets(p, <<s>>) PROVE IInv'
  <2> PICK ss : ss = <<s>>
    OBVIOUS
  <2>1. ss \in Seq(Sets) /\ \A i, j \in 1 .. Len(ss) : ss[i] = ss[j] => i = j
    OBVIOUS
  <2>2. VKAllocateSets(p, ss)
    BY <1>3
  <2>3. QED BY <2>1, <2>2, AllocateSetsStep
<1>4. ASSUME NEW p \in Pools, NEW s \in Sets, NEW t \in Sets, s # t, VKAllocateSets(p, <<s, t>>)
      PROVE  IInv'
  <2> PICK ss : ss = <<s, t>>
    OBVIOUS
  <2>1. ss \in Seq(Sets) /\ \A i, j \in 1 .. Len(ss) : ss[i] = ss[j] => i = j
    BY <1>4
  <2>2. VKAllocateSets(p, ss)
    BY <1>4
  <2>3. QED BY <2>1, <2>2, AllocateSetsStep
<1>5. ASSUME NEW p \in Pools, NEW s \in Sets,
             AllocateLinear(p, s) \/ AllocateSlot(p, s) \/ AllocateManual(p, s) \/ VKFreeSet(p, s)
      PROVE  IInv'
  BY <1>5, LinearStep, SlotStep, ManualStep, FreeSetStep
<1>6. ASSUME NEW s \in Target, NEW writes \in UpTo(MaxWrites[set[s].of], {s}),
             VKWriteSet(writes)
      PROVE  IInv'
  <2>0. MaxWrites[set[s].of] \in Nat
    BY DescriptorAssumption DEF Target, Writable, On
  <2>1. PICK n \in Nat : WritesAre(writes, n)
    BY <2>0, UpToIs
  <2>2. PICK G \in SUBSET (1 .. n) :
          (\A i \in G : Found(writes[i]) # NoView) /\ Apply(writes, G)
    BY <1>6, <2>1 DEF VKWriteSet, Supported, WritesAre
  <2>3. QED BY <2>1, <2>2, WriteStep DEF WritesAre
<1>7. ASSUME NEW writes \in UpTo(MaxBatch, Target), VKWriteSets(writes) PROVE IInv'
  <2>1. PICK n \in Nat : WritesAre(writes, n)
    BY UpToIs, DescriptorAssumption
  <2>2. PICK G \in SUBSET (1 .. n) :
          (\A i \in G : Found(writes[i]) # NoView) /\ Apply(writes, G)
    BY <1>7, <2>1 DEF VKWriteSets, Supported, WritesAre
  <2>3. QED BY <2>1, <2>2, WriteStep DEF WritesAre
<1>8. QED BY <1>1, <1>2, <1>3, <1>4, <1>5, <1>6, <1>7 DEF Next

(* The invariant holds in every reachable state.                           *)
LEMMA Invariance == Spec => []IInv
BY InitIInv, NextIInv, PTL DEF Spec

-----------------------------------------------------------------------------
(* Different slots do not overlap, and the last one ends where the region  *)
(* of its pool does.                                                       *)
LEMMA SlotsApart ==
  ASSUME NEW b \in Nat, NEW d \in Nat, NEW j \in Nat, NEW k \in Nat, j < k
  PROVE  b + j * d + d <= b + k * d
<1>1. PICK m \in Nat : k = j + 1 + m
  <2>1. k - j - 1 \in Nat /\ k = j + 1 + (k - j - 1)
    OBVIOUS
  <2>2. QED BY <2>1
<1>2. k * d = j * d + d + m * d
  BY <1>1
<1>3. m * d \in Nat /\ j * d \in Nat
  OBVIOUS
<1>4. QED BY <1>2, <1>3

(* A set of a pool that chooses places lies in the region of its pool.     *)
LEMMA LiesInRegion ==
  ASSUME IInv, NEW s \in Live, set[s].of \in Placed
  PROVE  InRegion(set[s].of, Entry(s).offset)
<1> PICK p : p = set[s].of
  OBVIOUS
<1>1. UsesInv /\ EntryInv /\ LinearInv /\ SlotInv
  BY DEF IInv
<1>2. p \in Pools
  BY <1>1, LiveOf
<1>3. p \in Linear \/ p \in Slotted
  BY <1>2, DescriptorAssumption DEF Placed, Linear, Slotted, On, Of
<1>4. CASE p \in Linear
  BY <1>1, <1>4 DEF LinearInv
<1>5. CASE p \in Slotted
  <2> PICK b \in Nat : b = HeapOffset[p]
    BY <1>2, PoolNumbers
  <2> PICK d \in Nat : d = Stride[p]
    BY <1>2, PoolNumbers
  <2> PICK c \in Nat : c = Capacity[p]
    BY <1>2, PoolNumbers
  <2>1. PICK k \in 0 .. c - 1 : Entry(s).offset = b + k * d
    BY <1>1, <1>5 DEF SlotInv, SlotOffset
  <2>2. b + k * d + d <= b + c * d
    BY SlotsApart
  <2>3. b <= b + k * d
    <3>1. k * d \in Nat
      OBVIOUS
    <3>2. QED BY <3>1
  <2>4. QED BY <2>1, <2>2, <2>3 DEF InRegion
<1>6. QED BY <1>3, <1>4, <1>5

(* Two of them do not overlap, be they of one pool or of two.              *)
LEMMA LieApart ==
  ASSUME IInv, NEW s \in Live, NEW t \in Live, s # t, set[s].of \in Placed, set[t].of \in Placed
  PROVE  Before(Entry(s).offset, set[s].of, Entry(t).offset, set[t].of)
<1> PICK p : p = set[s].of
  OBVIOUS
<1> PICK q : q = set[t].of
  OBVIOUS
<1> PICK x : x = Entry(s).offset
  OBVIOUS
<1> PICK y : y = Entry(t).offset
  OBVIOUS
<1>1. UsesInv /\ EntryInv /\ LinearInv /\ SlotInv
  BY DEF IInv
<1>2. p \in alive /\ q \in alive /\ p \in Pools /\ q \in Pools /\ x \in Nat /\ y \in Nat
  BY <1>1, LiveOf DEF Entries
<1> PICK b \in Nat : b = HeapOffset[p]
  BY <1>2, PoolNumbers
<1> PICK d \in Nat : d = Stride[p]
  BY <1>2, PoolNumbers
<1>3. CASE p # q
  <2>1. InRegion(p, x) /\ InRegion(q, y)
    BY LiesInRegion
  <2>2. p \in uses \cap On("BUFFER") /\ q \in uses \cap On("BUFFER") /\ uses \in Programs
    BY <1>1, <1>2 DEF UsesInv, Placed
  <2>3. \/ HeapOffset[p] + Capacity[p] * Stride[p] <= HeapOffset[q]
        \/ HeapOffset[q] + Capacity[q] * Stride[q] <= HeapOffset[p]
    BY <1>3, <2>2, DescriptorAssumption
  <2> PICK e \in Nat : e = HeapOffset[q]
    BY <1>2, PoolNumbers
  <2> PICK f \in Nat : f = Stride[q]
    BY <1>2, PoolNumbers
  <2> PICK m \in Nat : m = Capacity[p] * Stride[p]
    BY <1>2, PoolNumbers
  <2> PICK n \in Nat : n = Capacity[q] * Stride[q]
    BY <1>2, PoolNumbers
  <2>4. b <= x /\ x + d <= b + m /\ e <= y /\ y + f <= e + n /\ (b + m <= e \/ e + n <= b)
    BY <2>1, <2>3 DEF InRegion
  <2>5. x + d <= y \/ y + f <= x
    BY <1>2, <2>4
  <2>6. QED BY <2>5 DEF Before
<1>4. CASE p = q
  <2>1. p \in Linear \/ p \in Slotted
    BY <1>2, DescriptorAssumption DEF Placed, Linear, Slotted, On, Of
  <2>2. CASE p \in Linear
    BY <1>1, <1>4, <2>2 DEF LinearInv
  <2>3. CASE p \in Slotted
    <3>1. PICK j \in Nat : x = b + j * d
      BY <1>1, <2>3 DEF SlotInv, SlotOffset
    <3>2. PICK k \in Nat : y = b + k * d
      BY <1>1, <1>4, <2>3 DEF SlotInv, SlotOffset
    <3>3. x # y
      BY <1>1, <1>4, <2>3 DEF SlotInv
    <3>4. j < k \/ k < j
      BY <3>1, <3>2, <3>3
    <3>5. x + d <= y \/ y + d <= x
      BY <3>1, <3>2, <3>4, SlotsApart
    <3>6. QED BY <1>4, <3>5 DEF Before
  <2>4. QED BY <2>1, <2>2, <2>3
<1>5. QED BY <1>3, <1>4

(* The typed part of the invariant is the type invariant.                  *)
LEMMA IInvTypeOK == IInv => TypeOK
<1> SUFFICES ASSUME IInv PROVE TypeOK
  OBVIOUS
<1>1. UsesInv /\ EntryInv /\ VkInv /\ LinearInv /\ SlotInv /\ ContentInv
  BY DEF IInv
<1>2. uses \in Programs /\ alive \subseteq uses
  BY <1>1 DEF UsesInv
<1>3. /\ writePtr \in [Pools -> Nat] /\ freeSlots \in [Pools -> Seq(Nat)]
      /\ vkSets \in [Pools -> SUBSET VkSets]
      /\ content \in [VkSets -> Contents] /\ meant \in [Sets -> Contents]
      /\ skipped \subseteq Live \X Bindings
  BY <1>1 DEF LinearInv, SlotInv, VkInv, ContentInv
<1>4. IsPool(setPool, [of : uses, vk : VkSets \cup {NoVkSet}, offset : Nat])
  BY <1>1 DEF EntryInv, PoolOK, Entries
<1>5. \A s \in Sets : set[s].of \in alive \cup {NoPool}
  BY <1>1 DEF EntryInv
<1>6. left \subseteq Slots(setPool)
  BY <1>1 DEF EntryInv, Occupied
<1>7. QED BY <1>2, <1>3, <1>4, <1>5, <1>6 DEF TypeOK

(* Sets own what they lie in: by the write pointers and the free slots.    *)
LEMMA IInvStorage == IInv => SetsOwnStorage
<1> SUFFICES ASSUME IInv PROVE SetsOwnStorage
  OBVIOUS
<1>1. UsesInv /\ EntryInv /\ VkInv
  BY DEF IInv
<1>2. ASSUME NEW s \in Live
      PROVE  /\ IsAlive(setPool, set[s].handle)
             /\ Entry(s) # NullRes /\ Entry(s).of = set[s].of
  <2>1. /\ set[s].handle.index \in Occupied(setPool)
        /\ setPool.gen[set[s].handle.index] = set[s].handle.gen
        /\ Entry(s).of = set[s].of
    BY <1>1 DEF EntryInv
  <2>2. setPool.size \in Nat
    BY <1>1 DEF EntryInv, PoolOK, IsPool
  <2>3. /\ set[s].handle.index < setPool.size /\ set[s].handle.index # 0
        /\ Entry(s) # NullRes
    BY <2>1, <2>2 DEF Occupied, Slots, Entry, Get
  <2>4. set[s].handle # InvalidHandle
    BY <2>3 DEF InvalidHandle
  <2>5. QED BY <2>1, <2>3, <2>4 DEF IsAlive, isValid
<1>3. ASSUME NEW s \in Writable PROVE Entry(s).vk \in vkSets[set[s].of]
  <2>1. set[s].of \in On("SETS") /\ s \in SetsOf(set[s].of)
    BY DEF Writable, Live, SetsOf
  <2>2. QED BY <1>1, <2>1 DEF VkInv
<1>4. \A s, t \in Writable : s # t => Entry(s).vk # Entry(t).vk
  BY <1>1 DEF VkInv
<1>5. ASSUME NEW s \in Live, NEW p \in {set[s].of} \cap Placed
      PROVE  /\ HeapOffset[p] <= Entry(s).offset
             /\ Entry(s).offset + Stride[p] <= HeapOffset[p] + Capacity[p] * Stride[p]
             /\ \A t \in Live \ {s} : \A q \in {set[t].of} \cap Placed :
                  \/ Entry(s).offset + Stride[p] <= Entry(t).offset
                  \/ Entry(t).offset + Stride[q] <= Entry(s).offset
  <2>1. InRegion(p, Entry(s).offset)
    BY LiesInRegion
  <2>2. ASSUME NEW t \in Live \ {s}, NEW q \in {set[t].of} \cap Placed
        PROVE  Before(Entry(s).offset, p, Entry(t).offset, q)
    BY LieApart
  <2>3. QED BY <2>1, <2>2 DEF InRegion, Before
<1>6. QED BY <1>2, <1>3, <1>4, <1>5 DEF SetsOwnStorage

(* What no set owns is still free.                                         *)
LEMMA IInvNothingLost == IInv => NothingLost
<1> SUFFICES ASSUME IInv PROVE NothingLost
  OBVIOUS
<1>1. UsesInv /\ EntryInv /\ VkInv /\ SlotInv
  BY DEF IInv
<1>2. \A p \in alive \cap Of("POOL") \cap On("BUFFER") :
        /\ IsInjective(freeSlots[p])
        /\ Range(freeSlots[p]) =
             (0 .. Capacity[p] - 1) \ {SlotOf(p, Entry(s).offset) : s \in SetsOf(p)}
  BY <1>1, ZenonT(60) DEF SlotInv, Slotted, SlotsOf
<1>3. \A p \in alive \cap On("SETS") : vkSets[p] = {Entry(s).vk : s \in SetsOf(p)}
  BY <1>1 DEF VkInv
<1>4. /\ Occupied(setPool) = left \cup {set[s].handle.index : s \in Live}
      /\ \A s \in Live : set[s].handle.index \notin left
  BY <1>1 DEF EntryInv
<1>5. QED BY <1>2, <1>3, <1>4 DEF NothingLost

-----------------------------------------------------------------------------
(* Pools, entries and contents are what they should be.                    *)
THEOREM TypeCorrect == Spec => []TypeOK
BY Invariance, IInvTypeOK, PTL

(* Every set the client has names storage of its own: a VkDescriptorSet of *)
(* its pool, or a place inside the pool's region, which no other set       *)
(* shares, for any number of pools and sets whose regions the client keeps *)
(* apart, any capacities and strides.                                      *)
THEOREM StorageCorrect == Spec => []SetsOwnStorage
BY Invariance, IInvStorage, PTL

(* No slot, VkDescriptorSet or entry is lost or given out twice, but for   *)
(* the entries of sets whose pool was reset or destroyed.                  *)
THEOREM NothingLostCorrect == Spec => []NothingLost
BY Invariance, IInvNothingLost, PTL

(* What the client wrote last is what a set holds, however many writes a   *)
(* batch has, but for the bindings that a function passes over.            *)
THEOREM WritesCorrect == Spec => []DescriptorsAsWritten
<1>1. IInv => DescriptorsAsWritten
  BY DEF IInv, ContentInv
<1>2. QED BY <1>1, Invariance, PTL
=============================================================================
