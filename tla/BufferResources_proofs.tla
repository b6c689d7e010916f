----------------------- MODULE BufferResources_proofs -----------------------
(***************************************************************************)
(* First, the buffer pool: it stays consistent for every set of client     *)
(* variables and VkBuffers, every width of the generation and any number   *)
(* of sessions, and implements the handle table.                           *)
(*                                                                         *)
(* Then the views and the initial data of buffers, for every set of views, *)
(* ranges and sizes, every alignment and every width of an offset: a view  *)
(* names its buffer, and initial data arrives.                             *)
(***************************************************************************)
EXTENDS BufferResources, Lemmas

-----------------------------------------------------------------------------
(* Buffers alone.                                                          *)

(* The inductive invariant: the three invariants of the runs together.     *)
IInv == TypeOK /\ FreeListIsNullSlots /\ ObjectsOwnedOnce

(* An empty pool satisfies it.                                             *)
LEMMA InitIInv == Init => IInv
<1> SUFFICES ASSUME Init PROVE IInv
  OBVIOUS
<1>1. /\ PoolOK(pool, Objects)
      /\ Occupied(pool) = {}
      /\ Visited(pool) = Slots(pool)
  BY EmptyPoolOK DEF Init
<1>2. held \in [Vars -> [index : Nat, gen : Gens]]
  BY GenModAssumption DEF Init, InvalidHandle, Gens
<1>3. session \in 1 .. Sessions /\ objects \subseteq Objects
  BY BufferAssumption DEF Init
<1>5. wrapped \in BOOLEAN
  BY Zenon DEF Init
<1>4. ObjectsOwnedOnce
  BY <1>1 DEF ObjectsOwnedOnce, NoSharing, Init
<1> QED
  BY <1>1, <1>2, <1>3, <1>4, <1>5
  DEF IInv, TypeOK, FreeListIsNullSlots, PoolOK

(* VKCreateBuffer: the pool takes a VkBuffer no slot holds.                *)
LEMMA CreateStep ==
  ASSUME IInv, NEW v \in Vars, VKCreateBuffer(v)
  PROVE  IInv'
<1>1. PICK o \in Objects \ objects : /\ objects' = objects \cup {o}
                                     /\ pool' = Allocated(pool, o)
  BY DEF VKCreateBuffer
<1>2. PoolOK(pool, Objects) /\ o # NullRes
  BY BufferAssumption DEF IInv, TypeOK, FreeListIsNullSlots, PoolOK
<1> DEFINE s == NewHandle(pool).index
<1>3. /\ PoolOK(pool', Objects)
      /\ s \notin Occupied(pool)
      /\ Occupied(pool') = Occupied(pool) \cup {s}
      /\ \A i \in Occupied(pool) : pool'.res[i] = pool.res[i]
      /\ pool'.res[s] = o
      /\ s \in Nat
      /\ NewHandle(pool).gen \in Gens
      /\ NewHandle(pool).gen # 0 /\ Visited(pool) = Slots(pool) =>
            Visited(pool') = Slots(pool')
  <2>1. pool.size \in Nat /\ \A i \in Slots(pool) : i \in Nat /\ i # pool.size
    BY <1>2 DEF PoolOK, IsPool, Slots
  <2>2. CASE pool.free = <<>>
    <3>1. s = pool.size
      BY <2>2 DEF NewHandle
    <3> QED
      BY <1>1, <1>2, <2>1, <2>2, <3>1, AllocatedPush DEF Occupied
  <2>3. CASE pool.free # <<>>
    <3>1. s = PoppedSlot(pool)
      BY <2>3 DEF NewHandle
    <3>2. /\ PoolOK(Allocated(pool, o), Objects)
          /\ s \in Slots(pool) \ Occupied(pool)
          /\ NewHandle(pool).gen \in Gens
          /\ Occupied(Allocated(pool, o)) = Occupied(pool) \cup {s}
          /\ \A i \in Slots(pool) \ {s} :
               Allocated(pool, o).res[i] = pool.res[i]
          /\ Allocated(pool, o).res[s] = o
          /\ NewHandle(pool).gen # 0 /\ Visited(pool) = Slots(pool) =>
                Visited(Allocated(pool, o)) = Slots(Allocated(pool, o))
      BY <1>2, <2>3, <3>1, AllocatedPop
    <3> QED
      BY <1>1, <2>1, <3>2 DEF Occupied
  <2> QED
    BY <2>2, <2>3
<1>4. held' \in [Vars -> [index : Nat, gen : Gens]]
  <2>1. NewHandle(pool) = [index |-> NewHandle(pool).index,
                           gen   |-> NewHandle(pool).gen]
    BY DEF NewHandle
  <2>2. NewHandle(pool) \in [index : Nat, gen : Gens]
    BY <1>3, <2>1
  <2> QED
    BY <2>2 DEF VKCreateBuffer, IInv, TypeOK
<1>5. /\ wrapped' \in BOOLEAN
      /\ ~ wrapped' => ~ wrapped /\ NewHandle(pool).gen # 0
  <2>1. wrapped' = (wrapped \/ NewHandle(pool).gen = 0)
    BY DEF VKCreateBuffer
  <2> QED
    BY <2>1, Zenon
<1>6. NoSharing(pool)'
  <2>1. \A i \in Occupied(pool) : pool'.res[i] # o
    BY <1>1, <1>3 DEF IInv, ObjectsOwnedOnce
  <2> QED
    BY <1>3, <2>1 DEF NoSharing, IInv, ObjectsOwnedOnce
<1>7. objects' \subseteq Objects /\ session' \in 1 .. Sessions
  BY <1>1 DEF VKCreateBuffer, IInv, TypeOK
<1>8. {pool'.res[i] : i \in Occupied(pool')} \subseteq objects'
  BY <1>1, <1>3 DEF IInv, ObjectsOwnedOnce
<1>9. ASSUME ~ wrapped'
      PROVE  /\ objects' \subseteq {pool'.res[i] : i \in Occupied(pool')}
             /\ Visited(pool') = Slots(pool')
  <2>1. /\ objects \subseteq {pool.res[i] : i \in Occupied(pool)}
        /\ Visited(pool) = Slots(pool)
    BY <1>5, <1>9, Zenon DEF IInv, ObjectsOwnedOnce, TypeOK
  <2>2. NewHandle(pool).gen # 0
    BY <1>5, <1>9
  <2> QED
    BY <1>1, <1>3, <2>1, <2>2
<1> HIDE DEF s
<1> QED
  BY <1>3, <1>4, <1>5, <1>6, <1>7, <1>8, <1>9
  DEF IInv, TypeOK, FreeListIsNullSlots, ObjectsOwnedOnce, PoolOK

(* VKDestroyBuffer: the handle resolves to an occupied slot, so the slot   *)
(* is not on the free list yet and its VkBuffer is in no other slot.       *)
LEMMA DestroyStep ==
  ASSUME IInv, NEW v \in Vars, VKDestroyBuffer(v)
  PROVE  IInv'
<1> DEFINE h == held[v]
           s == held[v].index
<1>1. PoolOK(pool, Objects)
  BY DEF IInv, TypeOK, FreeListIsNullSlots, PoolOK
<1>2. s \in Occupied(pool)
  <2>1. s \in Nat /\ s < pool.size /\ pool.res[s] # NullRes
    BY DEF VKDestroyBuffer, IsAlive, Get, IInv, TypeOK
  <2>2. pool.size \in Nat /\ pool.res[0] = NullRes
    BY <1>1 DEF PoolOK, IsPool
  <2> QED
    BY <2>1, <2>2 DEF Occupied, Slots
<1>3. /\ PoolOK(pool', Objects)
      /\ Occupied(pool') = Occupied(pool) \ {s}
      /\ \A i \in Occupied(pool') : pool'.res[i] = pool.res[i]
      /\ Slots(pool') = Slots(pool)
      /\ Visited(pool') = Visited(pool)
  BY <1>1, <1>2, FreedOK DEF VKDestroyBuffer, Occupied
<1>4. objects' = objects \ {pool.res[s]}
  BY DEF VKDestroyBuffer, Get
<1>5. /\ {pool'.res[i] : i \in Occupied(pool')} \subseteq objects'
      /\ ~ wrapped' => objects' \subseteq {pool'.res[i] : i \in Occupied(pool')}
  BY <1>2, <1>3, <1>4 DEF VKDestroyBuffer, IInv, ObjectsOwnedOnce, NoSharing
<1>6. NoSharing(pool)'
  BY <1>3 DEF NoSharing, IInv, ObjectsOwnedOnce
<1>7. /\ objects' \subseteq Objects
      /\ session' \in 1 .. Sessions
      /\ held' \in [Vars -> [index : Nat, gen : Gens]]
      /\ wrapped' \in BOOLEAN
      /\ ~ wrapped' => Visited(pool') = Slots(pool')
  BY <1>3, <1>4, GenModAssumption
  DEF VKDestroyBuffer, IInv, TypeOK, InvalidHandle, Gens
<1> HIDE DEF h, s
<1> QED
  BY <1>3, <1>5, <1>6, <1>7
  DEF IInv, TypeOK, FreeListIsNullSlots, ObjectsOwnedOnce, PoolOK

(* Shutdown: ForEach visits every slot unless a generation has wrapped, so *)
(* everything a slot holds is destroyed, and nothing else is alive.        *)
LEMMA ShutdownStep ==
  ASSUME IInv, Shutdown
  PROVE  IInv'
<1>1. /\ PoolOK(pool', Objects)
      /\ Occupied(pool') = {}
      /\ Visited(pool') = Slots(pool')
  BY EmptyPoolOK DEF Shutdown
<1>2. ~ wrapped' => objects' = {}
  <2>1. ~ wrapped => Occupied(pool) \subseteq Visited(pool)
    BY DEF IInv, TypeOK, Occupied
  <2> QED
    BY <2>1 DEF Shutdown, IInv, ObjectsOwnedOnce
<1>3. /\ session' \in 1 .. Sessions
      /\ objects' \subseteq Objects
      /\ wrapped' \in BOOLEAN
  BY BufferAssumption DEF Shutdown, IInv, TypeOK
<1>4. ObjectsOwnedOnce'
  BY <1>1, <1>2 DEF ObjectsOwnedOnce, NoSharing
<1> QED
  BY <1>1, <1>2, <1>3, <1>4
  DEF IInv, TypeOK, FreeListIsNullSlots, PoolOK, Shutdown

(* So it is inductive.                                                     *)
LEMMA NextIInv == IInv /\ [Next]_vars => IInv'
<1> SUFFICES ASSUME IInv, [Next]_vars PROVE IInv'
  OBVIOUS
<1>1. ASSUME NEW v \in Vars, VKCreateBuffer(v) PROVE IInv'
  BY <1>1, CreateStep
<1>2. ASSUME NEW v \in Vars, VKCreateBufferFails(v) PROVE IInv'
  <2>1. held' \in [Vars -> [index : Nat, gen : Gens]]
    BY <1>2, GenModAssumption
    DEF VKCreateBufferFails, IInv, TypeOK, InvalidHandle, Gens
  <2> QED
    BY <1>2, <2>1 DEF VKCreateBufferFails, IInv, TypeOK,
                      FreeListIsNullSlots, ObjectsOwnedOnce
<1>3. ASSUME NEW v \in Vars, VKDestroyBuffer(v) PROVE IInv'
  BY <1>3, DestroyStep
<1>4. ASSUME NEW v \in Vars, NEW w \in Vars, CopyHandle(v, w) PROVE IInv'
  BY <1>4 DEF CopyHandle, IInv, TypeOK, FreeListIsNullSlots, ObjectsOwnedOnce
<1>5. CASE Shutdown
  BY <1>5, ShutdownStep
<1>6. CASE UNCHANGED vars
  BY <1>6 DEF vars, IInv, TypeOK, FreeListIsNullSlots, ObjectsOwnedOnce
<1> QED
  BY <1>1, <1>2, <1>3, <1>4, <1>5, <1>6 DEF Next

(* The pool and the client's handles keep their types.                     *)
THEOREM TypeCorrect == Spec => []TypeOK
<1>1. IInv => TypeOK
  BY DEF IInv
<1> QED
  BY <1>1, InitIInv, NextIInv, PTL DEF Spec

(* The free list of g_BufferPool is exactly its null slots, each once.     *)
THEOREM FreeListCorrect == Spec => []FreeListIsNullSlots
<1>1. IInv => FreeListIsNullSlots
  BY DEF IInv
<1> QED
  BY <1>1, InitIInv, NextIInv, PTL DEF Spec

(* Each VkBuffer alive sits in one slot, each occupied slot holds one.     *)
THEOREM OwnershipCorrect == Spec => []ObjectsOwnedOnce
<1>1. IInv => ObjectsOwnedOnce
  BY DEF IInv
<1> QED
  BY <1>1, InitIInv, NextIInv, PTL DEF Spec

-----------------------------------------------------------------------------
(* The handles that name something in a pool, what they name, and those it *)
(* has issued.                                                             *)
Live(p) == {[index |-> i, gen |-> p.gen[i]] : i \in Occupied(p)}

TableOf(p) == [h \in Live(p) |-> p.res[h.index]]

IssuedOf(p) == UNION {{[index |-> i, gen |-> g] : g \in 1 .. p.gen[i]} :
                        i \in Slots(p)}

(* The mapped table, before and after a step.                              *)
LEMMA TableIs == tableBar = TableOf(pool) /\ tableBar' = TableOf(pool')
BY DEF tableBar, TableOf, Live

(* The handles mapped to issued ones, before and after a step.             *)
LEMMA IssuedIs == issuedBar = IssuedOf(pool) /\ issuedBar' = IssuedOf(pool')
BY DEF issuedBar, IssuedOf

(* A handle is issued if its slot has had its generation.                  *)
LEMMA InIssued ==
  ASSUME NEW p, NEW h
  PROVE  h \in IssuedOf(p) <=> \E i \in Slots(p) : \E g \in 1 .. p.gen[i] :
                                 h = [index |-> i, gen |-> g]
BY DEF IssuedOf

(* Below the wrap a reused slot gets the next generation.                  *)
LEMMA NextGen ==
  ASSUME NEW g \in Gens, (g + 1) % GenMod # 0
  PROVE  (g + 1) % GenMod = g + 1
<1>1. g \in Int /\ GenMod \in Int /\ GenMod > 1 /\ 0 <= g /\ g < GenMod
  BY GenModAssumption DEF Gens
<1>2. ASSUME NEW m \in Int, m > 1 PROVE m % m = 0
  BY <1>2
<1>3. ASSUME NEW a \in Int, NEW m \in Int, 0 <= a, a < m PROVE a % m = a
  BY <1>3
<1>4. g + 1 # GenMod
  BY <1>1, <1>2
<1> QED
  BY <1>1, <1>3, <1>4

(* What an allocation adds to the handles issued is the one it returns.    *)
LEMMA IssuesNewHandle ==
  ASSUME NEW p, PoolOK(p, Objects), NEW o \in Objects, NewHandle(p).gen # 0
  PROVE  /\ NewHandle(p) \notin IssuedOf(p)
         /\ IssuedOf(Allocated(p, o)) = IssuedOf(p) \cup {NewHandle(p)}
<1> DEFINE q == Allocated(p, o)
           h == NewHandle(p)
<1>1. /\ p.size \in Nat \ {0}
      /\ p.gen \in [0 .. p.size - 1 -> Gens]
      /\ p.free \in Seq(Slots(p))
  BY DEF PoolOK, IsPool
<1>2. \A i \in Slots(p) : p.gen[i] \in Gens /\ p.gen[i] \in Nat
  BY <1>1 DEF Slots, Gens
<1>3. CASE p.free = <<>>
  <2>1. /\ h = [index |-> p.size, gen |-> 1]
        /\ Slots(q) = Slots(p) \cup {p.size}
        /\ p.size \notin Slots(p)
        /\ q.gen[p.size] = 1
        /\ \A i \in Slots(p) : q.gen[i] = p.gen[i]
    BY <1>1, <1>3 DEF Allocated, NewHandle, Slots
  <2> HIDE DEF h, q
  <2>2. h \notin IssuedOf(p)
    BY <2>1, InIssued
  <2>3. ASSUME NEW x PROVE x \in IssuedOf(q) <=> x \in IssuedOf(p) \/ x = h
    <3>1. x \in IssuedOf(q) <=> \E i \in Slots(q) : \E g \in 1 .. q.gen[i] :
                                  x = [index |-> i, gen |-> g]
      BY InIssued
    <3>2. x \in IssuedOf(p) <=> \E i \in Slots(p) : \E g \in 1 .. p.gen[i] :
                                  x = [index |-> i, gen |-> g]
      BY InIssued
    <3>3. \A g : g \in 1 .. 1 <=> g = 1
      OBVIOUS
    <3> QED
      BY <2>1, <3>1, <3>2, <3>3
  <2> QED
    BY <2>2, <2>3 DEF h, q
<1>4. CASE p.free # <<>>
  <2> DEFINE s == PoppedSlot(p)
  <2>1. s \in Slots(p)
    BY <1>1, <1>4 DEF PoppedSlot
  <2>2. h.index = s /\ h.gen = (p.gen[s] + 1) % GenMod
    BY <1>4 DEF NewHandle
  <2>3. /\ h = [index |-> s, gen |-> p.gen[s] + 1]
        /\ q.gen = [p.gen EXCEPT ![s] = p.gen[s] + 1]
        /\ Slots(q) = Slots(p)
    BY <1>2, <1>4, <2>1, <2>2, NextGen DEF Allocated, NewHandle, Slots
  <2>4. /\ q.gen[s] = p.gen[s] + 1
        /\ \A i \in Slots(p) \ {s} : q.gen[i] = p.gen[i]
    BY <1>1, <2>1, <2>3 DEF Slots
  <2> HIDE DEF h, q, s
  <2>5. h \notin IssuedOf(p)
    BY <1>2, <2>1, <2>3, InIssued
  <2>6. ASSUME NEW x PROVE x \in IssuedOf(q) <=> x \in IssuedOf(p) \/ x = h
    <3>1. x \in IssuedOf(q) <=> \E i \in Slots(q) : \E g \in 1 .. q.gen[i] :
                                  x = [index |-> i, gen |-> g]
      BY InIssued
    <3>2. x \in IssuedOf(p) <=> \E i \in Slots(p) : \E g \in 1 .. p.gen[i] :
                                  x = [index |-> i, gen |-> g]
      BY InIssued
    <3>3. \A g : g \in 1 .. q.gen[s] <=> g \in 1 .. p.gen[s] \/ g = p.gen[s] + 1
      BY <1>2, <2>1, <2>4
    <3> QED
      BY <2>1, <2>3, <2>4, <3>1, <3>2, <3>3
  <2> QED
    BY <2>5, <2>6 DEF h, q
<1> QED
  BY <1>3, <1>4

(* A creation adds an entry for a VkBuffer that no other handle names.     *)
LEMMA CreateImplements ==
  ASSUME IInv, NEW v \in Vars, VKCreateBuffer(v), ~ wrapped'
  PROVE  HT!Create(v)
<1> DEFINE h == NewHandle(pool)
<1>1. PICK o \in Objects \ objects : pool' = Allocated(pool, o)
  BY DEF VKCreateBuffer
<1>2. /\ PoolOK(pool, Objects) /\ o # NullRes
      /\ held \in [Vars -> [index : Nat, gen : Gens]]
  BY BufferAssumption DEF IInv, TypeOK, FreeListIsNullSlots, PoolOK
<1>3. h.gen # 0
  <2>1. wrapped' = (wrapped \/ h.gen = 0)
    BY DEF VKCreateBuffer
  <2> QED
    BY <2>1, Zenon
<1>4. held' = [held EXCEPT ![v] = h] /\ held'[v] = h
  BY <1>2 DEF VKCreateBuffer
<1>5. /\ h \in [index : Nat, gen : Gens]
      /\ h.index \notin Occupied(pool)
      /\ Occupied(pool') = Occupied(pool) \cup {h.index}
      /\ \A i \in Occupied(pool) : /\ pool'.res[i] = pool.res[i]
                                   /\ pool'.gen[i] = pool.gen[i]
      /\ pool'.res[h.index] = o
      /\ pool'.gen[h.index] = h.gen
  BY <1>1, <1>2, AllocatedOK
<1>6. h \notin issuedBar /\ issuedBar' = issuedBar \cup {h}
  BY <1>1, <1>2, <1>3, IssuesNewHandle, IssuedIs
<1> HIDE DEF h
<1>7. DOMAIN tableBar = Live(pool) /\ tableBar' = TableOf(pool')
  BY TableIs DEF TableOf
<1>8. Live(pool') = Live(pool) \cup {h}
  <2>1. h = [index |-> h.index, gen |-> h.gen]
    BY <1>5
  <2>2. Live(pool') = {[index |-> i, gen |-> pool'.gen[i]] :
                         i \in Occupied(pool) \cup {h.index}}
    BY <1>5 DEF Live
  <2> QED
    BY <1>5, <2>1, <2>2 DEF Live
<1>9. ASSUME NEW k \in Live(pool)
      PROVE  /\ k # h
             /\ tableBar[k] = pool.res[k.index]
             /\ tableBar[k] # o
             /\ pool'.res[k.index] = tableBar[k]
  <2>1. k.index \in Occupied(pool)
    BY DEF Live
  <2>2. pool.res[k.index] \in objects
    BY <2>1 DEF IInv, ObjectsOwnedOnce
  <2> QED
    BY <1>5, <2>1, <2>2, TableIs DEF TableOf
<1>10. tableBar' = [k \in DOMAIN tableBar \cup {h} |->
                      IF k = h THEN o ELSE tableBar[k]]
  BY <1>5, <1>7, <1>8, <1>9 DEF TableOf
<1>11. \E x \in Objects :
         /\ \A k \in DOMAIN tableBar : tableBar[k] # x
         /\ tableBar' = [k \in DOMAIN tableBar \cup {held'[v]} |->
                           IF k = held'[v] THEN x ELSE tableBar[k]]
  <2>1. \A k \in DOMAIN tableBar : tableBar[k] # o
    BY <1>7, <1>9
  <2> QED
    BY <1>4, <1>10, <2>1, Zenon
<1>12. /\ held'[v] \in [index : Nat, gen : Gens]
       /\ held'[v] \notin issuedBar
       /\ issuedBar' = issuedBar \cup {held'[v]}
       /\ held' = [held EXCEPT ![v] = held'[v]]
  BY <1>4, <1>5, <1>6
<1> QED
  BY <1>11, <1>12, Zenon DEF HT!Create

(* A destruction removes the entry of its handle.                          *)
LEMMA DestroyImplements ==
  ASSUME IInv, NEW v \in Vars, VKDestroyBuffer(v)
  PROVE  HT!Destroy(v)
<1> DEFINE h == held[v]
<1>1. /\ PoolOK(pool, Objects)
      /\ h \in [index : Nat, gen : Gens]
      /\ pool' = Freed(pool, h)
      /\ held' = [held EXCEPT ![v] = InvalidHandle]
      /\ IsAlive(pool, h) /\ Get(pool, h) # NullRes
  BY DEF VKDestroyBuffer, IInv, TypeOK, FreeListIsNullSlots, PoolOK
<1> HIDE DEF h
<1>2. h.index \in Occupied(pool) /\ pool.gen[h.index] = h.gen
  BY <1>1, NamesOccupied
<1>3. /\ Slots(pool') = Slots(pool)
      /\ Occupied(pool') = Occupied(pool) \ {h.index}
      /\ \A i \in Occupied(pool') : pool'.res[i] = pool.res[i]
      /\ pool'.gen = pool.gen
  <2>1. pool'.gen = pool.gen
    BY <1>1 DEF Freed
  <2> QED
    BY <1>1, <1>2, <2>1, FreedOK DEF Occupied
<1>4. issuedBar' = issuedBar
  BY <1>3, IssuedIs DEF IssuedOf
<1>5. DOMAIN tableBar = Live(pool) /\ tableBar' = TableOf(pool')
  BY TableIs DEF TableOf
<1>6. h = [index |-> h.index, gen |-> h.gen]
  BY <1>1
<1>7. h \in Live(pool) /\ Live(pool') = Live(pool) \ {h}
  BY <1>2, <1>3, <1>6 DEF Live
<1>8. ASSUME NEW k \in Live(pool')
      PROVE  pool'.res[k.index] = tableBar[k]
  <2>1. k.index \in Occupied(pool') /\ k \in Live(pool)
    BY <1>7 DEF Live
  <2> QED
    BY <1>3, <2>1, TableIs DEF TableOf
<1>9. tableBar' = [k \in DOMAIN tableBar \ {h} |-> tableBar[k]]
  BY <1>5, <1>7, <1>8 DEF TableOf
<1> QED
  BY <1>1, <1>4, <1>5, <1>7, <1>9 DEF HT!Destroy, h

(* The initial state maps to an initial state.                             *)
LEMMA InitImplements == Init => HT!Init
<1> SUFFICES ASSUME Init PROVE HT!Init
  OBVIOUS
<1>1. Occupied(pool) = {} /\ Slots(pool) = {}
  BY EmptyPoolOK DEF Init, EmptyPool, Slots
<1>2. tableBar = [h \in {} |-> InvalidHandle]
  BY <1>1, TableIs DEF TableOf, Live
<1>3. issuedBar = {}
  BY <1>1, IssuedIs DEF IssuedOf
<1>4. (session = 1 /\ ~ wrapped) = TRUE
  BY DEF Init
<1> QED
  BY <1>2, <1>3, <1>4 DEF HT!Init, Init

(* Each step maps to one of the table, or to its promise lapsing.          *)
LEMMA NextImplements == IInv /\ [Next]_vars => [HT!Next]_(HT!vars)
<1> SUFFICES ASSUME IInv, [Next]_vars PROVE [HT!Next]_(HT!vars)
  OBVIOUS
<1>1. CASE ~ (session' = 1 /\ ~ wrapped')
  BY <1>1 DEF HT!Next, HT!Lapse
<1>2. CASE session' = 1 /\ ~ wrapped'
  <2>1. session \in Nat /\ session > 0 /\ wrapped \in BOOLEAN
    BY BufferAssumption DEF IInv, TypeOK
  <2>2. ASSUME UNCHANGED session, ~ wrapped
        PROVE  (session' = 1 /\ ~ wrapped') = (session = 1 /\ ~ wrapped)
    BY <1>2, <2>2
  <2>3. ASSUME NEW v \in Vars, VKCreateBuffer(v) PROVE HT!Next
    <3>1. HT!Create(v)
      BY <1>2, <2>3, CreateImplements
    <3>2. UNCHANGED session /\ wrapped' = (wrapped \/ NewHandle(pool).gen = 0)
      BY <2>3 DEF VKCreateBuffer
    <3>3. ~ wrapped
      BY <1>2, <3>2, Zenon
    <3> QED
      BY <2>2, <3>1, <3>2, <3>3 DEF HT!Next
  <2>4. ASSUME NEW v \in Vars, VKDestroyBuffer(v) PROVE HT!Next
    <3>1. HT!Destroy(v)
      BY <2>4, DestroyImplements
    <3>2. UNCHANGED session /\ ~ wrapped
      BY <1>2, <2>4 DEF VKDestroyBuffer
    <3> QED
      BY <2>2, <3>1, <3>2 DEF HT!Next
  <2>5. ASSUME UNCHANGED pool PROVE UNCHANGED <<tableBar, issuedBar>>
    BY <2>5, TableIs, IssuedIs
  <2>6. ASSUME NEW v \in Vars, VKCreateBufferFails(v) PROVE HT!Next
    <3>1. HT!CreateFails(v)
      BY <2>5, <2>6 DEF VKCreateBufferFails, HT!CreateFails
    <3>2. UNCHANGED session /\ ~ wrapped
      BY <1>2, <2>6 DEF VKCreateBufferFails
    <3> QED
      BY <2>2, <3>1, <3>2 DEF HT!Next
  <2>7. ASSUME NEW v \in Vars, NEW w \in Vars, CopyHandle(v, w) PROVE HT!Next
    <3>1. HT!Copy(v, w)
      BY <2>5, <2>7 DEF CopyHandle, HT!Copy
    <3>2. UNCHANGED session /\ ~ wrapped
      BY <1>2, <2>7 DEF CopyHandle
    <3> QED
      BY <2>2, <3>1, <3>2 DEF HT!Next
  <2>8. ~ Shutdown
    BY <1>2, <2>1 DEF Shutdown
  <2>9. ASSUME UNCHANGED vars PROVE UNCHANGED HT!vars
    <3>1. UNCHANGED <<tableBar, issuedBar>>
      BY <2>5, <2>9 DEF vars
    <3>2. UNCHANGED <<held, session>> /\ ~ wrapped
      BY <1>2, <2>9 DEF vars
    <3> QED
      BY <2>2, <3>1, <3>2 DEF HT!vars
  <2> QED
    BY <2>3, <2>4, <2>6, <2>7, <2>8, <2>9 DEF Next
<1> QED
  BY <1>1, <1>2

(* Buffers implement the abstract handle table: in the first session and   *)
(* below the wrap a handle names its own VkBuffer until a copy of it is    *)
(* destroyed, and nothing afterwards.                                      *)
THEOREM Implementation == Spec => HandleTableSpec
<1>1. Init => IInv
  BY InitIInv
<1>2. IInv /\ [Next]_vars => IInv'
  BY NextIInv
<1> QED
  BY <1>1, <1>2, InitImplements, NextImplements, PTL
  DEF Spec, HandleTableSpec, HT!Spec

-----------------------------------------------------------------------------
(* Buffers with views and initial data.                                    *)

(* The buffers themselves behave as BufferHandles says.                    *)
LEMMA InitIsInit == AllInit => Init
BY DEF AllInit

(* A step of the composition is one of the buffers or a stutter.           *)
LEMMA StepIsStep == [AllNext]_allVars => [Next]_vars
<1> SUFFICES ASSUME [AllNext]_allVars PROVE [Next]_vars
  OBVIOUS
<1>1. CASE BufferStep
  <2>1. ASSUME NEW v \in Vars, CreateEmpty(v) PROVE Next
    BY <2>1 DEF CreateEmpty, Next
  <2>2. ASSUME NEW v \in Vars, DestroyBuffer(v) PROVE Next
    BY <2>2 DEF DestroyBuffer, Next
  <2>3. ASSUME NEW v \in Vars, NEW w \in Vars,
               CopyBufferHandle(v, w) \/ CreateFails(v)
        PROVE  Next
    BY <2>3 DEF CopyBufferHandle, CreateFails, Next
  <2>4. CASE ShutdownAll
    BY <2>4 DEF ShutdownAll, Next
  <2> QED
    BY <1>1, <2>1, <2>2, <2>3, <2>4 DEF BufferStep
<1>2. CASE ViewStep
  <2>1. ASSUME NEW v \in Vars, NEW r \in Ranges, NEW w \in ViewVars,
               VKCreateBufferView(v, r, w)
        PROVE  UNCHANGED vars
    BY <2>1 DEF VKCreateBufferView
  <2>2. ASSUME NEW w \in ViewVars,
               VKCreateBufferViewFails(w) \/ VKDestroyBufferView(w)
        PROVE  UNCHANGED vars
    BY <2>2 DEF VKCreateBufferViewFails, VKDestroyBufferView
  <2> QED
    BY <1>2, <2>1, <2>2 DEF ViewStep
<1>3. CASE DataStep
  <2>1. ASSUME NEW v \in Vars, NEW size \in Sizes,
               CreateMapped(v) \/ CreateGpuOnly(v, size)
        PROVE  Next
    BY <2>1 DEF CreateMapped, CreateGpuOnly, Next
  <2>2. ASSUME NEW v \in Vars, CreateMapped(v) PROVE Next
    BY <2>2 DEF CreateMapped, Next
  <2>3. CASE VKFlushUploads \/ VKFlushNothing
    BY <2>3 DEF VKFlushUploads, VKFlushNothing
  <2> QED
    BY <1>3, <2>1, <2>2, <2>3 DEF DataStep
<1>4. CASE UNCHANGED allVars
  BY <1>4 DEF allVars
<1> QED
  BY <1>1, <1>2, <1>3, <1>4 DEF AllNext

(* Views and uploads change nothing about the buffers: what is proved of   *)
(* BufferHandles holds here.                                               *)
THEOREM BuffersUnchanged == AllSpec => Spec
  BY InitIsInit, StepIsStep, PTL DEF AllSpec, Spec

(* So buffers, with all that hangs on them, implement the handle table.    *)
THEOREM TableImplemented == AllSpec => HandleTableSpec
  BY BuffersUnchanged, Implementation, PTL

(* The invariant of the buffers, which the steps below rely on.            *)
LEMMA BufferInvariance == AllSpec => []IInv
  BY BuffersUnchanged, InitIInv, NextIInv, PTL DEF Spec

-----------------------------------------------------------------------------
(* Views.  Within a session the cache only grows, so whoever holds a view  *)
(* handle holds what the cache has for its description; and no two         *)
(* descriptions were given the same handle.                                *)

Descs == [index : Nat, gen : Gens] \X Ranges

ViewPoolOK ==
  /\ IsPool(viewPool, Descs)
  /\ \A i \in Slots(viewPool) : viewPool.gen[i] \in 1 .. MaxViewGen

(* Every handle in the cache was issued: its slot is there and has reached *)
(* the generation of the handle.                                           *)
CacheIssued ==
  \A d \in DOMAIN cache :
    /\ cache[d] \in [index : Slots(viewPool), gen : Nat]
    /\ cache[d].gen <= viewPool.gen[cache[d].index]

CacheOneToOne ==
  \A d, e \in DOMAIN cache : cache[d] = cache[e] => d = e

OccupiedCached ==
  \A i \in Occupied(viewPool) :
    /\ viewPool.res[i] \in DOMAIN cache
    /\ cache[viewPool.res[i]] = [index |-> i, gen |-> viewPool.gen[i]]

HeldCached ==
  /\ viewHeld = [w \in ViewVars |-> viewHeld[w]]
  /\ \A w \in ViewVars :
       LET x == viewHeld[w]
       IN  /\ x.session \in 0 .. session
           /\ x.handle = InvalidHandle \/ x.handle.index \in Nat \ {0}
           /\ x.session = session =>
                x.of \in DOMAIN cache /\ x.handle = cache[x.of]

ViewInv ==
  ViewPoolOK /\ CacheIssued /\ CacheOneToOne /\ OccupiedCached /\ HeldCached

(* The session is a number, and so is the bound on generations.            *)
LEMMA SessionType == IInv => session \in Nat \ {0}
BY BufferAssumption DEF IInv, TypeOK

(* Without views there is nothing to show.                                 *)
LEMMA NoViews ==
  ASSUME viewPool = EmptyPool, cache = [k \in {} |-> InvalidHandle]
  PROVE  ViewPoolOK /\ CacheIssued /\ CacheOneToOne /\ OccupiedCached
<1>1. PoolOK(viewPool, Descs) /\ Occupied(viewPool) = {} /\ Slots(viewPool) = {}
  BY EmptyPoolOK DEF EmptyPool, Slots
<1> QED
  BY <1>1 DEF ViewPoolOK, PoolOK, CacheIssued, CacheOneToOne, OccupiedCached

(* There are no views at first.                                            *)
LEMMA InitViewInv == AllInit => ViewInv
<1> SUFFICES ASSUME AllInit PROVE ViewInv
  OBVIOUS
<1>1. ViewPoolOK /\ CacheIssued /\ CacheOneToOne /\ OccupiedCached
  BY NoViews DEF AllInit
<1>2. session = 1
  BY DEF AllInit, Init
<1>3. viewHeld = [w \in ViewVars |-> NoView]
  BY DEF AllInit
<1>4. NoView.session = 0 /\ NoView.handle = InvalidHandle
  BY DEF NoView
<1>5. HeldCached
  BY <1>2, <1>3, <1>4 DEF HeldCached
<1> QED
  BY <1>1, <1>5 DEF ViewInv

(* A step that leaves the views alone keeps what is known of them.         *)
LEMMA ViewsUntouched ==
  ASSUME ViewInv, UNCHANGED <<viewVars, session>>
  PROVE  ViewInv'
BY DEF ViewInv, viewVars, ViewPoolOK, CacheIssued, CacheOneToOne,
       OccupiedCached, HeldCached

(* The cache answers: somebody else holds the handle too.                  *)
LEMMA HitStep ==
  ASSUME ViewInv, IInv, NEW w \in ViewVars, NEW desc \in DOMAIN cache,
         UNCHANGED <<viewPool, cache, session>>,
         viewHeld' = [viewHeld EXCEPT ![w] =
                        [handle |-> cache[desc], of |-> desc, session |-> session]]
  PROVE  ViewInv'
<1>1. ViewPoolOK' /\ CacheIssued' /\ CacheOneToOne' /\ OccupiedCached'
  BY DEF ViewInv, ViewPoolOK, CacheIssued, CacheOneToOne, OccupiedCached
<1>2. session \in Nat \ {0}
  BY SessionType
<1>3. cache[desc].index \in Nat \ {0}
  BY DEF ViewInv, ViewPoolOK, CacheIssued, IsPool, Slots
<1> DEFINE new == [handle |-> cache[desc], of |-> desc, session |-> session]
<1>4. new.handle = cache[desc] /\ new.of = desc /\ new.session = session
  OBVIOUS
<1> HIDE DEF new
<1>5. /\ viewHeld' = [y \in ViewVars |-> viewHeld'[y]]
      /\ \A y \in ViewVars : viewHeld'[y] = IF y = w THEN new ELSE viewHeld[y]
  BY DEF ViewInv, HeldCached, new
<1>6. HeldCached'
  BY <1>2, <1>3, <1>4, <1>5 DEF ViewInv, HeldCached
<1> QED
  BY <1>1, <1>6 DEF ViewInv

(* What an allocation does to a pool whose free list may name an occupied  *)
(* slot, or one slot twice.                                                *)
LEMMA ViewAllocated ==
  ASSUME ViewPoolOK, NEW desc \in Descs, NewHandle(viewPool).gen \in 1 .. MaxViewGen
  PROVE  LET q == Allocated(viewPool, desc)
             h == NewHandle(viewPool)
         IN  /\ IsPool(q, Descs)
             /\ Slots(q) = Slots(viewPool) \cup {h.index}
             /\ h \in [index : Slots(q), gen : Nat]
             /\ \A i \in Slots(viewPool) \ {h.index} : /\ q.gen[i] = viewPool.gen[i]
                                                       /\ q.res[i] = viewPool.res[i]
             /\ q.gen[h.index] = h.gen
             /\ q.res[h.index] = desc
             /\ h.index \in Slots(viewPool) => h.gen = viewPool.gen[h.index] + 1
<1> DEFINE p == viewPool
           q == Allocated(p, desc)
           h == NewHandle(p)
<1>1. /\ p.size \in Nat \ {0}
      /\ p.res \in [0 .. p.size - 1 -> Descs \cup {NullRes}]
      /\ p.gen \in [0 .. p.size - 1 -> Gens]
      /\ p.free \in Seq(Slots(p))
      /\ p.res[0] = NullRes
      /\ \A i \in Slots(p) : p.gen[i] \in Nat
  BY DEF ViewPoolOK, IsPool
<1>2. h = [index |-> h.index, gen |-> h.gen] /\ h.gen \in Nat /\ h.gen # 0
  BY DEF NewHandle
<1>3. CASE p.free = <<>>
  <2>1. /\ q.size = p.size + 1
        /\ q.res = [i \in 0 .. p.size |-> IF i = p.size THEN desc ELSE p.res[i]]
        /\ q.gen = [i \in 0 .. p.size |-> IF i = p.size THEN 1 ELSE p.gen[i]]
        /\ q.free = <<>>
        /\ q = [size |-> q.size, res |-> q.res, gen |-> q.gen, free |-> q.free]
        /\ h.index = p.size /\ h.gen = 1
    BY <1>3 DEF Allocated, NewHandle
  <2>2. Slots(q) = Slots(p) \cup {p.size} /\ p.size \notin Slots(p)
    BY <1>1, <2>1 DEF Slots
  <2> HIDE DEF p, q, h
  <2>3. IsPool(q, Descs)
    BY <1>1, <2>1, GenModAssumption DEF IsPool, Slots, Gens
  <2> QED
    BY <1>1, <1>2, <2>1, <2>2, <2>3 DEF Slots, p, q, h
<1>4. CASE p.free # <<>>
  <2> DEFINE s == PoppedSlot(p)
  <2>1. s \in Slots(p)
    BY <1>1, <1>4 DEF PoppedSlot
  <2>2. s \in 0 .. p.size - 1 /\ s # 0
    BY <1>1, <2>1 DEF Slots
  <2>3. h.index = s /\ h.gen = (p.gen[s] + 1) % GenMod
    BY <1>4 DEF NewHandle
  <2>4. /\ q.size = p.size
        /\ q.res = [p.res EXCEPT ![s] = desc]
        /\ q.gen = [p.gen EXCEPT ![s] = (@ + 1) % GenMod]
        /\ q.free = SubSeq(p.free, 1, Len(p.free) - 1)
        /\ q = [size |-> q.size, res |-> q.res, gen |-> q.gen, free |-> q.free]
    BY <1>4 DEF Allocated
  <2> HIDE DEF p, q, h, s
  <2>5. p.gen[s] \in Gens /\ h.gen \in Gens /\ h.gen = p.gen[s] + 1
    <3>1. p.gen[s] \in Gens
      BY <1>1, <2>2
    <3> QED
      BY <1>2, <2>3, <3>1, NextGen, NextGenInGens
  <2>6. /\ q.gen \in [0 .. p.size - 1 -> Gens]
        /\ q.gen[s] = h.gen
        /\ \A i \in Slots(p) \ {s} : q.gen[i] = p.gen[i]
    BY <1>1, <2>2, <2>3, <2>4, <2>5 DEF Slots
  <2>7. /\ q.res \in [0 .. p.size - 1 -> Descs \cup {NullRes}]
        /\ q.res[0] = NullRes
        /\ q.res[s] = desc
        /\ \A i \in Slots(p) \ {s} : q.res[i] = p.res[i]
    BY <1>1, <2>2, <2>4 DEF Slots
  <2>8. Slots(q) = Slots(p)
    BY <2>4 DEF Slots
  <2>9. q.free \in Seq(Slots(q))
    BY <1>1, <1>4, <2>4, <2>8
  <2>10. IsPool(q, Descs)
    BY <1>1, <2>4, <2>6, <2>7, <2>9 DEF IsPool
  <2>11. h \in [index : Slots(q), gen : Nat]
    BY <1>2, <2>1, <2>3, <2>8
  <2> QED
    BY <2>1, <2>3, <2>5, <2>6, <2>7, <2>8, <2>10, <2>11 DEF p, q, h
<1> QED
  BY <1>3, <1>4

(* A new view: its handle was never issued, since its slot is new or has   *)
(* moved on to the next generation.                                        *)
LEMMA MissStep ==
  ASSUME ViewInv, IInv, NEW w \in ViewVars, NEW desc \in Descs,
         desc \notin DOMAIN cache, NewHandle(viewPool).gen \in 1 .. MaxViewGen,
         viewPool' = Allocated(viewPool, desc),
         cache' = Cached(desc, NewHandle(viewPool)),
         viewHeld' = [viewHeld EXCEPT ![w] =
                        [handle  |-> NewHandle(viewPool), of |-> desc,
                         session |-> session]],
         UNCHANGED session
  PROVE  ViewInv'
<1> DEFINE h == NewHandle(viewPool)
           new == [handle |-> h, of |-> desc, session |-> session]
<1>1. /\ IsPool(viewPool', Descs)
      /\ Slots(viewPool') = Slots(viewPool) \cup {h.index}
      /\ h \in [index : Slots(viewPool'), gen : Nat]
      /\ \A i \in Slots(viewPool) \ {h.index} : /\ viewPool'.gen[i] = viewPool.gen[i]
                                                /\ viewPool'.res[i] = viewPool.res[i]
      /\ viewPool'.gen[h.index] = h.gen
      /\ viewPool'.res[h.index] = desc
      /\ h.index \in Slots(viewPool) => h.gen = viewPool.gen[h.index] + 1
  BY ViewAllocated DEF ViewInv
<1>2. /\ DOMAIN cache' = DOMAIN cache \cup {desc}
      /\ cache'[desc] = h
      /\ \A d \in DOMAIN cache : cache'[d] = cache[d]
  BY DEF Cached
<1>3. h = [index |-> h.index, gen |-> h.gen] /\ h.gen \in 1 .. MaxViewGen /\ h.gen \in Nat
  BY <1>1
<1>4. new.handle = h /\ new.of = desc /\ new.session = session
  OBVIOUS
<1>5. \A i \in Slots(viewPool) : viewPool.gen[i] \in 1 .. MaxViewGen /\ viewPool.gen[i] \in Nat
  BY ResourcesAssumption DEF ViewInv, ViewPoolOK
<1>6. \A d \in DOMAIN cache : /\ cache[d] \in [index : Slots(viewPool), gen : Nat]
                              /\ cache[d].gen <= viewPool.gen[cache[d].index]
  BY DEF ViewInv, CacheIssued
<1>7. viewHeld' = [viewHeld EXCEPT ![w] = new]
  OBVIOUS
<1> HIDE DEF h, new
<1>8. ViewPoolOK'
  BY <1>1, <1>3, <1>5 DEF ViewPoolOK
<1>9. ASSUME NEW d \in DOMAIN cache
      PROVE  /\ cache[d] # h
             /\ cache[d] \in [index : Slots(viewPool'), gen : Nat]
             /\ cache[d].gen <= viewPool'.gen[cache[d].index]
  <2>1. /\ cache[d].index \in Slots(viewPool) /\ cache[d].gen \in Nat
        /\ cache[d].gen <= viewPool.gen[cache[d].index]
        /\ viewPool.gen[cache[d].index] \in Nat
    BY <1>5, <1>6
  <2>2. CASE cache[d].index = h.index
    BY <1>1, <1>3, <1>6, <2>1, <2>2
  <2>3. CASE cache[d].index # h.index
    BY <1>1, <1>3, <1>6, <2>1, <2>3
  <2> QED
    BY <2>2, <2>3
<1>10. CacheIssued'
  BY <1>1, <1>2, <1>3, <1>9 DEF CacheIssued
<1>11. CacheOneToOne'
  BY <1>2, <1>9 DEF ViewInv, CacheOneToOne
<1>12. OccupiedCached'
  <2> SUFFICES ASSUME NEW i \in Occupied(viewPool')
               PROVE  /\ viewPool'.res[i] \in DOMAIN cache'
                      /\ cache'[viewPool'.res[i]] = [index |-> i, gen |-> viewPool'.gen[i]]
    BY DEF OccupiedCached
  <2>1. CASE i = h.index
    BY <1>1, <1>2, <1>3, <2>1
  <2>2. CASE i # h.index
    <3>1. i \in Occupied(viewPool) /\ viewPool'.res[i] = viewPool.res[i]
          /\ viewPool'.gen[i] = viewPool.gen[i]
      BY <1>1, <2>2 DEF Occupied
    <3> QED
      BY <1>2, <3>1 DEF ViewInv, OccupiedCached
  <2> QED
    BY <2>1, <2>2
<1>13. session \in Nat \ {0} /\ h.index \in Nat \ {0}
  BY <1>1, SessionType DEF IsPool, Slots
<1>14. /\ viewHeld' = [y \in ViewVars |-> viewHeld'[y]]
       /\ \A y \in ViewVars : viewHeld'[y] = IF y = w THEN new ELSE viewHeld[y]
  BY <1>7 DEF ViewInv, HeldCached
<1>15. HeldCached'
  BY <1>2, <1>4, <1>13, <1>14 DEF ViewInv, HeldCached
<1> QED
  BY <1>8, <1>10, <1>11, <1>12, <1>15 DEF ViewInv

(* A view variable that holds nothing.                                     *)
LEMMA NoViewHeld ==
  ASSUME ViewInv, IInv, NEW w \in ViewVars,
         viewHeld' = [viewHeld EXCEPT ![w] = NoView],
         UNCHANGED <<cache, session>>
  PROVE  HeldCached'
<1>1. NoView.session = 0 /\ NoView.handle = InvalidHandle
  BY DEF NoView
<1>2. /\ viewHeld' = [y \in ViewVars |-> viewHeld'[y]]
      /\ \A y \in ViewVars : viewHeld'[y] = IF y = w THEN NoView ELSE viewHeld[y]
  BY DEF ViewInv, HeldCached
<1>3. session \in Nat \ {0}
  BY SessionType
<1> QED
  BY <1>1, <1>2, <1>3 DEF ViewInv, HeldCached

(* free() of a view, of an empty slot perhaps: it occupies no more slots.  *)
LEMMA DestroyViewStep ==
  ASSUME ViewInv, IInv, NEW w \in ViewVars, VKDestroyBufferView(w)
  PROVE  ViewInv'
<1> DEFINE h == viewHeld[w].handle
<1>1. /\ IsAlive(viewPool, h)
      /\ viewPool' = Freed(viewPool, h)
      /\ UNCHANGED <<cache, session>>
      /\ viewHeld' = [viewHeld EXCEPT ![w] = NoView]
  BY DEF VKDestroyBufferView, vars
<1>2. h.index \in Slots(viewPool)
  BY <1>1 DEF ViewInv, HeldCached, ViewPoolOK, IsPool, IsAlive, isValid, Slots
<1>3. IsPool(viewPool, Descs)
  BY DEF ViewInv, ViewPoolOK
<1> HIDE DEF h
<1>4. /\ viewPool'.size = viewPool.size
      /\ viewPool'.res = [viewPool.res EXCEPT ![h.index] = NullRes]
      /\ viewPool'.gen = viewPool.gen
      /\ viewPool'.free = Append(viewPool.free, h.index)
      /\ viewPool' = [size |-> viewPool'.size, res |-> viewPool'.res,
                      gen |-> viewPool'.gen, free |-> viewPool'.free]
  BY <1>1 DEF Freed
<1>5. Slots(viewPool') = Slots(viewPool)
  BY <1>4 DEF Slots
<1>6. IsPool(viewPool', Descs)
  BY <1>2, <1>3, <1>4, <1>5 DEF IsPool, Slots
<1>7. ViewPoolOK' /\ CacheIssued' /\ CacheOneToOne'
  BY <1>1, <1>4, <1>5, <1>6 DEF ViewInv, ViewPoolOK, CacheIssued, CacheOneToOne
<1>8. \A i \in Occupied(viewPool') : /\ i \in Occupied(viewPool)
                                     /\ viewPool'.res[i] = viewPool.res[i]
  BY <1>2, <1>3, <1>4, <1>5 DEF Occupied, IsPool, Slots
<1>9. OccupiedCached'
  BY <1>1, <1>4, <1>8 DEF ViewInv, OccupiedCached
<1>10. HeldCached'
  BY <1>1, NoViewHeld
<1> QED
  BY <1>7, <1>9, <1>10 DEF ViewInv

(* After a shutdown every handle is of an earlier session.                 *)
LEMMA ShutdownViewStep ==
  ASSUME ViewInv, IInv, ShutdownAll
  PROVE  ViewInv'
<1>1. /\ viewPool' = EmptyPool /\ cache' = [k \in {} |-> InvalidHandle]
      /\ session' = session + 1 /\ viewHeld' = viewHeld
  BY DEF ShutdownAll, Shutdown, CacheCleared
<1>2. (ViewPoolOK /\ CacheIssued /\ CacheOneToOne /\ OccupiedCached)'
  <2>1. PoolOK(viewPool', Descs) /\ Occupied(viewPool') = {} /\ Slots(viewPool') = {}
    BY <1>1, EmptyPoolOK DEF EmptyPool, Slots
  <2> QED
    BY <1>1, <2>1 DEF ViewPoolOK, PoolOK, CacheIssued, CacheOneToOne, OccupiedCached
<1>3. session \in Nat \ {0}
  BY SessionType
<1>4. HeldCached'
  BY <1>1, <1>3 DEF ViewInv, HeldCached
<1> QED
  BY <1>2, <1>4 DEF ViewInv

(* What is known of the views is inductive.                                *)
LEMMA NextViewInv == IInv /\ ViewInv /\ [AllNext]_allVars => ViewInv'
<1> SUFFICES ASSUME IInv, ViewInv, [AllNext]_allVars PROVE ViewInv'
  OBVIOUS
<1>1. CASE BufferStep
  <2>1. ASSUME NEW v \in Vars, CreateEmpty(v) \/ DestroyBuffer(v) PROVE ViewInv'
    BY <2>1, ViewsUntouched DEF CreateEmpty, DestroyBuffer, VKCreateBuffer, VKDestroyBuffer
  <2>2. ASSUME NEW v \in Vars, NEW w \in Vars,
               CopyBufferHandle(v, w) \/ CreateFails(v)
        PROVE  ViewInv'
    BY <2>2, ViewsUntouched
    DEF CopyBufferHandle, CreateFails, CopyHandle, VKCreateBufferFails
  <2> QED
    BY <1>1, <2>1, <2>2, ShutdownViewStep DEF BufferStep
<1>2. CASE ViewStep
  <2>1. ASSUME NEW v \in Vars, NEW r \in Ranges, NEW w \in ViewVars,
               VKCreateBufferView(v, r, w)
        PROVE  ViewInv'
    <3> DEFINE desc == <<held[v], r>>
    <3>1. desc \in Descs
      BY DEF IInv, TypeOK, Descs
    <3>2. UNCHANGED session
      BY <2>1 DEF VKCreateBufferView, vars
    <3>3. CASE desc \in DOMAIN cache
      BY <2>1, <3>2, <3>3, HitStep DEF VKCreateBufferView
    <3>4. CASE desc \notin DOMAIN cache
      BY <2>1, <3>1, <3>2, <3>4, MissStep DEF VKCreateBufferView, ViewRoom
    <3> QED
      BY <3>3, <3>4
  <2>2. ASSUME NEW w \in ViewVars, VKCreateBufferViewFails(w) PROVE ViewInv'
    <3>1. /\ UNCHANGED <<viewPool, cache, session>>
          /\ viewHeld' = [viewHeld EXCEPT ![w] = NoView]
      BY <2>2 DEF VKCreateBufferViewFails, vars
    <3>2. HeldCached'
      BY <3>1, NoViewHeld
    <3> QED
      BY <3>1, <3>2 DEF ViewInv, ViewPoolOK, CacheIssued, CacheOneToOne, OccupiedCached
  <2> QED
    BY <1>2, <2>1, <2>2, DestroyViewStep DEF ViewStep
<1>3. CASE DataStep
  <2>1. ASSUME NEW v \in Vars, CreateMapped(v) PROVE ViewInv'
    BY <2>1, ViewsUntouched DEF CreateMapped, VKCreateBuffer
  <2>2. ASSUME NEW v \in Vars, NEW size \in Sizes, CreateGpuOnly(v, size) PROVE ViewInv'
    BY <2>2, ViewsUntouched DEF CreateGpuOnly, VKCreateBuffer
  <2>3. CASE VKFlushUploads \/ VKFlushNothing
    BY <2>3, ViewsUntouched DEF VKFlushUploads, VKFlushNothing, vars
  <2> QED
    BY <1>3, <2>1, <2>2, <2>3 DEF DataStep
<1>4. CASE UNCHANGED allVars
  BY <1>4, ViewsUntouched DEF allVars, vars
<1> QED
  BY <1>1, <1>2, <1>3, <1>4 DEF AllNext

(* It holds in every reachable state.                                      *)
LEMMA ViewInvariance == AllSpec => []ViewInv
  BY BufferInvariance, InitViewInv, NextViewInv, PTL DEF AllSpec

(* A view handle resolves to the view of the buffer and range its holder   *)
(* asked for, or to none.                                                  *)
THEOREM ViewsCorrect == AllSpec => []ViewNamesItsBuffer
<1>1. ViewInv => ViewNamesItsBuffer
  <2> SUFFICES ASSUME ViewInv, NEW w \in ViewVars,
                      viewHeld[w].session = session,
                      IsAlive(viewPool, viewHeld[w].handle),
                      Get(viewPool, viewHeld[w].handle) # NullRes
               PROVE  Get(viewPool, viewHeld[w].handle) = viewHeld[w].of
    BY DEF ViewNamesItsBuffer
  <2> DEFINE x == viewHeld[w]
             i == x.handle.index
  <2>1. x.of \in DOMAIN cache /\ x.handle = cache[x.of]
    BY DEF ViewInv, HeldCached
  <2>2. x.handle \in [index : Slots(viewPool), gen : Nat]
    BY <2>1 DEF ViewInv, CacheIssued
  <2>3. i \in Occupied(viewPool) /\ viewPool.gen[i] = x.handle.gen
    BY <2>2 DEF IsAlive, Get, Occupied
  <2>4. viewPool.res[i] \in DOMAIN cache /\ cache[viewPool.res[i]] = x.handle
    BY <2>2, <2>3 DEF ViewInv, OccupiedCached
  <2> QED
    BY <2>1, <2>4 DEF ViewInv, CacheOneToOne, Get
<1> QED
  BY <1>1, ViewInvariance, PTL

(* No two views of one description exist.                                  *)
THEOREM CacheCorrect == AllSpec => []OneViewPerDescription
<1>1. ViewInv => OneViewPerDescription
  <2> SUFFICES ASSUME ViewInv, NEW i \in Occupied(viewPool), NEW j \in Occupied(viewPool),
                      viewPool.res[i] = viewPool.res[j]
               PROVE  i = j
    BY DEF OneViewPerDescription, NoSharing
  <2>1. [index |-> i, gen |-> viewPool.gen[i]] = [index |-> j, gen |-> viewPool.gen[j]]
    BY DEF ViewInv, OccupiedCached
  <2> QED
    BY <2>1
<1> QED
  BY <1>1, ViewInvariance, PTL

-----------------------------------------------------------------------------
(* Initial data.  Each queued upload still owns its bytes, and they are    *)
(* the data its VkBuffer was created with.                                 *)

Tags == [index : Nat, gen : Gens]

Uploads == [dst : Objects, tag : Tags, off : Nat, size : Nat]

UploaderOK(u) ==
  /\ u = [data |-> u.data, bufs |-> u.bufs, texs |-> u.texs]
  /\ u.data \in Seq(Tags \cup {Pad})
  /\ u.bufs \in Seq(Uploads)
  /\ u.texs = <<>>

Owns(u, up) ==
  \A i \in up.off + 1 .. up.off + up.size :
    i <= Len(u.data) /\ u.data[i] = up.tag

UploadsSound ==
  /\ unflushed \subseteq objects
  /\ unflushed = Targets(uploader)
  /\ \A up \in Queued(uploader) : Owns(uploader, up) /\ want[up.dst] = up.tag
  /\ \A o \in Objects : have[o] = want[o] \/ (have[o] = NoData /\ o \in unflushed)

DataInv ==
  /\ UploaderOK(uploader)
  /\ want \in [Objects -> Tags \cup {NoData}]
  /\ have \in [Objects -> Tags \cup {NoData, Garbage}]
  /\ ~ misused => UploadsSound

(* Aligning rounds up.                                                     *)
LEMMA AlignUpBounds ==
  ASSUME NEW n \in Nat
  PROVE  AlignUp(n) \in Nat /\ AlignUp(n) >= n
<1>1. UploadAlign \in Int /\ UploadAlign > 0
  BY UploaderAssumption
<1>2. ASSUME NEW m \in Int, NEW a \in Int, a > 0
      PROVE  m \div a \in Int /\ m < a * (m \div a) + a
  BY <1>2
<1> DEFINE q == (n + UploadAlign - 1) \div UploadAlign
<1>3. q \in Int /\ n + UploadAlign - 1 < UploadAlign * q + UploadAlign
  BY <1>1, <1>2
<1>4. AlignUp(n) = q * UploadAlign
  BY DEF AlignUp
<1> HIDE DEF q
<1>5. q * UploadAlign = UploadAlign * q /\ UploadAlign * q \in Int
  BY <1>1, <1>3
<1> QED
  BY <1>1, <1>3, <1>4, <1>5

(* The fields of an uploader after an upload.                              *)
LEMMA UploaderFields ==
  ASSUME NEW u, u = [data |-> u.data, bufs |-> u.bufs, texs |-> u.texs],
         NEW b, NEW d, NEW q, q = [u EXCEPT !.bufs = b, !.data = d]
  PROVE  /\ q = [data |-> q.data, bufs |-> q.bufs, texs |-> q.texs]
         /\ q.bufs = b /\ q.texs = u.texs /\ q.data = d
OBVIOUS

(* pushData() and the upload queued with it.  Below the limit of 32 bits   *)
(* the new bytes lie behind all the others.                                *)
LEMMA UploadQueued ==
  ASSUME NEW u, UploaderOK(u), NEW dst \in Objects, NEW tag \in Tags,
         NEW size \in Nat \ {0}
  PROVE  LET q  == uploadBuffer(u, dst, tag, size)
             up == Upload(u, dst, tag, size)
         IN  /\ UploaderOK(q)
             /\ Queued(q) = Queued(u) \cup {up}
             /\ up.dst = dst /\ up.tag = tag
             /\ Fits(u, size) => /\ Owns(q, up)
                                 /\ \A x \in Uploads : Owns(u, x) => Owns(q, x)
<1> DEFINE q   == uploadBuffer(u, dst, tag, size)
           up  == Upload(u, dst, tag, size)
           off == PushOffset(u)
           n   == (off + size) % AddrMod
<1>1. AddrMod \in Int /\ AddrMod > 0
  BY UploaderAssumption
<1>2. ASSUME NEW a \in Int, NEW m \in Int, m > 0 PROVE a % m \in 0 .. m - 1
  BY <1>2
<1>3. ASSUME NEW a \in Int, NEW m \in Int, 0 <= a, a < m PROVE a % m = a
  BY <1>3
<1>4. Len(u.data) \in Nat /\ AlignUp(Len(u.data)) \in Nat /\ AlignUp(Len(u.data)) >= Len(u.data)
  BY AlignUpBounds DEF UploaderOK
<1>5. off \in Nat
  BY <1>1, <1>2, <1>4 DEF PushOffset
<1>6. n \in Nat
  BY <1>1, <1>2, <1>5
<1>7. /\ q.bufs = Append(u.bufs, up)
      /\ q.texs = <<>>
      /\ q.data = [i \in 1 .. n |-> IF i > off THEN tag
                                    ELSE IF i <= Len(u.data) THEN u.data[i] ELSE Pad]
      /\ q = [data |-> q.data, bufs |-> q.bufs, texs |-> q.texs]
  <2> DEFINE b == Append(u.bufs, up)
             d == PushData(u, tag, size)
  <2>1. q = [u EXCEPT !.bufs = b, !.data = d]
    BY DEF uploadBuffer
  <2>2. d = [i \in 1 .. n |-> IF i > off THEN tag
                              ELSE IF i <= Len(u.data) THEN u.data[i] ELSE Pad]
    BY DEF PushData
  <2>3. u = [data |-> u.data, bufs |-> u.bufs, texs |-> u.texs] /\ u.texs = <<>>
    BY DEF UploaderOK
  <2> HIDE DEF q, b, d
  <2>4. /\ q = [data |-> q.data, bufs |-> q.bufs, texs |-> q.texs]
        /\ q.bufs = b /\ q.texs = u.texs /\ q.data = d
    BY <2>1, <2>3, UploaderFields
  <2> QED
    BY <2>2, <2>3, <2>4 DEF b
<1> HIDE DEF off, n
<1>8. /\ up \in Uploads /\ up.dst = dst /\ up.tag = tag
      /\ up.off = off /\ up.size = size
  BY <1>5 DEF Upload, Uploads, off
<1> HIDE DEF q, up
<1>9. \A i \in 1 .. n : q.data[i] \in Tags \cup {Pad}
  BY <1>4, <1>5, <1>7 DEF UploaderOK
<1>10. q.data \in Seq(Tags \cup {Pad}) /\ Len(q.data) = n
  <2> DEFINE S == Tags \cup {Pad}
  <2> HIDE DEF S
  <2>1. q.data \in [1 .. n -> S]
    BY <1>7, <1>9 DEF S
  <2> QED
    BY <1>6, <2>1 DEF S
<1>11. /\ q.bufs \in Seq(Uploads)
       /\ DOMAIN q.bufs = DOMAIN u.bufs \cup {Len(u.bufs) + 1}
       /\ \A i \in DOMAIN u.bufs : q.bufs[i] = u.bufs[i]
       /\ q.bufs[Len(u.bufs) + 1] = up
  BY <1>7, <1>8 DEF UploaderOK
<1>12. UploaderOK(q)
  BY <1>7, <1>10, <1>11 DEF UploaderOK
<1>13. Queued(q) = Queued(u) \cup {up}
  BY <1>7, <1>11 DEF Queued, UploaderOK
<1>14. ASSUME Fits(u, size)
       PROVE  /\ Owns(q, up)
              /\ \A x \in Uploads : Owns(u, x) => Owns(q, x)
  <2>1. off = AlignUp(Len(u.data)) /\ off + size < AddrMod
    BY <1>1, <1>3, <1>4, <1>14 DEF Fits, PushOffset, off
  <2>2. n = off + size
    BY <1>1, <1>3, <1>5, <2>1 DEF n
  <2>3. Owns(q, up)
    <3> SUFFICES ASSUME NEW i \in off + 1 .. off + size
                 PROVE  i <= Len(q.data) /\ q.data[i] = tag
      BY <1>8 DEF Owns
    <3>1. i \in 1 .. n /\ i > off
      BY <1>5, <2>2
    <3> QED
      BY <1>5, <1>6, <1>7, <1>10, <2>2, <3>1
  <2>4. ASSUME NEW x \in Uploads, Owns(u, x) PROVE Owns(q, x)
    <3> SUFFICES ASSUME NEW i \in x.off + 1 .. x.off + x.size
                 PROVE  i <= Len(q.data) /\ q.data[i] = x.tag
      BY DEF Owns
    <3>1. i <= Len(u.data) /\ u.data[i] = x.tag
      BY <2>4 DEF Owns
    <3>2. x.off \in Nat /\ x.size \in Nat /\ i \in Nat /\ i >= 1
      BY DEF Uploads
    <3>3. i \in 1 .. n /\ ~ (i > off)
      BY <1>4, <1>5, <2>1, <2>2, <3>1, <3>2
    <3> QED
      BY <1>6, <1>7, <1>10, <3>1, <3>3
  <2> QED
    BY <2>3, <2>4
<1> QED
  BY <1>8, <1>12, <1>13, <1>14 DEF q, up

(* What is queued is an upload.                                            *)
LEMMA QueuedUploads ==
  ASSUME NEW u, UploaderOK(u)
  PROVE  Queued(u) \subseteq Uploads
<1>1. u.bufs \in Seq(Uploads) /\ u.texs = <<>>
  BY DEF UploaderOK
<1> QED
  BY <1>1 DEF Queued

(* An empty uploader has nothing queued.                                   *)
LEMMA EmptyQueue ==
  /\ UploaderOK(EmptyUploader)
  /\ Queued(EmptyUploader) = {} /\ Targets(EmptyUploader) = {}
BY DEF EmptyUploader, UploaderOK, Queued, Targets

(* Nothing is queued at first.                                             *)
LEMMA InitDataInv == AllInit => DataInv
<1> SUFFICES ASSUME AllInit PROVE DataInv
  OBVIOUS
<1>1. /\ uploader = EmptyUploader /\ unflushed = {}
      /\ want = [o \in Objects |-> NoData] /\ have = [o \in Objects |-> NoData]
  BY DEF AllInit
<1>2. UploadsSound
  BY <1>1, EmptyQueue DEF UploadsSound
<1> QED
  BY <1>1, <1>2, EmptyQueue DEF DataInv

(* A step that leaves the uploader and the VkBuffers alone keeps it.       *)
LEMMA DataUntouched ==
  ASSUME DataInv, UNCHANGED <<uploadVars, objects>>
  PROVE  DataInv'
BY DEF DataInv, uploadVars, UploadsSound

(* The VkBuffer a creation gets, and what its handle is.                   *)
LEMMA CreatedBuffer ==
  ASSUME IInv, NEW v \in Vars, VKCreateBuffer(v)
  PROVE  /\ NewBuffer \in Objects \ objects
         /\ objects' = objects \cup {NewBuffer}
         /\ held'[v] \in Tags
<1>1. PICK o \in Objects \ objects : objects' = objects \cup {o}
  BY DEF VKCreateBuffer
<1>2. NewBuffer = o
  <2>1. \E b \in objects' : b \notin objects
    BY <1>1
  <2>2. NewBuffer \in objects' /\ NewBuffer \notin objects
    BY <2>1 DEF NewBuffer
  <2> QED
    BY <1>1, <2>2
<1>3. held'[v] \in Tags
  BY CreateStep DEF IInv, TypeOK, Tags
<1> QED
  BY <1>1, <1>2, <1>3

(* A buffer without data, or whose data is written at once.                *)
LEMMA CreateDirectStep ==
  ASSUME IInv, DataInv, NEW v \in Vars, VKCreateBuffer(v),
         NEW x \in Tags \cup {NoData},
         want' = [want EXCEPT ![NewBuffer] = x],
         have' = [have EXCEPT ![NewBuffer] = x],
         UNCHANGED <<uploader, unflushed, misused>>
  PROVE  DataInv'
<1> DEFINE o == NewBuffer
<1>1. o \in Objects \ objects /\ objects' = objects \cup {o}
  BY CreatedBuffer
<1>2. /\ want' = [want EXCEPT ![o] = x] /\ have' = [have EXCEPT ![o] = x]
      /\ want \in [Objects -> Tags \cup {NoData}]
      /\ have \in [Objects -> Tags \cup {NoData, Garbage}]
  BY DEF DataInv
<1> HIDE DEF o
<1>3. ASSUME UploadsSound PROVE UploadsSound'
  <2>1. \A up \in Queued(uploader) : up.dst # o
    BY <1>1, <1>3 DEF UploadsSound, Targets
  <2>2. \A up \in Queued(uploader) : up.dst \in Objects
    BY QueuedUploads DEF DataInv, Uploads
  <2> QED
    BY <1>1, <1>2, <1>3, <2>1, <2>2 DEF UploadsSound
<1> QED
  BY <1>1, <1>2, <1>3, ZenonT(60) DEF DataInv

(* A buffer whose data is queued.                                          *)
LEMMA CreateQueuedStep ==
  ASSUME IInv, DataInv, NEW v \in Vars, NEW size \in Sizes, CreateGpuOnly(v, size)
  PROVE  DataInv'
<1> DEFINE o == NewBuffer
           t == held'[v]
           up == Upload(uploader, o, t, size)
<1>1. /\ VKCreateBuffer(v)
      /\ uploader' = uploadBuffer(uploader, o, t, size)
      /\ want' = [want EXCEPT ![o] = t]
      /\ have' = [have EXCEPT ![o] = NoData]
      /\ unflushed' = unflushed \cup {o}
      /\ misused' = (misused \/ ~ Fits(uploader, size))
  BY DEF CreateGpuOnly
<1>2. o \in Objects \ objects /\ objects' = objects \cup {o} /\ t \in Tags
  BY <1>1, CreatedBuffer
<1>3. size \in Nat \ {0}
  BY ResourcesAssumption
<1>4. UploaderOK(uploader) /\ Queued(uploader) \subseteq Uploads
  BY QueuedUploads DEF DataInv
<1> HIDE DEF o, t
<1>5. /\ UploaderOK(uploader')
      /\ Queued(uploader') = Queued(uploader) \cup {up}
      /\ up.dst = o /\ up.tag = t
      /\ Fits(uploader, size) =>
           /\ Owns(uploader', up)
           /\ \A x \in Uploads : Owns(uploader, x) => Owns(uploader', x)
  BY <1>1, <1>2, <1>3, <1>4, UploadQueued
<1> HIDE DEF up
<1>6. /\ want \in [Objects -> Tags \cup {NoData}]
      /\ have \in [Objects -> Tags \cup {NoData, Garbage}]
  BY DEF DataInv
<1>7. ASSUME UploadsSound, Fits(uploader, size) PROVE UploadsSound'
  <2>1. \A x \in Queued(uploader) : x.dst \in Objects /\ x.dst # o
    BY <1>2, <1>4, <1>7 DEF UploadsSound, Targets, Uploads
  <2>2. unflushed' \subseteq objects' /\ unflushed' = Targets(uploader')
    BY <1>1, <1>2, <1>5, <1>7 DEF UploadsSound, Targets
  <2>3. \A x \in Queued(uploader') : Owns(uploader', x) /\ want'[x.dst] = x.tag
    <3>1. want'[up.dst] = up.tag
      BY <1>1, <1>2, <1>5, <1>6
    <3>2. \A x \in Queued(uploader) : want'[x.dst] = want[x.dst]
      BY <1>1, <1>6, <2>1
    <3> QED
      BY <1>4, <1>5, <1>7, <3>1, <3>2 DEF UploadsSound
  <2>4. \A b \in Objects : have'[b] = want'[b] \/ (have'[b] = NoData /\ b \in unflushed')
    BY <1>1, <1>2, <1>6, <1>7 DEF UploadsSound
  <2> QED
    BY <2>2, <2>3, <2>4 DEF UploadsSound
<1>8. ~ misused' => ~ misused /\ Fits(uploader, size)
  BY <1>1, Zenon
<1>9. /\ want' \in [Objects -> Tags \cup {NoData}]
      /\ have' \in [Objects -> Tags \cup {NoData, Garbage}]
  BY <1>1, <1>2, <1>6
<1> QED
  BY <1>5, <1>7, <1>8, <1>9 DEF DataInv

(* A buffer is destroyed that has no data in the queue.                    *)
LEMMA DestroyDataStep ==
  ASSUME IInv, DataInv, NEW v \in Vars, DestroyBuffer(v)
  PROVE  DataInv'
<1> DEFINE o == Get(pool, held[v])
<1>1. /\ objects' = objects \ {o}
      /\ want' = [want EXCEPT ![o] = NoData]
      /\ have' = [have EXCEPT ![o] = NoData]
      /\ unflushed' = unflushed \ {o}
      /\ misused' = (misused \/ o \in unflushed)
      /\ uploader' = uploader
  BY DEF DestroyBuffer, VKDestroyBuffer
<1> HIDE DEF o
<1>2. /\ want \in [Objects -> Tags \cup {NoData}]
      /\ have \in [Objects -> Tags \cup {NoData, Garbage}]
      /\ Queued(uploader) \subseteq Uploads
  BY QueuedUploads DEF DataInv
<1>3. ASSUME UploadsSound, o \notin unflushed PROVE UploadsSound'
  <2>1. unflushed' = unflushed /\ unflushed' \subseteq objects'
    BY <1>1, <1>3 DEF UploadsSound
  <2>2. \A up \in Queued(uploader) : up.dst \in Objects /\ up.dst # o
    BY <1>2, <1>3 DEF UploadsSound, Targets, Uploads
  <2>3. \A up \in Queued(uploader) : want'[up.dst] = up.tag
    BY <1>1, <1>2, <1>3, <2>2 DEF UploadsSound
  <2>4. \A b \in Objects : have'[b] = want'[b] \/ (have'[b] = NoData /\ b \in unflushed')
    BY <1>1, <1>2, <1>3, <2>1 DEF UploadsSound
  <2> QED
    BY <1>1, <1>3, <2>1, <2>3, <2>4 DEF UploadsSound
<1>4. ~ misused' => ~ misused /\ o \notin unflushed
  BY <1>1, Zenon
<1>5. /\ want' \in [Objects -> Tags \cup {NoData}]
      /\ have' \in [Objects -> Tags \cup {NoData, Garbage}]
  BY <1>1, <1>2
<1> QED
  BY <1>1, <1>3, <1>4, <1>5 DEF DataInv

(* A flush delivers to each target what it was created with.               *)
LEMMA FlushStep ==
  ASSUME DataInv, VKFlushUploads
  PROVE  DataInv'
<1>1. PICK copied \in Copies(uploader) :
        have' = [o \in Objects |-> IF o \in DOMAIN copied THEN copied[o] ELSE have[o]]
  BY DEF VKFlushUploads
<1>2. /\ uploader' = EmptyUploader /\ unflushed' = {}
      /\ UNCHANGED <<want, misused, objects>>
  BY DEF VKFlushUploads, Flushed, vars
<1>3. /\ DOMAIN copied = Targets(uploader)
      /\ \A o \in Targets(uploader) :
           \E up \in Queued(uploader) : up.dst = o /\ copied[o] = Delivered(uploader, up)
  BY DEF Copies
<1>4. Queued(uploader) \subseteq Uploads
  BY QueuedUploads DEF DataInv
<1>5. have' \in [Objects -> Tags \cup {NoData, Garbage}]
  <2>1. \A up \in Queued(uploader) : Delivered(uploader, up) \in Tags \cup {Garbage}
    BY <1>4 DEF Delivered, Uploads
  <2> QED
    BY <1>1, <1>3, <2>1 DEF DataInv
<1>6. ASSUME UploadsSound PROVE UploadsSound'
  <2>1. \A up \in Queued(uploader) : Delivered(uploader, up) = want[up.dst]
    BY <1>6 DEF UploadsSound, Owns, Delivered
  <2>2. \A o \in Objects : have'[o] = want[o]
    BY <1>1, <1>3, <1>6, <2>1 DEF UploadsSound
  <2> QED
    BY <1>2, <2>2, EmptyQueue DEF UploadsSound
<1> QED
  BY <1>2, <1>5, <1>6, EmptyQueue DEF DataInv

(* flush() returns early when nothing is queued.                           *)
LEMMA FlushNothingStep ==
  ASSUME DataInv, VKFlushNothing
  PROVE  DataInv'
<1>1. /\ NothingQueued(uploader) /\ unflushed' = {}
      /\ UNCHANGED <<uploader, want, have, misused, objects>>
  BY DEF VKFlushNothing, vars
<1>2. Queued(uploader) = {} /\ Targets(uploader) = {}
  BY <1>1 DEF NothingQueued, Queued, Targets
<1>3. ASSUME UploadsSound PROVE UploadsSound'
  BY <1>1, <1>2, <1>3 DEF UploadsSound
<1> QED
  BY <1>1, <1>3 DEF DataInv

(* A shutdown leaves no upload behind.                                     *)
LEMMA ShutdownDataStep ==
  ASSUME DataInv, ShutdownAll
  PROVE  DataInv'
<1>1. /\ uploader' = EmptyUploader /\ unflushed' = {} /\ UNCHANGED misused
      /\ want' = [o \in Objects |-> NoData] /\ have' = [o \in Objects |-> NoData]
  BY DEF ShutdownAll
<1>2. UploadsSound'
  BY <1>1, EmptyQueue DEF UploadsSound
<1> QED
  BY <1>1, <1>2, EmptyQueue DEF DataInv

(* What is known of the uploads is inductive.                              *)
LEMMA NextDataInv == IInv /\ DataInv /\ [AllNext]_allVars => DataInv'
<1> SUFFICES ASSUME IInv, DataInv, [AllNext]_allVars PROVE DataInv'
  OBVIOUS
<1>1. CASE BufferStep
  <2>1. ASSUME NEW v \in Vars, CreateEmpty(v) PROVE DataInv'
    BY <2>1, CreateDirectStep DEF CreateEmpty
  <2>2. ASSUME NEW v \in Vars, NEW w \in Vars,
               CopyBufferHandle(v, w) \/ CreateFails(v)
        PROVE  DataInv'
    BY <2>2, DataUntouched
    DEF CopyBufferHandle, CreateFails, CopyHandle, VKCreateBufferFails
  <2> QED
    BY <1>1, <2>1, <2>2, DestroyDataStep, ShutdownDataStep DEF BufferStep
<1>2. CASE ViewStep
  <2>1. ASSUME NEW v \in Vars, NEW r \in Ranges, NEW w \in ViewVars,
               VKCreateBufferView(v, r, w)
        PROVE  DataInv'
    BY <2>1, DataUntouched DEF VKCreateBufferView, vars
  <2>2. ASSUME NEW w \in ViewVars,
               VKCreateBufferViewFails(w) \/ VKDestroyBufferView(w)
        PROVE  DataInv'
    BY <2>2, DataUntouched DEF VKCreateBufferViewFails, VKDestroyBufferView, vars
  <2> QED
    BY <1>2, <2>1, <2>2 DEF ViewStep
<1>3. CASE DataStep
  <2>1. ASSUME NEW v \in Vars, CreateMapped(v) PROVE DataInv'
    <3>1. VKCreateBuffer(v) /\ held'[v] \in Tags
      BY <2>1, CreatedBuffer DEF CreateMapped
    <3> QED
      BY <2>1, <3>1, CreateDirectStep DEF CreateMapped
  <2>2. ASSUME NEW v \in Vars, NEW size \in Sizes, CreateGpuOnly(v, size) PROVE DataInv'
    BY <2>2, CreateQueuedStep
  <2> QED
    BY <1>3, <2>1, <2>2, FlushStep, FlushNothingStep DEF DataStep
<1>4. CASE UNCHANGED allVars
  BY <1>4, DataUntouched DEF allVars, vars
<1> QED
  BY <1>1, <1>2, <1>3, <1>4 DEF AllNext

(* A buffer has the data it was created with once uploads are flushed, and *)
(* nothing else before, for clients that flush before they destroy and     *)
(* queue less than 2^32 bytes.                                             *)
THEOREM DataCorrect == AllSpec => []InitialDataArrives
<1>1. DataInv => InitialDataArrives
  BY DEF DataInv, UploadsSound, InitialDataArrives
<1> QED
  BY <1>1, BufferInvariance, InitDataInv, NextDataInv, PTL DEF AllSpec
=============================================================================
