------------------------------- MODULE Lemmas -------------------------------
(***************************************************************************)
(* What the proofs of several components need: facts about sets of         *)
(* numbers; what the operations of a ResourcePool preserve, for every      *)
(* pool, every resource and every width of the generation; and what        *)
(* submitting to a driver's queue and finishing its head do to the batches *)
(* pending, for any queues and any kind of batch.                          *)
(***************************************************************************)
EXTENDS Pool, SequenceTheorems, WellFoundedInduction, TLAPS

(* A set of numbers has a least one.                                       *)
LEMMA Least ==
  ASSUME NEW T \in SUBSET Nat, T # {}
  PROVE  \E m \in T : \A k \in T : m <= k
<1> DEFINE R == {ss \in Nat \X Nat : ss[1] < ss[2]}
<1>1. IsWellFoundedOn(R, Nat)
  BY NatLessThanWellFounded DEF OpToRel
<1>2. PICK m \in T : \A k \in T : ~ (<<k, m>> \in R)
  <2> HIDE DEF R
  <2>1. QED BY <1>1, WFMin
<1>3. ASSUME NEW k \in T PROVE m <= k
  <2>1. k \in Nat /\ m \in Nat /\ ~ (<<k, m>> \in R)
    BY <1>2
  <2>2. ~ (k < m)
    BY <2>1
  <2>3. QED BY <2>1, <2>2
<1>4. QED BY <1>3

(* A set that has 0 and with each number the next has all of them.         *)
LEMMA AllNumbers ==
  ASSUME NEW P, NEW n \in Nat, 0 \in P,
         \A m \in 0 .. n - 1 : m \in P => m + 1 \in P
  PROVE  0 .. n \subseteq P
<1> DEFINE T == {k \in 0 .. n : k \notin P}
<1>1. ASSUME T # {} PROVE FALSE
  <2>1. PICK k \in T : \A j \in T : k <= j
    <3>1. T \in SUBSET Nat
      OBVIOUS
    <3>2. QED BY <1>1, <3>1, Least
  <2>2. k \in 0 .. n /\ k \notin P /\ k # 0
    BY <2>1
  <2>3. k - 1 \in 0 .. n - 1 /\ k - 1 + 1 = k
    BY <2>2
  <2>4. k - 1 \in P
    BY <2>1, <2>2
  <2>5. QED BY <2>2, <2>3, <2>4
<1>2. QED BY <1>1

(* A set of numbers up to n has a greatest one.                            *)
LEMMA Greatest ==
  ASSUME NEW n \in Nat, NEW I \in SUBSET (1 .. n), I # {}
  PROVE  \E m \in I : \A k \in I : k <= m
<1> DEFINE T == {n - k : k \in I}
<1>1. T \in SUBSET Nat /\ T # {}
  OBVIOUS
<1>2. PICK d \in T : \A k \in T : d <= k
  BY <1>1, Least
<1>3. PICK m \in I : d = n - m
  BY <1>2
<1>4. ASSUME NEW k \in I PROVE k <= m
  <2>1. n - k \in T
    OBVIOUS
  <2>2. n - m <= n - k
    BY <1>2, <1>3, <2>1
  <2>3. QED BY <2>2
<1>5. QED BY <1>4

-----------------------------------------------------------------------------
(* The invariant of a pool that holds resources R.                         *)
PoolOK(p, R) == IsPool(p, R) /\ FreeListExact(p)

(* The generation of a reused slot, truncated to its width.                *)
LEMMA NextGenInGens ==
  ASSUME NEW g \in Gens
  PROVE  (g + 1) % GenMod \in Gens
<1>1. g + 1 \in Int /\ GenMod \in Int /\ GenMod > 0
  BY GenModAssumption DEF Gens
<1>2. ASSUME NEW a \in Int, NEW m \in Int, m > 0
      PROVE  a % m \in 0 .. m - 1
  BY <1>2
<1> QED
  BY <1>1, <1>2 DEF Gens

(* The constructor and clear() establish it.                               *)
LEMMA EmptyPoolOK ==
  ASSUME NEW R
  PROVE  /\ PoolOK(EmptyPool, R)
         /\ Occupied(EmptyPool) = {}
         /\ Visited(EmptyPool) = Slots(EmptyPool)
<1>1. /\ EmptyPool.size = 1
      /\ EmptyPool.res = [i \in 0 .. 0 |-> NullRes]
      /\ EmptyPool.gen = [i \in 0 .. 0 |-> 1]
      /\ EmptyPool.free = <<>>
  BY DEF EmptyPool
<1>2. Slots(EmptyPool) = {}
  BY <1>1 DEF Slots
<1>3. IsPool(EmptyPool, R)
  BY <1>1, GenModAssumption DEF IsPool, EmptyPool, Slots, Gens
<1>4. FreeListExact(EmptyPool)
  BY <1>1, <1>2 DEF FreeListExact
<1> QED
  BY <1>2, <1>3, <1>4 DEF PoolOK, Occupied, Visited

(* allocate() with an empty free list pushes a slot.                       *)
LEMMA AllocatedPush ==
  ASSUME NEW R, NEW p, PoolOK(p, R), NEW r \in R, r # NullRes, p.free = <<>>
  PROVE  /\ PoolOK(Allocated(p, r), R)
         /\ NewHandle(p).index = p.size
         /\ NewHandle(p).gen \in Gens
         /\ Occupied(Allocated(p, r)) = Occupied(p) \cup {p.size}
         /\ \A i \in Slots(p) : Allocated(p, r).res[i] = p.res[i]
         /\ Allocated(p, r).res[p.size] = r
         /\ Visited(p) = Slots(p) =>
               Visited(Allocated(p, r)) = Slots(Allocated(p, r))
<1> DEFINE q == Allocated(p, r)
<1>1. /\ q.size = p.size + 1
      /\ q.res = [i \in 0 .. p.size |-> IF i = p.size THEN r ELSE p.res[i]]
      /\ q.gen = [i \in 0 .. p.size |-> IF i = p.size THEN 1 ELSE p.gen[i]]
      /\ q.free = <<>>
  BY DEF Allocated
<1>2. q = [size |-> q.size, res |-> q.res, gen |-> q.gen, free |-> q.free]
  BY DEF Allocated
<1>3. p.size \in Nat \ {0}
  BY DEF PoolOK, IsPool
<1> HIDE DEF q
<1>4. IsPool(q, R)
  BY <1>1, <1>2, <1>3, GenModAssumption DEF PoolOK, IsPool, Slots, Gens
<1>5. FreeListExact(q)
  BY <1>1, <1>3 DEF PoolOK, IsPool, FreeListExact, Slots
<1>6. Occupied(q) = Occupied(p) \cup {p.size}
  BY <1>1, <1>3 DEF Occupied, Slots
<1>7. NewHandle(p).index = p.size /\ NewHandle(p).gen \in Gens
  BY GenModAssumption DEF NewHandle, Gens
<1>8. Visited(p) = Slots(p) => Visited(q) = Slots(q)
  BY <1>1, <1>3 DEF Visited, Slots
<1> QED
  BY <1>1, <1>3, <1>4, <1>5, <1>6, <1>7, <1>8 DEF PoolOK, Slots, q

(* allocate() with a free slot reuses it.                                  *)
LEMMA AllocatedPop ==
  ASSUME NEW R, NEW p, PoolOK(p, R), NEW r \in R, r # NullRes, p.free # <<>>
  PROVE  /\ PoolOK(Allocated(p, r), R)
         /\ PoppedSlot(p) \in Slots(p) \ Occupied(p)
         /\ NewHandle(p).index = PoppedSlot(p)
         /\ NewHandle(p).gen \in Gens
         /\ Slots(Allocated(p, r)) = Slots(p)
         /\ Occupied(Allocated(p, r)) = Occupied(p) \cup {PoppedSlot(p)}
         /\ \A i \in Slots(p) \ {PoppedSlot(p)} :
               Allocated(p, r).res[i] = p.res[i]
         /\ Allocated(p, r).res[PoppedSlot(p)] = r
         /\ NewHandle(p).gen # 0 /\ Visited(p) = Slots(p) =>
               Visited(Allocated(p, r)) = Slots(Allocated(p, r))
<1> DEFINE q == Allocated(p, r)
           s == PoppedSlot(p)
           n == Len(p.free)
<1>1. /\ p.size \in Nat \ {0}
      /\ p.res \in [0 .. p.size - 1 -> R \cup {NullRes}]
      /\ p.gen \in [0 .. p.size - 1 -> Gens]
      /\ p.free \in Seq(Slots(p))
      /\ p.res[0] = NullRes
  BY DEF PoolOK, IsPool
<1>2. n \in Nat \ {0} /\ s \in Slots(p) /\ s = p.free[n]
  BY <1>1 DEF PoppedSlot
<1>3. /\ q.size = p.size
      /\ q.res = [p.res EXCEPT ![s] = r]
      /\ q.gen = [p.gen EXCEPT ![s] = (@ + 1) % GenMod]
      /\ q.free = SubSeq(p.free, 1, n - 1)
      /\ q = [size |-> q.size, res |-> q.res, gen |-> q.gen, free |-> q.free]
  BY DEF Allocated
<1>4. /\ q.free \in Seq(Slots(p))
      /\ Len(q.free) = n - 1
      /\ \A i \in 1 .. n - 1 : q.free[i] = p.free[i]
  BY <1>1, <1>2, <1>3
<1>5. p.res[s] = NullRes
  BY <1>2 DEF PoolOK, FreeListExact
<1>6. (p.gen[s] + 1) % GenMod \in Gens
  <2>1. s \in 0 .. p.size - 1
    BY <1>1, <1>2 DEF Slots
  <2>2. p.gen[s] \in Gens
    BY <1>1, <2>1
  <2> QED
    BY <2>2, NextGenInGens
<1>7. Slots(q) = Slots(p)
  BY <1>3 DEF Slots
<1> HIDE DEF q, s, n
<1>8. IsPool(q, R)
  <2>1. s \in 0 .. p.size - 1 /\ s # 0
    BY <1>1, <1>2 DEF Slots
  <2>2. q.res \in [0 .. p.size - 1 -> R \cup {NullRes}] /\ q.res[0] = NullRes
    BY <1>1, <1>3, <2>1
  <2>3. q.gen \in [0 .. p.size - 1 -> Gens]
    BY <1>1, <1>3, <1>6, <2>1
  <2> QED
    BY <1>1, <1>3, <1>4, <1>7, <2>2, <2>3 DEF IsPool
<1>9. FreeListExact(q)
  <2>1. \A i, j \in 1 .. Len(q.free) : q.free[i] = q.free[j] => i = j
    BY <1>2, <1>4 DEF PoolOK, FreeListExact, n
  <2>2. ASSUME NEW t \in Slots(q)
        PROVE  q.res[t] = NullRes <=> \E i \in 1 .. Len(q.free) : q.free[i] = t
    <3>1. CASE t = s
      <4>1. q.res[t] # NullRes
        BY <1>1, <1>2, <1>3, <3>1 DEF Slots
      <4>2. ~ \E i \in 1 .. n - 1 : p.free[i] = p.free[n]
        BY <1>2 DEF PoolOK, FreeListExact, n
      <4> QED
        BY <1>2, <1>4, <3>1, <4>1, <4>2
    <3>2. CASE t # s
      <4>1. q.res[t] = p.res[t]
        BY <1>1, <1>3, <1>7, <3>2 DEF Slots
      <4>2. p.res[t] = NullRes <=> \E i \in 1 .. n : p.free[i] = t
        BY <1>7 DEF PoolOK, FreeListExact, n
      <4> QED
        BY <1>2, <1>4, <3>2, <4>1, <4>2
    <3> QED
      BY <3>1, <3>2
  <2> QED
    BY <2>1, <2>2 DEF FreeListExact
<1>10. q.res[s] = r /\ \A i \in Slots(p) \ {s} : q.res[i] = p.res[i]
  BY <1>1, <1>2, <1>3 DEF Slots
<1>11. Occupied(q) = Occupied(p) \cup {s} /\ s \notin Occupied(p)
  BY <1>2, <1>5, <1>7, <1>10 DEF Occupied
<1>12. /\ NewHandle(p).index = s
       /\ NewHandle(p).gen = (p.gen[s] + 1) % GenMod
       /\ NewHandle(p).gen \in Gens
  BY <1>6 DEF NewHandle, s
<1>13. ASSUME NewHandle(p).gen # 0, Visited(p) = Slots(p)
       PROVE  Visited(q) = Slots(q)
  <2>1. \A i \in Slots(p) : q.gen[i] # 0
    <3>1. \A i \in Slots(p) : p.gen[i] # 0
      BY <1>13 DEF Visited
    <3>2. \A i \in Slots(p) :
            q.gen[i] = IF i = s THEN NewHandle(p).gen ELSE p.gen[i]
      BY <1>1, <1>3, <1>12 DEF Slots
    <3> QED
      BY <1>13, <3>1, <3>2
  <2> QED
    BY <1>7, <2>1 DEF Visited
<1> QED
  BY <1>2, <1>7, <1>8, <1>9, <1>10, <1>11, <1>12, <1>13 DEF PoolOK, q, s

(* free() of an occupied slot puts exactly this slot on the free list.     *)
LEMMA FreedOK ==
  ASSUME NEW R, NEW p, PoolOK(p, R), NEW h, h.index \in Occupied(p)
  PROVE  /\ PoolOK(Freed(p, h), R)
         /\ Slots(Freed(p, h)) = Slots(p)
         /\ Occupied(Freed(p, h)) = Occupied(p) \ {h.index}
         /\ \A i \in Slots(p) \ {h.index} : Freed(p, h).res[i] = p.res[i]
         /\ Visited(Freed(p, h)) = Visited(p)
<1> DEFINE q == Freed(p, h)
           s == h.index
           n == Len(p.free)
<1>1. /\ p.size \in Nat \ {0}
      /\ p.res \in [0 .. p.size - 1 -> R \cup {NullRes}]
      /\ p.gen \in [0 .. p.size - 1 -> Gens]
      /\ p.free \in Seq(Slots(p))
      /\ p.res[0] = NullRes
  BY DEF PoolOK, IsPool
<1>2. s \in Slots(p) /\ p.res[s] # NullRes
  BY DEF Occupied
<1>3. /\ q.size = p.size
      /\ q.res = [p.res EXCEPT ![s] = NullRes]
      /\ q.gen = p.gen
      /\ q.free = Append(p.free, s)
      /\ q = [size |-> q.size, res |-> q.res, gen |-> q.gen, free |-> q.free]
  BY DEF Freed
<1>4. /\ n \in Nat
      /\ q.free \in Seq(Slots(p))
      /\ Len(q.free) = n + 1
      /\ \A i \in 1 .. n : q.free[i] = p.free[i]
      /\ q.free[n + 1] = s
  BY <1>1, <1>2, <1>3
<1>5. Slots(q) = Slots(p)
  BY <1>3 DEF Slots
<1> HIDE DEF q, s, n
<1>6. IsPool(q, R)
  BY <1>1, <1>2, <1>3, <1>4, <1>5 DEF IsPool, Slots
<1>7. ~ \E i \in 1 .. n : p.free[i] = s
  BY <1>2 DEF PoolOK, FreeListExact, n
<1>8. FreeListExact(q)
  <2>1. \A i, j \in 1 .. Len(q.free) : q.free[i] = q.free[j] => i = j
    <3>1. \A i, j \in 1 .. n : p.free[i] = p.free[j] => i = j
      BY DEF PoolOK, FreeListExact, n
    <3> QED
      BY <1>4, <1>7, <3>1
  <2>2. ASSUME NEW t \in Slots(q)
        PROVE  q.res[t] = NullRes <=> \E i \in 1 .. Len(q.free) : q.free[i] = t
    <3>1. CASE t = s
      BY <1>1, <1>2, <1>3, <1>4, <3>1 DEF Slots
    <3>2. CASE t # s
      <4>1. q.res[t] = p.res[t]
        BY <1>1, <1>3, <1>5, <3>2 DEF Slots
      <4>2. p.res[t] = NullRes <=> \E i \in 1 .. n : p.free[i] = t
        BY <1>5 DEF PoolOK, FreeListExact, n
      <4> QED
        BY <1>4, <3>2, <4>1, <4>2
    <3> QED
      BY <3>1, <3>2
  <2> QED
    BY <2>1, <2>2 DEF FreeListExact
<1>9. q.res[s] = NullRes /\ \A i \in Slots(p) \ {s} : q.res[i] = p.res[i]
  BY <1>1, <1>2, <1>3 DEF Slots
<1>10. Occupied(q) = Occupied(p) \ {s}
  BY <1>5, <1>9 DEF Occupied
<1>11. Visited(q) = Visited(p)
  BY <1>3, <1>5 DEF Visited
<1> QED
  BY <1>5, <1>6, <1>8, <1>9, <1>10, <1>11 DEF PoolOK, q, s

(* allocate() either way: an empty slot is filled, and what the other      *)
(* occupied slots hold, and in which generation, stays.                    *)
LEMMA AllocatedOK ==
  ASSUME NEW R, NEW p, PoolOK(p, R), NEW r \in R, r # NullRes
  PROVE  /\ PoolOK(Allocated(p, r), R)
         /\ NewHandle(p) \in [index : Nat, gen : Gens]
         /\ NewHandle(p).index \notin Occupied(p)
         /\ Occupied(Allocated(p, r)) = Occupied(p) \cup {NewHandle(p).index}
         /\ \A i \in Occupied(p) : /\ Allocated(p, r).res[i] = p.res[i]
                                   /\ Allocated(p, r).gen[i] = p.gen[i]
         /\ Allocated(p, r).res[NewHandle(p).index] = r
         /\ Allocated(p, r).gen[NewHandle(p).index] = NewHandle(p).gen
<1>1. /\ p.size \in Nat \ {0}
      /\ p.gen \in [0 .. p.size - 1 -> Gens]
      /\ \A i \in Slots(p) : i \in 0 .. p.size - 1 /\ i # p.size /\ i \in Nat
  BY DEF PoolOK, IsPool, Slots
<1>2. NewHandle(p) = [index |-> NewHandle(p).index, gen |-> NewHandle(p).gen]
  BY DEF NewHandle
<1>3. CASE p.free = <<>>
  <2>1. /\ PoolOK(Allocated(p, r), R)
        /\ NewHandle(p).index = p.size
        /\ NewHandle(p).gen \in Gens
        /\ Occupied(Allocated(p, r)) = Occupied(p) \cup {p.size}
        /\ \A i \in Slots(p) : Allocated(p, r).res[i] = p.res[i]
        /\ Allocated(p, r).res[p.size] = r
    BY <1>3, AllocatedPush
  <2>2. /\ \A i \in Slots(p) : Allocated(p, r).gen[i] = p.gen[i]
        /\ Allocated(p, r).gen[p.size] = 1
        /\ NewHandle(p).gen = 1
    BY <1>1, <1>3 DEF Allocated, NewHandle
  <2>3. NewHandle(p) \in [index : Nat, gen : Gens]
    BY <1>1, <1>2, <2>1
  <2> QED
    BY <1>1, <2>1, <2>2, <2>3 DEF Occupied
<1>4. CASE p.free # <<>>
  <2> DEFINE s == PoppedSlot(p)
  <2>1. /\ PoolOK(Allocated(p, r), R)
        /\ s \in Slots(p) \ Occupied(p)
        /\ NewHandle(p).index = s
        /\ NewHandle(p).gen \in Gens
        /\ Occupied(Allocated(p, r)) = Occupied(p) \cup {s}
        /\ \A i \in Slots(p) \ {s} : Allocated(p, r).res[i] = p.res[i]
        /\ Allocated(p, r).res[s] = r
    BY <1>4, AllocatedPop
  <2>2. /\ Allocated(p, r).gen = [p.gen EXCEPT ![s] = (@ + 1) % GenMod]
        /\ NewHandle(p).gen = (p.gen[s] + 1) % GenMod
    BY <1>4 DEF Allocated, NewHandle
  <2> HIDE DEF s
  <2>3. /\ \A i \in Slots(p) \ {s} : Allocated(p, r).gen[i] = p.gen[i]
        /\ Allocated(p, r).gen[s] = NewHandle(p).gen
    BY <1>1, <2>1, <2>2
  <2>4. NewHandle(p) \in [index : Nat, gen : Gens]
    BY <1>1, <1>2, <2>1
  <2> QED
    BY <2>1, <2>3, <2>4 DEF Occupied
<1> QED
  BY <1>3, <1>4

(* A handle names a resource when its slot is occupied in its generation.  *)
LEMMA NamesOccupied ==
  ASSUME NEW R, NEW p, PoolOK(p, R), NEW h \in [index : Nat, gen : Gens]
  PROVE  IsAlive(p, h) /\ Get(p, h) # NullRes
           <=> isValid(h) /\ h.index \in Occupied(p) /\ p.gen[h.index] = h.gen
  BY DEF PoolOK, IsPool, IsAlive, Get, Occupied, Slots

-----------------------------------------------------------------------------
(* The driver's queues K as FIFOs w of batches drawn from a set B; a batch *)
(* comes from one of the CommandQueues I, each of which is on a queue vq   *)
(* and has a count sub of its submissions and a semaphore sem.  A present  *)
(* is an item of value 0: it signals no timeline.                          *)
InFifos(K, w) == UNION {{w[k][i] : i \in 1 .. Len(w[k])} : k \in K}

QueuesTyped(I, K, B, vq, sub, sem, w) ==
  /\ vq \in [I -> K]
  /\ sub \in [I -> Nat]
  /\ sem \in [I -> Nat]
  /\ \A q \in I : sem[q] <= sub[q]
  /\ w \in [K -> Seq(B)]

(* What the batches of B have in common.                                   *)
AreBatches(I, B) == \A b \in B : b.queue \in I /\ b.value \in Nat

(* A batch is on the queue of its CommandQueue, its value is above the     *)
(* semaphore and was counted, and those of one CommandQueue are in order.  *)
Ordered(K, vq, sub, sem, w) ==
  \A k \in K : \A i \in 1 .. Len(w[k]) :
    /\ vq[w[k][i].queue] = k
    /\ w[k][i].value # 0 =>
         /\ sem[w[k][i].queue] < w[k][i].value
         /\ w[k][i].value <= sub[w[k][i].queue]
         /\ \A j \in 1 .. i - 1 : w[k][j].queue = w[k][i].queue
                                    => w[k][j].value < w[k][i].value

(* Batch b is appended to queue k.                                         *)
Appended(K, B, w, k, b, v) ==
  w \in [K -> Seq(B)] /\ k \in K /\ b \in B /\ v = [w EXCEPT ![k] = Append(@, b)]

(* It counts as the next submission, or is a present.                      *)
Counted(sub, b, sub2) ==
  \/ b.value = 0 /\ sub2 = sub
  \/ b.value = sub[b.queue] + 1 /\ sub2 = [sub EXCEPT ![b.queue] = @ + 1]

(* The head of queue k goes.                                               *)
Removed(K, B, w, k, v) ==
  w \in [K -> Seq(B)] /\ k \in K /\ w[k] # <<>> /\ v = [w EXCEPT ![k] = Tail(@)]

(* A batch is pending if it has a position on a queue.                     *)
LEMMA InFifosIs ==
  ASSUME NEW K, NEW w, NEW x
  PROVE  x \in InFifos(K, w) <=> (\E k \in K : \E i \in 1 .. Len(w[k]) : x = w[k][i])
BY DEF InFifos

(* What a pending batch is.                                                *)
LEMMA FifoFacts ==
  ASSUME NEW I, NEW K, NEW B, NEW vq, NEW sub, NEW sem, NEW w,
         QueuesTyped(I, K, B, vq, sub, sem, w), Ordered(K, vq, sub, sem, w),
         NEW b \in InFifos(K, w)
  PROVE  /\ b \in B
         /\ b.value # 0 => sem[b.queue] < b.value /\ b.value <= sub[b.queue]
<1>1. PICK k \in K : \E i \in 1 .. Len(w[k]) : b = w[k][i]
  BY InFifosIs
<1>2. PICK i \in 1 .. Len(w[k]) : b = w[k][i]
  BY <1>1
<1>3. w[k] \in Seq(B)
  BY DEF QueuesTyped
<1>4. b \in B
  BY <1>2, <1>3, ElementOfSeq
<1>5. QED
  BY <1>2, <1>4 DEF Ordered

(* A batch is appended to one queue: the positions keep their batches.     *)
LEMMA AppendItem ==
  ASSUME NEW K, NEW B, NEW w, NEW k, NEW b, NEW v, Appended(K, B, w, k, b, v)
  PROVE  /\ v \in [K -> Seq(B)]
         /\ InFifos(K, v) = InFifos(K, w) \cup {b}
         /\ Len(w[k]) \in Nat /\ Len(v[k]) = Len(w[k]) + 1
         /\ \A i \in 1 .. Len(w[k]) : v[k][i] = w[k][i]
         /\ v[k][Len(w[k]) + 1] = b
         /\ \A m \in K \ {k} : v[m] = w[m]
<1> USE DEF Appended
<1> DEFINE s == w[k]
<1>1. s \in Seq(B) /\ Len(s) \in Nat /\ k \in K /\ b \in B
  BY LenProperties
<1>2. v[k] = Append(s, b) /\ \A m \in K \ {k} : v[m] = w[m]
  OBVIOUS
<1>3. /\ Append(s, b) \in Seq(B)
      /\ Len(Append(s, b)) = Len(s) + 1
      /\ \A i \in 1 .. Len(s) : Append(s, b)[i] = s[i]
      /\ Append(s, b)[Len(s) + 1] = b
  BY <1>1, AppendProperties
<1>4. InFifos(K, v) = InFifos(K, w) \cup {b}
  <2>1. ASSUME NEW x \in InFifos(K, v) PROVE x \in InFifos(K, w) \cup {b}
    <3>1. PICK m \in K : \E i \in 1 .. Len(v[m]) : x = v[m][i]
      BY <2>1 DEF InFifos
    <3>2. PICK i \in 1 .. Len(v[m]) : x = v[m][i]
      BY <3>1
    <3>3. CASE m # k
      BY <1>2, <3>2, <3>3, InFifosIs
    <3>4. CASE m = k /\ i \in 1 .. Len(s)
      BY <1>2, <1>3, <3>2, <3>4, InFifosIs
    <3>5. CASE m = k /\ i = Len(s) + 1
      BY <1>2, <1>3, <3>2, <3>5
    <3>6. QED
      BY <1>1, <1>2, <1>3, <3>2, <3>3, <3>4, <3>5
  <2>2. ASSUME NEW x \in InFifos(K, w) PROVE x \in InFifos(K, v)
    <3>1. PICK m \in K : \E i \in 1 .. Len(w[m]) : x = w[m][i]
      BY <2>2, InFifosIs
    <3>2. PICK i \in 1 .. Len(w[m]) : x = w[m][i]
      BY <3>1
    <3>3. i \in 1 .. Len(v[m]) /\ x = v[m][i]
      BY <1>1, <1>2, <1>3, <3>2
    <3>4. QED BY <3>3, InFifosIs
  <2>3. b \in InFifos(K, v)
    <3>1. Len(s) + 1 \in 1 .. Len(v[k]) /\ b = v[k][Len(s) + 1]
      BY <1>1, <1>2, <1>3
    <3>2. QED BY <1>1, <3>1, InFifosIs
  <2>4. QED BY <2>1, <2>2, <2>3
<1>5. v \in [K -> Seq(B)]
  BY <1>3
<1>6. QED BY <1>1, <1>2, <1>3, <1>4, <1>5

(* The head of one queue goes: the other batches move up by one.           *)
LEMMA RemoveHead ==
  ASSUME NEW K, NEW B, NEW w, NEW k, NEW v, Removed(K, B, w, k, v)
  PROVE  /\ v \in [K -> Seq(B)]
         /\ InFifos(K, w) = InFifos(K, v) \cup {Head(w[k])}
         /\ Head(w[k]) = w[k][1] /\ Head(w[k]) \in B
         /\ Len(w[k]) \in Nat \ {0} /\ Len(v[k]) = Len(w[k]) - 1
         /\ \A i \in 1 .. Len(v[k]) : v[k][i] = w[k][i + 1]
         /\ \A m \in K \ {k} : v[m] = w[m]
<1> USE DEF Removed
<1> DEFINE s == w[k]
<1>1. s \in Seq(B) /\ Len(s) \in Nat \ {0} /\ k \in K
  BY EmptySeq
<1>2. v[k] = Tail(s) /\ \A m \in K \ {k} : v[m] = w[m]
  OBVIOUS
<1>3. /\ Tail(s) \in Seq(B) /\ Head(s) \in B /\ Head(s) = s[1]
      /\ Len(Tail(s)) = Len(s) - 1
      /\ \A i \in 1 .. Len(Tail(s)) : Tail(s)[i] = s[i + 1]
  BY <1>1, HeadTailProperties
<1>4. InFifos(K, w) = InFifos(K, v) \cup {Head(s)}
  <2>1. ASSUME NEW x \in InFifos(K, v) PROVE x \in InFifos(K, w)
    <3>1. PICK m \in K : \E i \in 1 .. Len(v[m]) : x = v[m][i]
      BY <2>1 DEF InFifos
    <3>2. PICK i \in 1 .. Len(v[m]) : x = v[m][i]
      BY <3>1
    <3>3. CASE m # k
      BY <1>2, <3>2, <3>3, InFifosIs
    <3>4. CASE m = k
      <4>1. i + 1 \in 1 .. Len(s) /\ x = s[i + 1]
        BY <1>1, <1>2, <1>3, <3>2, <3>4
      <4>2. QED BY <4>1, InFifosIs
    <3>5. QED BY <3>3, <3>4
  <2>2. ASSUME NEW x \in InFifos(K, w) PROVE x \in InFifos(K, v) \cup {Head(s)}
    <3>1. PICK m \in K : \E i \in 1 .. Len(w[m]) : x = w[m][i]
      BY <2>2, InFifosIs
    <3>2. PICK i \in 1 .. Len(w[m]) : x = w[m][i]
      BY <3>1
    <3>3. CASE m # k
      <4>1. i \in 1 .. Len(v[m]) /\ x = v[m][i]
        BY <1>2, <3>2, <3>3
      <4>2. QED BY <4>1, InFifosIs
    <3>4. CASE m = k /\ i = 1
      BY <1>3, <3>2, <3>4
    <3>5. CASE m = k /\ i # 1
      <4>1. i - 1 \in 1 .. Len(v[k]) /\ x = v[k][i - 1]
        BY <1>1, <1>2, <1>3, <3>2, <3>5
      <4>2. QED BY <4>1, InFifosIs
    <3>6. QED BY <3>3, <3>4, <3>5
  <2>3. Head(s) \in InFifos(K, w)
    BY <1>1, <1>3, InFifosIs
  <2>4. QED BY <2>1, <2>2, <2>3
<1>5. v \in [K -> Seq(B)]
  BY <1>3
<1>6. QED BY <1>1, <1>2, <1>3, <1>4, <1>5

-----------------------------------------------------------------------------
(* A batch of the next value, or a present, is appended: order is kept.    *)
LEMMA OrderedAppend ==
  ASSUME NEW I, NEW K, NEW B, NEW vq, NEW sub, NEW sem, NEW w, AreBatches(I, B),
         QueuesTyped(I, K, B, vq, sub, sem, w), Ordered(K, vq, sub, sem, w),
         NEW b, NEW v, Appended(K, B, w, vq[b.queue], b, v), NEW sub2, Counted(sub, b, sub2)
  PROVE  QueuesTyped(I, K, B, vq, sub2, sem, v) /\ Ordered(K, vq, sub2, sem, v)
<1> DEFINE q == b.queue
           k == vq[q]
<1>1. b \in B /\ q \in I /\ b.value \in Nat /\ k \in K
  BY DEF AreBatches, QueuesTyped, Appended
<1>2. /\ v \in [K -> Seq(B)]
      /\ Len(w[k]) \in Nat /\ Len(v[k]) = Len(w[k]) + 1
      /\ \A i \in 1 .. Len(w[k]) : v[k][i] = w[k][i]
      /\ v[k][Len(w[k]) + 1] = b
      /\ \A m \in K \ {k} : v[m] = w[m]
  BY AppendItem
<1> HIDE DEF k, q
<1>3. /\ sub2 \in [I -> Nat]
      /\ \A r \in I : /\ sub[r] \in Nat /\ sub2[r] \in Nat
                      /\ sem[r] \in Nat
                      /\ sem[r] <= sub[r]
                      /\ sub[r] <= sub2[r]
      /\ b.value # 0 => b.value = sub[q] + 1 /\ sub2[q] = sub[q] + 1
  <2>1. CASE b.value = 0 /\ sub2 = sub
    BY <1>1, <2>1 DEF QueuesTyped
  <2>2. CASE /\ b.value = sub[q] + 1
             /\ sub2 = [sub EXCEPT ![q] = @ + 1]
    BY <1>1, <2>2 DEF QueuesTyped
  <2>3. QED BY <2>1, <2>2 DEF q, Counted
<1>4. QueuesTyped(I, K, B, vq, sub2, sem, v)
  BY <1>2, <1>3 DEF QueuesTyped
<1>5. ASSUME NEW m \in K, NEW i \in 1 .. Len(w[m])
      PROVE  w[m][i].queue \in I /\ w[m][i].value \in Nat
  BY ElementOfSeq DEF QueuesTyped, AreBatches
<1>6. Ordered(K, vq, sub2, sem, v)
  <2> SUFFICES ASSUME NEW m \in K, NEW i \in 1 .. Len(v[m])
               PROVE  /\ vq[v[m][i].queue] = m
                      /\ v[m][i].value # 0 =>
                           /\ sem[v[m][i].queue] < v[m][i].value
                           /\ v[m][i].value <= sub2[v[m][i].queue]
                           /\ \A j \in 1 .. i - 1 :
                                v[m][j].queue = v[m][i].queue => v[m][j].value < v[m][i].value
    BY DEF Ordered
  <2>1. CASE i \in 1 .. Len(w[m])
    <3>1. \A j \in 1 .. i : v[m][j] = w[m][j]
      BY <1>2, <2>1
    <3>2. /\ vq[w[m][i].queue] = m
          /\ w[m][i].value # 0 =>
               /\ sem[w[m][i].queue] < w[m][i].value
               /\ w[m][i].value <= sub[w[m][i].queue]
               /\ \A j \in 1 .. i - 1 : w[m][j].queue = w[m][i].queue
                                          => w[m][j].value < w[m][i].value
      BY <2>1 DEF Ordered
    <3>3. v[m][i] = w[m][i]
      BY <2>1, <3>1
    <3>4. w[m][i].value # 0 => w[m][i].value <= sub2[w[m][i].queue]
      BY <1>3, <1>5, <2>1, <3>2
    <3>5. \A j \in 1 .. i - 1 : v[m][j] = w[m][j]
      BY <2>1, <3>1
    <3>6. QED
      BY <3>2, <3>3, <3>4, <3>5
  <2>2. CASE m = k /\ i = Len(w[k]) + 1
    <3>1. v[m][i] = b
      BY <1>2, <2>2
    <3>2. ASSUME b.value # 0, NEW j \in 1 .. i - 1, v[m][j].queue = q
          PROVE  v[m][j].value < b.value
      <4>1. j \in 1 .. Len(w[m]) /\ v[m][j] = w[m][j]
        BY <1>2, <2>2
      <4>2. w[m][j].value # 0 => w[m][j].value <= sub[q]
        BY <3>2, <4>1 DEF Ordered
      <4>3. QED BY <1>1, <1>3, <1>5, <3>2, <4>1, <4>2
    <3>3. b.value # 0 => sem[q] < b.value /\ b.value <= sub2[q]
      BY <1>1, <1>3
    <3>4. QED
      BY <2>2, <3>1, <3>2, <3>3 DEF k, q
  <2>3. i \in 1 .. Len(w[m]) \/ (m = k /\ i = Len(w[k]) + 1)
    BY <1>2
  <2>4. QED
    BY <2>1, <2>2, <2>3
<1>7. QED BY <1>4, <1>6

(* The head of a queue finishes: what is left lies above the semaphore.    *)
LEMMA OrderedRemove ==
  ASSUME NEW I, NEW K, NEW B, NEW vq, NEW sub, NEW sem, NEW w, AreBatches(I, B),
         QueuesTyped(I, K, B, vq, sub, sem, w), Ordered(K, vq, sub, sem, w),
         NEW k, NEW v, Removed(K, B, w, k, v), NEW sem2,
         \/ sem2 = sem
         \/ /\ Head(w[k]).value # 0
            /\ sem2 = [sem EXCEPT ![Head(w[k]).queue] = Head(w[k]).value]
  PROVE  QueuesTyped(I, K, B, vq, sub, sem2, v) /\ Ordered(K, vq, sub, sem2, v)
<1> DEFINE h == Head(w[k])
<1>1. /\ v \in [K -> Seq(B)]
      /\ h = w[k][1] /\ h \in B
      /\ Len(w[k]) \in Nat \ {0} /\ Len(v[k]) = Len(w[k]) - 1
      /\ \A i \in 1 .. Len(v[k]) : v[k][i] = w[k][i + 1]
      /\ \A m \in K \ {k} : v[m] = w[m]
  BY RemoveHead
<1>2. k \in K /\ h.queue \in I /\ h.value \in Nat
  BY <1>1 DEF AreBatches, Removed
<1>3. /\ vq[h.queue] = k
      /\ h.value # 0 => h.value <= sub[h.queue]
  BY <1>1, <1>2 DEF Ordered
<1> HIDE DEF h
<1>4. /\ sem2 \in [I -> Nat]
      /\ \A r \in I : r # h.queue => sem2[r] = sem[r]
      /\ \/ sem2[h.queue] = sem[h.queue]
         \/ h.value # 0 /\ sem2[h.queue] = h.value
  BY <1>2 DEF QueuesTyped, h
<1>5. QueuesTyped(I, K, B, vq, sub, sem2, v)
  BY <1>1, <1>2, <1>3, <1>4 DEF QueuesTyped
<1>6. Ordered(K, vq, sub, sem2, v)
  <2> SUFFICES ASSUME NEW m \in K, NEW i \in 1 .. Len(v[m])
               PROVE  /\ vq[v[m][i].queue] = m
                      /\ v[m][i].value # 0 =>
                           /\ sem2[v[m][i].queue] < v[m][i].value
                           /\ v[m][i].value <= sub[v[m][i].queue]
                           /\ \A j \in 1 .. i - 1 :
                                v[m][j].queue = v[m][i].queue => v[m][j].value < v[m][i].value
    BY DEF Ordered
  <2> DEFINE d == IF m = k THEN 1 ELSE 0
  <2>1. /\ i + d \in 1 .. Len(w[m]) /\ d \in Nat
        /\ v[m][i] = w[m][i + d]
        /\ \A j \in 1 .. i - 1 : v[m][j] = w[m][j + d] /\ j + d \in 1 .. i + d - 1
    <3>1. Len(w[m]) \in Nat
      BY LenProperties DEF QueuesTyped
    <3>2. CASE m = k
      BY <1>1, <3>1, <3>2
    <3>3. CASE m # k
      BY <1>1, <3>1, <3>3
    <3>4. QED BY <3>2, <3>3
  <2> DEFINE b == w[m][i + d]
  <2>2. b.queue \in I /\ b.value \in Nat
    BY <2>1, ElementOfSeq DEF QueuesTyped, AreBatches
  <2> HIDE DEF d
  <2>3. /\ vq[b.queue] = m
        /\ b.value # 0 =>
             /\ sem[b.queue] < b.value
             /\ b.value <= sub[b.queue]
             /\ \A j \in 1 .. i + d - 1 : w[m][j].queue = b.queue => w[m][j].value < b.value
    BY <2>1 DEF Ordered
  <2>4. b.value # 0 => sem2[b.queue] < b.value
    <3>1. CASE b.queue # h.queue
      BY <1>4, <2>2, <2>3, <3>1
    <3>2. CASE b.queue = h.queue
      <4>1. m = k /\ d = 1
        BY <1>3, <2>3, <3>2 DEF d
      <4>2. 1 \in 1 .. i + d - 1 /\ w[m][1] = h
        BY <1>1, <2>1, <4>1
      <4>3. b.value # 0 => h.value < b.value
        BY <2>3, <3>2, <4>2
      <4>4. QED BY <1>4, <2>3, <3>2, <4>3
    <3>3. QED BY <3>1, <3>2
  <2>5. \A j \in 1 .. i - 1 : b.value # 0 /\ v[m][j].queue = b.queue => v[m][j].value < b.value
    BY <2>1, <2>3
  <2>6. QED BY <2>1, <2>3, <2>4, <2>5
<1>7. QED BY <1>5, <1>6
=============================================================================
