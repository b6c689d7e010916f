---------------------------- MODULE Staging_proofs ----------------------------
(***************************************************************************)
(* The staging allocator and its two users for any sizes and any number of *)
(* chunks and uploads.  A chunk is in one place, because each list holds   *)
(* every chunk once and a chunk leaves one place before it enters another; *)
(* and ranges are disjoint, because no offset of a chunk ever decreases:   *)
(* what is handed out next lies above everything handed out before.        *)
(***************************************************************************)
EXTENDS Staging, Lemmas, FiniteSetTheorems

ChunkType ==
  /\ allChunks \in Seq([size : Nat, offset : Nat])
  /\ current \in 0 .. Len(allChunks)
  /\ inFlight \in Seq([chunk : Nat, id : Nat, size : Nat])
  /\ free \in Seq([chunk : Nat, size : Nat])

(* An entry of a list is a copy of the chunk it names, except the offset.  *)
CopyOf(e) == /\ e.chunk \in 1 .. Len(allChunks)
             /\ e.size = allChunks[e.chunk].size

Copies == /\ \A i \in 1 .. Len(inFlight) : CopyOf(inFlight[i])
          /\ \A i \in 1 .. Len(free) : CopyOf(free[i])

(* No chunk is in two places.                                              *)
Placed ==
  /\ \A i \in 1 .. Len(inFlight) :
       /\ inFlight[i].chunk # current
       /\ \A j \in 1 .. Len(inFlight) : inFlight[i].chunk = inFlight[j].chunk => i = j
       /\ \A j \in 1 .. Len(free) : inFlight[i].chunk # free[j].chunk
  /\ \A i \in 1 .. Len(free) :
       /\ free[i].chunk # current
       /\ \A j \in 1 .. Len(free) : free[i].chunk = free[j].chunk => i = j

(* What was handed out of a chunk lies below its offset.                   *)
Below(r) == /\ r.chunk \in 1 .. Len(allChunks)
            /\ r.from \in Nat /\ r.to \in Nat /\ r.from < r.to
            /\ r.to <= allChunks[r.chunk].offset

RangesBelow == \A r \in LiveRanges : Below(r)

UserType == /\ uploads \in Nat /\ flushes \in Nat
            /\ immediate \in {"idle", "batch", "copying", "submit", "retire"}

AllocatorOK == ChunkType /\ Copies /\ Placed

(* The inductive invariant.                                                *)
IInv == AllocatorOK /\ UserType /\ RangesBelow /\ LiveRangesDisjoint

-----------------------------------------------------------------------------
(* The stated invariants follow.                                           *)
LEMMA IInvTypeOK == IInv => TypeOK
BY DEF IInv, AllocatorOK, ChunkType, Copies, CopyOf, TypeOK

(* A set without two elements has at most one.                             *)
LEMMA AtMostOne ==
  ASSUME NEW S, \A x, y \in S : x = y
  PROVE  Cardinality(S) <= 1
<1>1. CASE S = {}
  BY <1>1, FS_EmptySet
<1>2. CASE S # {}
  <2>1. PICK x : x \in S
    BY <1>2
  <2>2. S = {x}
    BY <2>1
  <2>3. QED BY <2>2, FS_Singleton
<1>3. QED BY <1>1, <1>2

(* Being in no two places is what ChunkPlacedOnce counts.                  *)
LEMMA IInvPlaced == IInv => ChunkPlacedOnce
<1> SUFFICES ASSUME IInv, NEW c \in 1 .. Len(allChunks)
             PROVE  Cardinality(Places(c)) <= 1
  BY DEF ChunkPlacedOnce
<1>1. ASSUME NEW p \in Places(c)
      PROVE  \/ current = c /\ p = <<"current", 0>>
             \/ \E i \in 1 .. Len(inFlight) : inFlight[i].chunk = c /\ p = <<"inFlight", i>>
             \/ \E i \in 1 .. Len(free) : free[i].chunk = c /\ p = <<"free", i>>
  BY DEF Places
<1>2. ASSUME NEW p \in Places(c), NEW r \in Places(c)
      PROVE  p = r
  <2> USE DEF IInv, AllocatorOK, Placed
  <2>1. CASE current = c /\ p = <<"current", 0>>
    BY <1>1, <2>1
  <2>2. CASE \E i \in 1 .. Len(inFlight) : inFlight[i].chunk = c /\ p = <<"inFlight", i>>
    BY <1>1, <2>2
  <2>3. CASE \E i \in 1 .. Len(free) : free[i].chunk = c /\ p = <<"free", i>>
    BY <1>1, <2>3
  <2>4. QED BY <1>1, <2>1, <2>2, <2>3
<1>3. QED BY <1>2, AtMostOne

(* Nothing is allocated yet.                                               *)
LEMMA InitIInv == Init => IInv
<1> SUFFICES ASSUME Init PROVE IInv
  OBVIOUS
<1>1. Len(allChunks) = 0 /\ Len(inFlight) = 0 /\ Len(free) = 0
  BY EmptySeq DEF Init
<1>2. AllocatorOK
  BY <1>1, EmptySeq DEF Init, AllocatorOK, ChunkType, Copies, Placed
<1>3. LiveRanges = {}
  BY DEF Init, LiveRanges
<1>4. QED
  BY <1>2, <1>3 DEF Init, IInv, UserType, RangesBelow, LiveRangesDisjoint

-----------------------------------------------------------------------------
(* All of a sequence but its last element, and all but its first n.        *)
LEMMA Prefix ==
  ASSUME NEW S, NEW s \in Seq(S), Len(s) # 0
  PROVE  /\ SubSeq(s, 1, Len(s) - 1) \in Seq(S)
         /\ Len(SubSeq(s, 1, Len(s) - 1)) = Len(s) - 1
         /\ \A i \in 1 .. Len(s) - 1 : SubSeq(s, 1, Len(s) - 1)[i] = s[i]
<1>1. /\ Len(s) \in Nat
      /\ \A i \in 1 .. Len(s) : s[i] \in S
  BY LenProperties, ElementOfSeq
<1>2. PICK m \in Nat : m = Len(s) - 1
  BY <1>1
<1>3. \A i \in 1 .. m : s[i] \in S
  BY <1>1, <1>2
<1>4. /\ SubSeq(s, 1, m) \in Seq(S)
      /\ Len(SubSeq(s, 1, m)) = IF 1 <= m THEN m - 1 + 1 ELSE 0
      /\ \A i \in 1 .. m - 1 + 1 : SubSeq(s, 1, m)[i] = s[1 + i - 1]
  BY <1>3, SubSeqProperties
<1>5. Len(SubSeq(s, 1, m)) = m
  <2>1. CASE 1 <= m
    BY <1>4, <2>1
  <2>2. CASE m = 0
    BY <1>4, <2>2
  <2>3. QED BY <1>2, <2>1, <2>2
<1>6. ASSUME NEW i \in 1 .. m PROVE SubSeq(s, 1, m)[i] = s[i]
  <2>1. 1 + i - 1 = i /\ i \in 1 .. m - 1 + 1
    BY <1>2
  <2>2. QED BY <1>4, <2>1
<1>7. QED BY <1>2, <1>4, <1>5, <1>6

(* All of a sequence but its first n elements.                             *)
LEMMA Suffix ==
  ASSUME NEW S, NEW s \in Seq(S), NEW n \in 0 .. Len(s)
  PROVE  /\ SubSeq(s, n + 1, Len(s)) \in Seq(S)
         /\ Len(SubSeq(s, n + 1, Len(s))) = Len(s) - n
         /\ \A i \in 1 .. Len(s) - n : SubSeq(s, n + 1, Len(s))[i] = s[n + i]
<1>1. Len(s) \in Nat /\ n \in Nat
  BY LenProperties
<1>2. \A i \in n + 1 .. Len(s) : s[i] \in S
  BY <1>1, ElementOfSeq
<1>3. /\ SubSeq(s, n + 1, Len(s)) \in Seq(S)
      /\ Len(SubSeq(s, n + 1, Len(s))) = IF n + 1 <= Len(s) THEN Len(s) - (n + 1) + 1 ELSE 0
      /\ \A i \in 1 .. Len(s) - (n + 1) + 1 :
           SubSeq(s, n + 1, Len(s))[i] = s[n + 1 + i - 1]
  BY <1>1, <1>2, SubSeqProperties
<1>4. Len(SubSeq(s, n + 1, Len(s))) = Len(s) - n
  BY <1>1, <1>3
<1>5. ASSUME NEW i \in 1 .. Len(s) - n
      PROVE  SubSeq(s, n + 1, Len(s))[i] = s[n + i]
  <2>1. n + 1 + i - 1 = n + i /\ i \in 1 .. Len(s) - (n + 1) + 1
    BY <1>1
  <2>2. QED BY <1>3, <2>1
<1>6. QED BY <1>3, <1>4, <1>5

-----------------------------------------------------------------------------
(* Aligning rounds up.                                                     *)
LEMMA AlignedAbove ==
  ASSUME NEW n \in Nat
  PROVE  AlignUp(n) \in Nat /\ n <= AlignUp(n)
BY StagingAssumption DEF AlignUp

(* Taking room from chunk c, for a range that becomes the chunk's newest:  *)
(* offsets never decrease, and the range is above the old one.             *)
Grants(g, size) ==
  /\ Len(allChunks) <= Len(allChunks')
  /\ \A c \in 1 .. Len(allChunks) :
       /\ allChunks'[c].size = allChunks[c].size
       /\ allChunks[c].offset <= allChunks'[c].offset
       /\ allChunks'[c].offset \in Nat
  /\ g.chunk \in 1 .. Len(allChunks')
  /\ g.from \in Nat /\ g.to = g.from + size
  /\ g.to = allChunks'[g.chunk].offset
  /\ g.chunk \in 1 .. Len(allChunks) => allChunks[g.chunk].offset <= g.from

(* One chunk's offset advances.                                            *)
LEMMA AdvanceChunk ==
  ASSUME ChunkType, NEW c \in 1 .. Len(allChunks), NEW size \in Sizes,
         allChunks' = [allChunks EXCEPT ![c] = Advanced(@, size)]
  PROVE  /\ allChunks' \in Seq([size : Nat, offset : Nat])
         /\ Len(allChunks') = Len(allChunks) /\ Len(allChunks) \in Nat
         /\ Grants(RangeIn(allChunks[c], c, size), size)
<1>1. PICK e : e = allChunks[c]
  OBVIOUS
<1>2. e \in [size : Nat, offset : Nat] /\ Len(allChunks) \in Nat
  BY <1>1, ElementOfSeq, LenProperties DEF ChunkType
<1>3. size \in Nat \ {0}
  BY StagingAssumption
<1>4. PICK n : n = AlignUp(e.offset)
  OBVIOUS
<1>5. n \in Nat /\ e.offset <= n
  BY <1>2, <1>4, AlignedAbove
<1>6. PICK a : a = Advanced(e, size)
  OBVIOUS
<1>7. a = [size |-> e.size, offset |-> n + size] /\ a \in [size : Nat, offset : Nat]
  BY <1>2, <1>3, <1>4, <1>5, <1>6 DEF Advanced
<1>8. allChunks' = [allChunks EXCEPT ![c] = a]
  BY <1>1, <1>6
<1>9. /\ allChunks' \in Seq([size : Nat, offset : Nat])
      /\ Len(allChunks') = Len(allChunks)
      /\ \A j \in 1 .. Len(allChunks) : allChunks'[j] = IF j = c THEN a ELSE allChunks[j]
  BY <1>7, <1>8, ExceptSeq, SMTT(30) DEF ChunkType
<1>10. \A j \in 1 .. Len(allChunks) : allChunks[j] \in [size : Nat, offset : Nat]
  BY ElementOfSeq DEF ChunkType
<1>11. PICK g : g = RangeIn(allChunks[c], c, size)
  OBVIOUS
<1>12. g.chunk = c /\ g.from = n /\ g.to = n + size
  BY <1>1, <1>4, <1>11 DEF RangeIn
<1>13. Grants(g, size)
  BY <1>1, <1>2, <1>3, <1>5, <1>7, <1>9, <1>10, <1>12 DEF Grants
<1>14. QED BY <1>2, <1>9, <1>11, <1>13

(* The entries of the lists stay copies when no chunk goes.                *)
LEMMA CopiesStay ==
  ASSUME ChunkType, NEW g, NEW size, Grants(g, size), NEW e, CopyOf(e)
  PROVE  CopyOf(e)'
<1>1. Len(allChunks) \in Nat
  BY LenProperties DEF ChunkType
<1>2. QED BY <1>1 DEF CopyOf, Grants

(* allocate(): the chunk used becomes the current one, from the free list, *)
(* from nowhere, or as it already was.                                     *)
LEMMA AllocateStep ==
  ASSUME AllocatorOK, NEW size \in Sizes, Allocate(size),
         NEW g, g = Granted(size)
  PROVE  AllocatorOK' /\ Grants(g, size)
<1>1. /\ Len(allChunks) \in Nat /\ Len(inFlight) \in Nat /\ Len(free) \in Nat
      /\ \A i \in 1 .. Len(inFlight) : inFlight[i] \in [chunk : Nat, id : Nat, size : Nat]
      /\ \A i \in 1 .. Len(free) : free[i] \in [chunk : Nat, size : Nat]
  BY LenProperties, ElementOfSeq DEF AllocatorOK, ChunkType
<1>2. CASE FromCurrent(size) /\ TakeCurrent(size)
  <2>1. current \in 1 .. Len(allChunks)
    BY <1>2 DEF FromCurrent, AllocatorOK, ChunkType
  <2>2. /\ allChunks' = [allChunks EXCEPT ![current] = Advanced(@, size)]
        /\ UNCHANGED <<current, inFlight, free>>
    BY <1>2 DEF TakeCurrent
  <2>3. /\ allChunks' \in Seq([size : Nat, offset : Nat])
        /\ Len(allChunks') = Len(allChunks)
        /\ Grants(RangeIn(allChunks[current], current, size), size)
    BY <2>1, <2>2, AdvanceChunk DEF AllocatorOK
  <2>4. g = RangeIn(allChunks[current], current, size)
    BY <1>2 DEF Granted
  <2>5. Copies'
    BY <2>2, <2>3, CopiesStay DEF AllocatorOK, Copies
  <2>6. QED BY <2>2, <2>3, <2>4, <2>5 DEF AllocatorOK, ChunkType, Placed
<1>3. CASE ~ FromCurrent(size) /\ FromFree(size) /\ TakeFree(size)
  <2>1. Len(free) \in 1 .. Len(free)
    BY <1>1, <1>3, EmptySeq DEF FromFree, AllocatorOK, ChunkType
  <2>2. PICK c : c = free[Len(free)].chunk
    OBVIOUS
  <2>3. c \in 1 .. Len(allChunks)
    BY <2>1, <2>2 DEF AllocatorOK, Copies, CopyOf
  <2>4. /\ current' = c
        /\ allChunks' = [allChunks EXCEPT ![c] = Advanced(@, size)]
        /\ free' = SubSeq(free, 1, Len(free) - 1)
        /\ inFlight' = inFlight
    BY <1>3, <2>2 DEF TakeFree, LastFree
  <2>5. /\ allChunks' \in Seq([size : Nat, offset : Nat])
        /\ Len(allChunks') = Len(allChunks)
        /\ Grants(RangeIn(allChunks[c], c, size), size)
    BY <2>3, <2>4, AdvanceChunk DEF AllocatorOK
  <2>6. g = RangeIn(allChunks[c], c, size)
    BY <1>3, <2>2 DEF Granted, LastFree
  <2>7. /\ free' \in Seq([chunk : Nat, size : Nat])
        /\ Len(free') = Len(free) - 1
        /\ \A i \in 1 .. Len(free') : i \in 1 .. Len(free) /\ i # Len(free)
                                      /\ free'[i] = free[i]
    <3>1. /\ free' \in Seq([chunk : Nat, size : Nat])
          /\ Len(free') = Len(free) - 1
          /\ \A i \in 1 .. Len(free) - 1 : free'[i] = free[i]
      <4>1. free \in Seq([chunk : Nat, size : Nat]) /\ Len(free) # 0
        BY <1>1, <2>1 DEF AllocatorOK, ChunkType
      <4>2. QED BY <2>4, <4>1, Prefix
    <3>2. \A i \in 1 .. Len(free) - 1 : i \in 1 .. Len(free) /\ i # Len(free)
      BY <1>1
    <3>3. QED BY <3>1, <3>2
  <2>8. ChunkType'
    BY <2>3, <2>4, <2>5, <2>7 DEF AllocatorOK, ChunkType
  <2>9. Copies'
    BY <2>4, <2>5, <2>7, CopiesStay DEF AllocatorOK, Copies
  <2>10. Placed'
    <3>1. \A i \in 1 .. Len(inFlight) :
            /\ inFlight[i].chunk # c
            /\ \A j \in 1 .. Len(inFlight) : inFlight[i].chunk = inFlight[j].chunk => i = j
            /\ \A j \in 1 .. Len(free) : inFlight[i].chunk # free[j].chunk
      BY <2>1, <2>2 DEF AllocatorOK, Placed
    <3>2. \A i, j \in 1 .. Len(free) : free[i].chunk = free[j].chunk => i = j
      BY DEF AllocatorOK, Placed
    <3>3. \A i \in 1 .. Len(free') :
            /\ free'[i].chunk # c
            /\ \A j \in 1 .. Len(free') : free'[i].chunk = free'[j].chunk => i = j
      BY <2>1, <2>2, <2>7, <3>2
    <3>4. current' = c /\ inFlight' = inFlight
      BY <2>4
    <3>5. \A i \in 1 .. Len(inFlight), j \in 1 .. Len(free') :
            inFlight[i].chunk # free'[j].chunk
      BY <2>7, <3>1
    <3>6. QED BY <3>1, <3>3, <3>4, <3>5, Zenon DEF Placed
  <2>11. QED BY <2>5, <2>6, <2>8, <2>9, <2>10 DEF AllocatorOK
<1>4. CASE ~ FromCurrent(size) /\ ~ FromFree(size) /\ TakeNew(size)
  <2>1. PICK e : e = Advanced(NewChunk(size), size)
    OBVIOUS
  <2>2. size \in Nat \ {0} /\ ChunkSize \in Nat
    BY StagingAssumption
  <2>3. PICK n : n = AlignUp(0)
    OBVIOUS
  <2>4. n \in Nat
    BY <2>3, AlignedAbove
  <2>5. e.offset = n + size /\ e \in [size : Nat, offset : Nat]
    BY <2>1, <2>2, <2>3, <2>4 DEF Advanced, NewChunk
  <2>6. /\ current' = Len(allChunks) + 1
        /\ allChunks' = Append(allChunks, e)
        /\ UNCHANGED <<inFlight, free>>
    BY <1>4, <2>1 DEF TakeNew
  <2>7. /\ allChunks' \in Seq([size : Nat, offset : Nat])
        /\ Len(allChunks') = Len(allChunks) + 1
        /\ \A i \in 1 .. Len(allChunks) : allChunks'[i] = allChunks[i]
        /\ allChunks'[Len(allChunks) + 1] = e
    BY <2>5, <2>6, AppendProperties DEF AllocatorOK, ChunkType
  <2>8. /\ g.chunk = Len(allChunks) + 1
        /\ g.from = n /\ g.to = n + size
    BY <1>4, <2>3 DEF Granted, RangeIn, NewChunk
  <2>9. \A i \in 1 .. Len(allChunks) : allChunks[i] \in [size : Nat, offset : Nat]
    BY ElementOfSeq DEF AllocatorOK, ChunkType
  <2>10. Grants(g, size)
    BY <1>1, <2>4, <2>5, <2>7, <2>8, <2>9 DEF Grants
  <2>11. ChunkType'
    BY <1>1, <2>6, <2>7 DEF AllocatorOK, ChunkType
  <2>12. Copies'
    BY <2>6, <2>10, CopiesStay DEF AllocatorOK, Copies
  <2>13. Placed'
    BY <1>1, <2>6 DEF AllocatorOK, Placed, Copies, CopyOf
  <2>14. QED BY <2>10, <2>11, <2>12, <2>13 DEF AllocatorOK
<1>5. QED BY <1>2, <1>3, <1>4 DEF Allocate

(* createChunk failed: there is no current chunk.                          *)
LEMMA AllocateFailsStep ==
  ASSUME AllocatorOK, NEW size, AllocateFails(size)
  PROVE  AllocatorOK' /\ allChunks' = allChunks
<1>1. current' = 0 /\ UNCHANGED <<allChunks, inFlight, free>>
  BY DEF AllocateFails
<1>2. Len(allChunks) \in Nat
  BY LenProperties DEF AllocatorOK, ChunkType
<1>3. ChunkType' /\ Copies'
  BY <1>1, <1>2 DEF AllocatorOK, ChunkType, Copies, CopyOf
<1>4. Placed'
  BY <1>1, <1>2 DEF AllocatorOK, Placed, Copies, CopyOf
<1>5. QED BY <1>1, <1>3, <1>4 DEF AllocatorOK

(* submit(): the current chunk goes on the in-flight list.                 *)
LEMMA SubmitChunkStep ==
  ASSUME AllocatorOK, NEW id \in Nat, SubmitChunk(id)
  PROVE  AllocatorOK' /\ allChunks' = allChunks
<1>1. current' = 0 /\ UNCHANGED <<allChunks, free>>
  BY DEF SubmitChunk
<1>2. Len(allChunks) \in Nat /\ Len(inFlight) \in Nat
  BY LenProperties DEF AllocatorOK, ChunkType
<1>3. CASE current = 0
  <2>1. inFlight' = inFlight
    BY <1>3 DEF SubmitChunk
  <2>2. ChunkType' /\ Copies' /\ Placed'
    BY <1>1, <1>2, <1>3, <2>1 DEF AllocatorOK, ChunkType, Copies, CopyOf, Placed
  <2>3. QED BY <1>1, <2>2 DEF AllocatorOK
<1>4. CASE current # 0
  <2>1. current \in 1 .. Len(allChunks)
    BY <1>2, <1>4 DEF AllocatorOK, ChunkType
  <2>2. PICK e : e = [chunk |-> current, id |-> id, size |-> allChunks[current].size]
    OBVIOUS
  <2>3. allChunks[current] \in [size : Nat, offset : Nat]
    BY <2>1, ElementOfSeq DEF AllocatorOK, ChunkType
  <2>4. /\ e \in [chunk : Nat, id : Nat, size : Nat] /\ e.chunk = current
        /\ CopyOf(e)
    BY <1>2, <2>1, <2>2, <2>3 DEF CopyOf
  <2>5. inFlight' = Append(inFlight, e)
    BY <1>4, <2>2 DEF SubmitChunk
  <2>6. /\ inFlight' \in Seq([chunk : Nat, id : Nat, size : Nat])
        /\ Len(inFlight') = Len(inFlight) + 1
        /\ \A i \in 1 .. Len(inFlight) : inFlight'[i] = inFlight[i]
        /\ inFlight'[Len(inFlight) + 1] = e
    BY <2>4, <2>5, AppendProperties DEF AllocatorOK, ChunkType
  <2>7. \A i \in 1 .. Len(inFlight') :
           i \in 1 .. Len(inFlight) \/ i = Len(inFlight) + 1
    BY <1>2, <2>6
  <2>8. ChunkType'
    BY <1>1, <1>2, <2>6 DEF AllocatorOK, ChunkType
  <2>9. Copies'
    BY <1>1, <2>4, <2>6, <2>7 DEF AllocatorOK, Copies, CopyOf
  <2>10. Placed'
    <3>1. \A i \in 1 .. Len(inFlight') :
            /\ inFlight'[i].chunk # 0
            /\ \A j \in 1 .. Len(inFlight') : inFlight'[i].chunk = inFlight'[j].chunk => i = j
            /\ \A j \in 1 .. Len(free) : inFlight'[i].chunk # free[j].chunk
      <4>1. ASSUME NEW i \in 1 .. Len(inFlight)
            PROVE  /\ inFlight'[i] = inFlight[i]
                   /\ inFlight[i].chunk \in 1 .. Len(allChunks)
                   /\ inFlight[i].chunk # current
                   /\ \A j \in 1 .. Len(inFlight) : inFlight[i].chunk = inFlight[j].chunk => i = j
                   /\ \A j \in 1 .. Len(free) : inFlight[i].chunk # free[j].chunk
        BY <2>6 DEF AllocatorOK, Placed, Copies, CopyOf
      <4>2. \A j \in 1 .. Len(free) : free[j].chunk # current
        BY DEF AllocatorOK, Placed
      <4>3. \A c \in 1 .. Len(allChunks) : c # 0
        BY <1>2
      <4>4. ASSUME NEW i \in 1 .. Len(inFlight')
            PROVE  /\ inFlight'[i].chunk # 0
                   /\ \A j \in 1 .. Len(free) : inFlight'[i].chunk # free[j].chunk
        <5>1. CASE i \in 1 .. Len(inFlight)
          BY <4>1, <4>3, <5>1
        <5>2. CASE i = Len(inFlight) + 1
          <6>1. inFlight'[i].chunk = current
            BY <2>4, <2>6, <5>2
          <6>2. QED BY <1>4, <4>2, <6>1
        <5>3. QED BY <2>7, <5>1, <5>2
      <4>5. ASSUME NEW i \in 1 .. Len(inFlight'), NEW j \in 1 .. Len(inFlight'),
                   inFlight'[i].chunk = inFlight'[j].chunk
            PROVE  i = j
        BY <2>4, <2>6, <2>7, <4>1, <4>5
      <4>6. QED BY <4>4, <4>5
    <3>2. QED BY <1>1, <1>2, <3>1 DEF AllocatorOK, Placed, Copies, CopyOf
  <2>11. QED BY <1>1, <2>8, <2>9, <2>10 DEF AllocatorOK
<1>5. QED BY <1>3, <1>4

-----------------------------------------------------------------------------
(* retire() takes a prefix of the in-flight list: the number of chunks     *)
(* before the first whose submission is not complete.                      *)
LEMMA RetirableIs ==
  ASSUME ChunkType, NEW id \in Nat
  PROVE  /\ Retirable(id) \in 0 .. Len(inFlight)
         /\ \A i \in 1 .. Retirable(id) : inFlight[i].id <= id
         /\ Retirable(id) < Len(inFlight) => inFlight[Retirable(id) + 1].id > id
<1> DEFINE T == {n \in 0 .. Len(inFlight) :
                   n < Len(inFlight) => inFlight[n + 1].id > id}
<1>1. Len(inFlight) \in Nat /\ \A i \in 1 .. Len(inFlight) : inFlight[i].id \in Nat
  <2>1. \A i \in 1 .. Len(inFlight) : inFlight[i] \in [chunk : Nat, id : Nat, size : Nat]
    BY ElementOfSeq DEF ChunkType
  <2>2. QED BY <2>1, LenProperties DEF ChunkType
<1>2. Len(inFlight) \in T /\ T \in SUBSET Nat
  BY <1>1
<1>3. PICK n \in T : \A k \in T : n <= k
  BY <1>2, Least
<1>4. ASSUME NEW i \in 1 .. n PROVE inFlight[i].id <= id
  <2>1. i - 1 \in 0 .. Len(inFlight) /\ i - 1 < Len(inFlight) /\ i \in 1 .. Len(inFlight)
        /\ i = (i - 1) + 1
    BY <1>1, <1>3
  <2>2. i - 1 \notin T
    <3>1. n \in Nat /\ ~ (n <= i - 1)
      BY <1>1
    <3>2. QED BY <1>3, <3>1
  <2>3. ~ (inFlight[i].id > id)
    BY <2>1, <2>2
  <2>4. QED BY <1>1, <2>1, <2>3
<1>5. \E m \in 0 .. Len(inFlight) :
        /\ \A i \in 1 .. m : inFlight[i].id <= id
        /\ m < Len(inFlight) => inFlight[m + 1].id > id
  BY <1>3, <1>4
<1>6. QED BY <1>5 DEF Retirable

(* Those chunks move to the end of the free list.                          *)
LEMMA RetireStep ==
  ASSUME AllocatorOK, NEW id \in Nat, Retire(id)
  PROVE  AllocatorOK' /\ allChunks' = allChunks
<1>1. PICK n : n = Retirable(id)
  OBVIOUS
<1>2. PICK moved : moved = [i \in 1 .. n |-> [chunk |-> inFlight[i].chunk,
                                             size  |-> inFlight[i].size]]
  OBVIOUS
<1>3. /\ free' = free \o moved
      /\ inFlight' = SubSeq(inFlight, n + 1, Len(inFlight))
      /\ UNCHANGED <<allChunks, current>>
  BY <1>1, <1>2 DEF Retire
<1>4. /\ Len(inFlight) \in Nat /\ Len(free) \in Nat /\ n \in 0 .. Len(inFlight)
      /\ \A i \in 1 .. Len(inFlight) : inFlight[i] \in [chunk : Nat, id : Nat, size : Nat]
  BY <1>1, LenProperties, ElementOfSeq, RetirableIs DEF AllocatorOK, ChunkType
<1>5. /\ moved \in Seq([chunk : Nat, size : Nat]) /\ Len(moved) = n
      /\ \A i \in 1 .. n : /\ i \in 1 .. Len(inFlight)
                           /\ moved[i].chunk = inFlight[i].chunk
                           /\ moved[i].size = inFlight[i].size
  <2>1. moved \in [1 .. n -> [chunk : Nat, size : Nat]]
    BY <1>2, <1>4
  <2>2. QED BY <1>2, <1>4, <2>1
<1>6. /\ free' \in Seq([chunk : Nat, size : Nat])
      /\ Len(free') = Len(free) + n
      /\ \A i \in 1 .. Len(free') :
           \/ i \in 1 .. Len(free) /\ free'[i] = free[i]
           \/ i - Len(free) \in 1 .. n /\ free'[i] = moved[i - Len(free)]
  <2>1. /\ free \o moved \in Seq([chunk : Nat, size : Nat])
        /\ Len(free \o moved) = Len(free) + Len(moved)
        /\ \A i \in 1 .. Len(free) + Len(moved) :
             (free \o moved)[i] = IF i <= Len(free) THEN free[i] ELSE moved[i - Len(free)]
    BY <1>5, ConcatProperties DEF AllocatorOK, ChunkType
  <2>2. QED BY <1>3, <1>4, <1>5, <2>1
<1>7. /\ inFlight' \in Seq([chunk : Nat, id : Nat, size : Nat])
      /\ Len(inFlight') = Len(inFlight) - n
      /\ \A i \in 1 .. Len(inFlight') : /\ n + i \in 1 .. Len(inFlight) /\ n + i > n
                                        /\ inFlight'[i] = inFlight[n + i]
  <2>1. /\ inFlight' \in Seq([chunk : Nat, id : Nat, size : Nat])
        /\ Len(inFlight') = Len(inFlight) - n
        /\ \A i \in 1 .. Len(inFlight) - n : inFlight'[i] = inFlight[n + i]
    BY <1>3, <1>4, Suffix DEF AllocatorOK, ChunkType
  <2>2. \A i \in 1 .. Len(inFlight) - n : n + i \in 1 .. Len(inFlight) /\ n + i > n
    BY <1>4
  <2>3. QED BY <2>1, <2>2
<1>8. ChunkType'
  BY <1>3, <1>6, <1>7 DEF AllocatorOK, ChunkType
<1>9. /\ \A i \in 1 .. Len(inFlight) : CopyOf(inFlight[i]) /\ inFlight[i].chunk # current
      /\ \A i, j \in 1 .. Len(inFlight) : inFlight[i].chunk = inFlight[j].chunk => i = j
      /\ \A i \in 1 .. Len(inFlight), j \in 1 .. Len(free) :
           inFlight[i].chunk # free[j].chunk
      /\ \A i \in 1 .. Len(free) : CopyOf(free[i]) /\ free[i].chunk # current
      /\ \A i, j \in 1 .. Len(free) : free[i].chunk = free[j].chunk => i = j
  BY DEF AllocatorOK, Placed, Copies
<1>10. \A i \in 1 .. Len(free') :
         \/ i \in 1 .. Len(free) /\ free'[i] = free[i]
         \/ \E m \in 1 .. n : /\ i = Len(free) + m /\ m \in 1 .. Len(inFlight)
                              /\ free'[i].chunk = inFlight[m].chunk
                              /\ free'[i].size = inFlight[m].size
  <2> SUFFICES ASSUME NEW i \in 1 .. Len(free'), i - Len(free) \in 1 .. n,
                      free'[i] = moved[i - Len(free)]
               PROVE  \E m \in 1 .. n : /\ i = Len(free) + m /\ m \in 1 .. Len(inFlight)
                                        /\ free'[i].chunk = inFlight[m].chunk
                                        /\ free'[i].size = inFlight[m].size
    BY <1>6
  <2>1. PICK m \in 1 .. n : m = i - Len(free)
    OBVIOUS
  <2>2. i = Len(free) + m
    BY <1>4, <1>6, <2>1
  <2>3. QED BY <1>5, <2>1, <2>2
<1>11. \A i \in 1 .. Len(inFlight') :
         \E m \in 1 .. Len(inFlight) : /\ m = n + i /\ ~ (m \in 1 .. n)
                                       /\ inFlight'[i] = inFlight[m]
  BY <1>4, <1>7
<1>12. Copies'
  <2>1. \A i \in 1 .. Len(free') : CopyOf(free'[i])
    <3> SUFFICES ASSUME NEW i \in 1 .. Len(free')
                 PROVE  CopyOf(free'[i])
      OBVIOUS
    <3>1. CASE i \in 1 .. Len(free) /\ free'[i] = free[i]
      BY <1>9, <3>1
    <3>2. CASE \E m \in 1 .. n : /\ i = Len(free) + m /\ m \in 1 .. Len(inFlight)
                                 /\ free'[i].chunk = inFlight[m].chunk
                                 /\ free'[i].size = inFlight[m].size
      BY <1>9, <3>2 DEF CopyOf
    <3>3. QED BY <1>10, <3>1, <3>2
  <2>2. \A i \in 1 .. Len(inFlight') : CopyOf(inFlight'[i])
    BY <1>9, <1>11
  <2>3. QED BY <1>3, <2>1, <2>2 DEF Copies, CopyOf
<1>13. ASSUME NEW i \in 1 .. Len(inFlight')
       PROVE  /\ inFlight'[i].chunk # current
              /\ \A j \in 1 .. Len(inFlight') : inFlight'[i].chunk = inFlight'[j].chunk => i = j
              /\ \A j \in 1 .. Len(free') : inFlight'[i].chunk # free'[j].chunk
  <2>1. PICK a \in 1 .. Len(inFlight) : /\ a = n + i /\ ~ (a \in 1 .. n)
                                        /\ inFlight'[i] = inFlight[a]
    BY <1>11
  <2>2. ASSUME NEW j \in 1 .. Len(inFlight'), inFlight'[i].chunk = inFlight'[j].chunk
        PROVE  i = j
    <3>1. PICK b \in 1 .. Len(inFlight) : b = n + j /\ inFlight'[j] = inFlight[b]
      BY <1>11
    <3>2. a = b
      BY <1>9, <2>1, <2>2, <3>1
    <3>3. QED BY <1>4, <1>7, <2>1, <3>1, <3>2
  <2>3. ASSUME NEW j \in 1 .. Len(free')
        PROVE  inFlight'[i].chunk # free'[j].chunk
    BY <1>9, <1>10, <2>1
  <2>4. QED BY <1>9, <2>1, <2>2, <2>3
<1>14. ASSUME NEW i \in 1 .. Len(free')
       PROVE  /\ free'[i].chunk # current
              /\ \A j \in 1 .. Len(free') : free'[i].chunk = free'[j].chunk => i = j
  <2>1. CASE i \in 1 .. Len(free) /\ free'[i] = free[i]
    BY <1>9, <1>10, <2>1
  <2>2. CASE \E m \in 1 .. n : /\ i = Len(free) + m /\ m \in 1 .. Len(inFlight)
                               /\ free'[i].chunk = inFlight[m].chunk
                               /\ free'[i].size = inFlight[m].size
    <3>1. PICK a \in 1 .. n : /\ i = Len(free) + a /\ a \in 1 .. Len(inFlight)
                              /\ free'[i].chunk = inFlight[a].chunk
      BY <2>2
    <3>2. ASSUME NEW j \in 1 .. Len(free'), free'[i].chunk = free'[j].chunk
          PROVE  i = j
      <4>1. CASE j \in 1 .. Len(free) /\ free'[j] = free[j]
        BY <1>9, <3>1, <3>2, <4>1
      <4>2. CASE \E m \in 1 .. n : /\ j = Len(free) + m /\ m \in 1 .. Len(inFlight)
                                   /\ free'[j].chunk = inFlight[m].chunk
                                   /\ free'[j].size = inFlight[m].size
        BY <1>9, <3>1, <3>2, <4>2
      <4>3. QED BY <1>10, <4>1, <4>2
    <3>3. QED BY <1>9, <3>1, <3>2
  <2>3. QED BY <1>10, <2>1, <2>2
<1>15. Placed'
  BY <1>3, <1>13, <1>14 DEF Placed
<1>16. QED BY <1>3, <1>8, <1>12, <1>15 DEF AllocatorOK

-----------------------------------------------------------------------------
(* Ranges after an allocation of g: the old ones stay below the offsets    *)
(* and below g, which belongs to the uploader that asked for it.           *)
LEMMA UploadRanges ==
  ASSUME IInv, NEW size \in Sizes, NEW g, Grants(g, size),
         \/ /\ immediateRange' \subseteq immediateRange \cup {g}
            /\ (pending \cup executing)' \subseteq pending \cup executing
         \/ /\ immediateRange' \subseteq immediateRange
            /\ (pending \cup executing)' \subseteq pending \cup executing \cup {g}
  PROVE  RangesBelow' /\ LiveRangesDisjoint'
<1>1. LiveRanges' \subseteq LiveRanges \cup {g}
  BY DEF LiveRanges
<1>2. size \in Nat \ {0} /\ Len(allChunks) \in Nat
  BY StagingAssumption, LenProperties DEF IInv, AllocatorOK, ChunkType
<1>3. \A c \in 1 .. Len(allChunks) : allChunks[c].offset \in Nat
  <2>1. \A c \in 1 .. Len(allChunks) : allChunks[c] \in [size : Nat, offset : Nat]
    BY ElementOfSeq DEF IInv, AllocatorOK, ChunkType
  <2>2. QED BY <2>1
<1>4. /\ g.chunk \in 1 .. Len(allChunks') /\ Len(allChunks) <= Len(allChunks')
      /\ g.from \in Nat /\ g.to = g.from + size /\ g.to = allChunks'[g.chunk].offset
      /\ g.chunk \in 1 .. Len(allChunks) => allChunks[g.chunk].offset <= g.from
      /\ \A c \in 1 .. Len(allChunks) : allChunks[c].offset <= allChunks'[c].offset
  BY DEF Grants
<1>5. Below(g)'
  BY <1>2, <1>4 DEF Below
<1>6. ASSUME NEW r \in LiveRanges
      PROVE  /\ r.from \in Nat /\ r.to \in Nat /\ r.from < r.to
             /\ r.chunk \in 1 .. Len(allChunks)
             /\ r.to <= allChunks[r.chunk].offset
  BY DEF IInv, RangesBelow, Below
<1>7. ASSUME NEW r \in LiveRanges, r.chunk = g.chunk PROVE r.to <= g.from
  BY <1>3, <1>4, <1>6, <1>7
<1>8. g \notin LiveRanges
  BY <1>2, <1>4, <1>6, <1>7
<1>9. ASSUME NEW r \in LiveRanges PROVE Below(r)'
  <2>1. /\ r.chunk \in 1 .. Len(allChunks')
        /\ allChunks[r.chunk].offset <= allChunks'[r.chunk].offset
    BY <1>2, <1>4, <1>6
  <2>2. /\ allChunks[r.chunk].offset \in Nat
        /\ allChunks'[r.chunk].offset \in Nat
    BY <1>3, <1>6 DEF Grants
  <2>3. r.to <= allChunks'[r.chunk].offset
    <3>1. CASE r.chunk = g.chunk
      BY <1>2, <1>4, <1>6, <1>7, <3>1
    <3>2. CASE r.chunk # g.chunk
      BY <1>6, <2>1, <2>2, <3>2
    <3>3. QED BY <3>1, <3>2
  <2>4. QED BY <1>6, <2>1, <2>3 DEF Below
<1>10. RangesBelow'
  BY <1>1, <1>5, <1>9 DEF RangesBelow
<1>11. \A r, s \in LiveRanges : r # s /\ r.chunk = s.chunk => r.to <= s.from \/ s.to <= r.from
  BY DEF IInv, LiveRangesDisjoint
<1>12. \A r, s \in LiveRanges' : r # s /\ r.chunk = s.chunk => r.to <= s.from \/ s.to <= r.from
  BY <1>1, <1>7, <1>11
<1>13. (immediateRange \cap (pending \cup executing))' = {}
  BY <1>8 DEF IInv, LiveRangesDisjoint, LiveRanges
<1>14. QED BY <1>10, <1>12, <1>13 DEF LiveRangesDisjoint

(* Ranges when nothing is allocated.                                       *)
LEMMA SameRanges ==
  ASSUME IInv, allChunks' = allChunks,
         immediateRange' \subseteq immediateRange,
         (pending \cup executing)' \subseteq pending \cup executing
  PROVE  RangesBelow' /\ LiveRangesDisjoint'
<1>1. LiveRanges' \subseteq LiveRanges
  BY DEF LiveRanges
<1>2. RangesBelow'
  BY <1>1 DEF IInv, RangesBelow, Below
<1>3. LiveRangesDisjoint'
  BY <1>1 DEF IInv, LiveRangesDisjoint
<1>4. QED BY <1>2, <1>3

(* Every step preserves the invariant.                                     *)
LEMMA NextIInv ==
  ASSUME IInv, [Next]_vars
  PROVE  IInv'
<1>1. ASSUME NEW size \in Sizes, ImmediateAllocates(size) \/ BatchUploads(size)
      PROVE  IInv'
  <2>1. PICK g : g = Granted(size)
    OBVIOUS
  <2>2. /\ Allocate(size) /\ immediateRange' \subseteq immediateRange \cup {g}
        /\ UNCHANGED <<pending, executing, flushes>> /\ uploads' = uploads + 1
        /\ immediate' \in {"copying", "batch"}
    BY <1>1, <2>1 DEF ImmediateAllocates, BatchUploads
  <2>3. AllocatorOK' /\ Grants(g, size)
    BY <2>1, <2>2, AllocateStep DEF IInv
  <2>4. (pending \cup executing)' \subseteq pending \cup executing
    BY <2>2
  <2>5. RangesBelow' /\ LiveRangesDisjoint'
    BY <2>2, <2>3, <2>4, UploadRanges
  <2>6. UserType'
    BY <2>2 DEF IInv, UserType
  <2>7. QED BY <2>3, <2>5, <2>6 DEF IInv
<1>2. ASSUME NEW size \in Sizes, DeferredUploads(size)
      PROVE  IInv'
  <2>1. PICK g : g = Granted(size)
    OBVIOUS
  <2>2. /\ Allocate(size) /\ pending' = pending \cup {g}
        /\ UNCHANGED <<immediate, immediateRange, executing, flushes>>
        /\ uploads' = uploads + 1
    BY <1>2, <2>1 DEF DeferredUploads
  <2>3. AllocatorOK' /\ Grants(g, size)
    BY <2>1, <2>2, AllocateStep DEF IInv
  <2>4. /\ immediateRange' \subseteq immediateRange
        /\ (pending \cup executing)' \subseteq pending \cup executing \cup {g}
    BY <2>2
  <2>5. RangesBelow' /\ LiveRangesDisjoint'
    BY <2>3, <2>4, UploadRanges
  <2>6. UserType'
    BY <2>2 DEF IInv, UserType
  <2>7. QED BY <2>3, <2>5, <2>6 DEF IInv
<1>3. ASSUME NEW size \in Sizes, ImmediateFails(size) \/ DeferredFails(size)
      PROVE  IInv'
  <2>1. /\ AllocateFails(size)
        /\ UNCHANGED <<immediate, immediateRange, pending, executing, flushes, uploads>>
    BY <1>3 DEF ImmediateFails, DeferredFails
  <2>2. AllocatorOK' /\ allChunks' = allChunks
    BY <2>1, AllocateFailsStep DEF IInv
  <2>3. RangesBelow' /\ LiveRangesDisjoint'
    BY <2>1, <2>2, SameRanges
  <2>4. QED BY <2>1, <2>2, <2>3 DEF IInv, UserType
<1>4. ASSUME BeginBatch \/ EndBatch \/ ImmediateCopied \/ FlushReturns \/ UNCHANGED vars
      PROVE  IInv'
  <2>1. /\ UNCHANGED <<allChunks, current, inFlight, free, flushes, uploads>>
        /\ immediateRange' \subseteq immediateRange
        /\ (pending \cup executing)' \subseteq pending \cup executing
        /\ immediate' \in {immediate, "batch", "copying", "submit"}
    BY <1>4 DEF BeginBatch, EndBatch, ImmediateCopied, FlushReturns, allocator, vars
  <2>2. AllocatorOK'
    BY <2>1 DEF IInv, AllocatorOK, ChunkType, Copies, CopyOf, Placed
  <2>3. RangesBelow' /\ LiveRangesDisjoint'
    BY <2>1, SameRanges
  <2>4. UserType'
    BY <2>1 DEF IInv, UserType
  <2>5. QED BY <2>2, <2>3, <2>4 DEF IInv
<1>5. ASSUME ImmediateSubmits \/ FlushSubmits PROVE IInv'
  <2>1. /\ \E id \in Nat : SubmitChunk(id)
        /\ immediateRange' = immediateRange
        /\ (pending \cup executing)' \subseteq pending \cup executing
        /\ immediate' \in {immediate, "retire"} /\ flushes' \in Nat /\ uploads' = uploads
    <3>1. Forever \in Nat /\ flushes + 1 \in Nat
      BY StagingAssumption DEF Forever, IInv, UserType
    <3>2. CASE ImmediateSubmits
      BY <3>1, <3>2 DEF ImmediateSubmits, IInv, UserType
    <3>3. CASE FlushSubmits
      BY <3>1, <3>3 DEF FlushSubmits
    <3>4. QED BY <1>5, <3>2, <3>3
  <2>2. AllocatorOK' /\ allChunks' = allChunks
    BY <2>1, SubmitChunkStep DEF IInv
  <2>3. RangesBelow' /\ LiveRangesDisjoint'
    BY <2>1, <2>2, SameRanges
  <2>4. UserType'
    BY <2>1 DEF IInv, UserType
  <2>5. QED BY <2>2, <2>3, <2>4 DEF IInv
<1>6. ASSUME ImmediateRetires \/ DeferredRetires PROVE IInv'
  <2>1. /\ \E id \in Nat : Retire(id)
        /\ UNCHANGED <<immediateRange, pending, executing, flushes, uploads>>
        /\ immediate' \in {immediate, "idle"}
    <3>1. Forever \in Nat /\ \A id \in 0 .. flushes : id \in Nat
      BY StagingAssumption DEF Forever, IInv, UserType
    <3>2. QED BY <1>6, <3>1 DEF ImmediateRetires, DeferredRetires
  <2>2. AllocatorOK' /\ allChunks' = allChunks
    BY <2>1, RetireStep DEF IInv
  <2>3. RangesBelow' /\ LiveRangesDisjoint'
    BY <2>1, <2>2, SameRanges
  <2>4. UserType'
    BY <2>1 DEF IInv, UserType
  <2>5. QED BY <2>2, <2>3, <2>4 DEF IInv
<1>7. QED
  BY <1>1, <1>2, <1>3, <1>4, <1>5, <1>6 DEF Next

(* The invariant holds in every reachable state.                           *)
LEMMA Invariance == Spec => []IInv
BY InitIInv, NextIInv, PTL DEF Spec

-----------------------------------------------------------------------------
(* The lists hold copies of chunks that exist.                             *)
THEOREM TypeCorrect == Spec => []TypeOK
BY Invariance, IInvTypeOK, PTL

(* A staging chunk is the current one, in flight, free or dropped, and     *)
(* only one of these, whatever the two uploaders do and whenever an        *)
(* allocation fails.                                                       *)
THEOREM PlacedOnce == Spec => []ChunkPlacedOnce
BY Invariance, IInvPlaced, PTL

(* Uploads that still need their staging data never share a byte of it,    *)
(* although retire(UINT64_MAX) of the immediate uploader also recycles the *)
(* chunks of deferred uploads.                                             *)
THEOREM RangesDisjoint == Spec => []LiveRangesDisjoint
<1>1. IInv => LiveRangesDisjoint
  BY DEF IInv
<1>2. QED BY <1>1, Invariance, PTL
=============================================================================
