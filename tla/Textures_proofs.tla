--------------------------- MODULE Textures_proofs ---------------------------
(***************************************************************************)
(* What Textures promises, for every set of handle variables and every     *)
(* bound: the driver's rules (DriverCallsSound), the pools that match the  *)
(* driver's objects (PoolsExact), the swapchain's vectors, the data of     *)
(* textures, samplers and the types.                                       *)
(*                                                                         *)
(* A part per concern of the code: the images and views in their pools and *)
(* the swapchain (ImageInv), the bytes that wait in the uploader (DataInv) *)
(* and the samplers (SamplerInv), which hold until the client breaks a     *)
(* rule of the API, and the types, which hold in the step that breaks it   *)
(* as well.  The loops over the swapchain's images are functions of the    *)
(* iterations done: what each leaves is shown to exist and to be unique by *)
(* looking at the least number of iterations where it would fail.          *)
(***************************************************************************)
EXTENDS Textures, Lemmas, FiniteSetTheorems

(* What the pools hold, but for the bounds.                                *)
TexRes == [image : Nat \ {0}, swap : BOOLEAN]
ViewRes == Nat \ {0}

(* Handle{} is the one handle with index 0.                                *)
Handles == {h \in [index : Nat, gen : Gens] : h.index = 0 => h.gen = 0}

(* A slot holds an image that is there, the allocator's or the swapchain's,*)
(* and every image of the allocator's and every view is in a slot.         *)
HeldImages(r) ==
  /\ \A s \in Occupied(r.tex) :
       /\ r.tex.res[s].swap => r.tex.res[s].image \in r.shown
       /\ ~ r.tex.res[s].swap => r.tex.res[s].image \in r.images
  /\ \A x \in r.images : \E s \in Occupied(r.tex) :
       ~ r.tex.res[s].swap /\ r.tex.res[s].image = x

HeldViews(r) ==
  /\ \A s \in Occupied(r.view) : r.view.res[s] \in DOMAIN r.views
  /\ \A x \in DOMAIN r.views : \E s \in Occupied(r.view) : r.view.res[s] = x

IsImages(r) == r = [tex |-> r.tex, view |-> r.view, images |-> r.images,
                    shown |-> r.shown, views |-> r.views, faults |-> r.faults]

ImageType(r) ==
  /\ IsImages(r)
  /\ PoolOK(r.tex, TexRes) /\ NoSharing(r.tex)
  /\ PoolOK(r.view, ViewRes) /\ NoSharing(r.view)
  /\ r.images \subseteq Nat \ {0} /\ r.shown \subseteq Nat \ {0}
  /\ r.images \cap r.shown = {}
  /\ r.views \in [DOMAIN r.views -> Images \cup r.images \cup r.shown]
  /\ DOMAIN r.views \subseteq Nat \ {0}
  /\ IsFiniteSet(r.images) /\ IsFiniteSet(r.shown) /\ IsFiniteSet(DOMAIN r.views)

Sound(r) == ImageType(r) /\ HeldImages(r) /\ HeldViews(r) /\ r.faults = {}

(* The names in use are within the bounds, or as many as the objects.      *)
Small(r) == /\ r.images \cup r.shown \subseteq Images
            /\ DOMAIN r.views \subseteq 1 .. MaxViews

LowSet(S, max) == \A x \in S : x <= max \/ x <= Cardinality(S)

Low(r) == LowSet(r.images \cup r.shown, MaxImages) /\ LowSet(DOMAIN r.views, MaxViews)

(* No generation has wrapped.                                              *)
Young(p, max) == \A i \in Slots(p) : p.gen[i] \in 1 .. max

(* The handles of the swapchain's images J, and the slots they own.        *)
ChainType(c) ==
  /\ c = [vk |-> c.vk, image |-> c.image, depth |-> c.depth,
          imageView |-> c.imageView, depthView |-> c.depthView]
  /\ c.vk \in Seq(Nat \ {0}) /\ c.image \in Seq(Handles)
  /\ c.depth \in Seq(Handles) /\ Len(c.depth) = Len(c.image)
  /\ c.imageView \in Seq(Handles) /\ Len(c.imageView) = Len(c.image)
  /\ c.depthView \in Seq(Handles) /\ Len(c.depthView) = Len(c.image)
  /\ Len(c.vk) = Len(c.image)
  /\ \A i, j \in 1 .. Len(c.vk) : c.vk[i] = c.vk[j] => i = j

ChainImage(r, c, j) ==
  /\ Names(r.tex, c.image[j])
  /\ Get(r.tex, c.image[j]) = [image |-> c.vk[j], swap |-> TRUE]
  /\ isValid(c.depth[j]) =>
       Names(r.tex, c.depth[j]) /\ ~ Get(r.tex, c.depth[j]).swap
  /\ isValid(c.imageView[j]) =>
       /\ Names(r.view, c.imageView[j])
       /\ r.views[Get(r.view, c.imageView[j])] = c.vk[j]
  /\ isValid(c.depthView[j]) =>
       /\ isValid(c.depth[j]) /\ Names(r.view, c.depthView[j])
       /\ r.views[Get(r.view, c.depthView[j])] = Get(r.tex, c.depth[j]).image

ChainOwns(r, c, J) ==
  /\ \A j \in J : ChainImage(r, c, j)
  /\ \A i, j \in J :
       isValid(c.depth[i]) /\ c.depth[i].index = c.depth[j].index => i = j
  /\ \A s \in Occupied(r.tex) : r.tex.res[s].swap =>
       \E j \in J : c.image[j].index = s

Linked(r, c) == /\ ChainType(c)
                /\ ChainOwns(r, c, 1 .. Len(c.image))
                /\ r.shown = {c.vk[j] : j \in 1 .. Len(c.image)}

(* All of it, between two calls.                                           *)
ImageState(r, c) == /\ Sound(r) /\ Small(r) /\ Linked(r, c)
                    /\ Young(r.tex, MaxGen) /\ Young(r.view, MaxGen)

(* The initial data: each queued upload has its bytes and an image that is *)
(* there, and only a program that gives data has queued any.               *)
TexUploads == [dst : Images, tag : Handles, off : Nat, size : Nat]

UploaderOK(u) ==
  /\ u = [data |-> u.data, bufs |-> u.bufs, texs |-> u.texs]
  /\ u.data \in Seq(Handles \cup {Pad})
  /\ u.bufs = <<>>
  /\ u.texs \in Seq(TexUploads)

Owns(u, up) ==
  \A i \in up.off + 1 .. up.off + up.size :
    i <= Len(u.data) /\ u.data[i] = up.tag

NoDataYet == /\ uploader = EmptyUploader
             /\ want = [i \in Images |-> NoData]
             /\ have = [i \in Images |-> Blank]

ImageReady(i, w, h, T) ==
  IF w = NoData \/ i \in T THEN h = Blank ELSE h = [data |-> w, layout |-> "read"]

DataOK(images) ==
  /\ Targets(uploader) \subseteq images
  /\ \A up \in Queued(uploader) : Owns(uploader, up) /\ want[up.dst] = up.tag
  /\ \A i \in images : ImageReady(i, want[i], have[i], Targets(uploader))

DataInv ==
  /\ UploaderOK(uploader)
  /\ want \in [Images -> Handles \cup {NoData}]
  /\ have = [i \in Images |-> have[i]]
  /\ DataOK(res.images)
  /\ uses # "data" => NoDataYet

(* Samplers: a null slot need not be on the free list, but a slot on it is *)
(* null, and no handle is ahead of the generation of its slot.             *)
SamplerPool(p) ==
  /\ IsPool(p, 1 .. MaxSamplers)
  /\ \A i, j \in 1 .. Len(p.free) : p.free[i] = p.free[j] => i = j
  /\ \A i \in 1 .. Len(p.free) : p.res[p.free[i]] = NullRes
  /\ Young(p, MaxSamplerGen)

SamplerHandles ==
  /\ session \in 1 .. Sessions
  /\ sam \in [SamVars -> [handle : Handles, session : 1 .. Sessions]]
  /\ \A v \in SamVars :
       /\ sam[v].session <= session
       /\ sam[v].handle.index < samPool.size
       /\ sam[v].handle.index # 0 =>
            sam[v].handle.gen <= samPool.gen[sam[v].handle.index]

SamplerInv == SamplerPool(samPool) /\ SamplerHandles /\ OldSamplersDead

ImageInv == /\ ImageState(res, chain)
            /\ tex \in [TexVars -> Handles] /\ view \in [ViewVars -> Handles]

-----------------------------------------------------------------------------
(* LeastFree() finds a number that is not in use, and not a large one.     *)
LEMMA LeastFreeIs ==
  ASSUME NEW S, IsFiniteSet(S)
  PROVE  /\ LeastFree(S) \in 1 .. Cardinality(S) + 1
         /\ LeastFree(S) \notin S
<1> DEFINE n == Cardinality(S)
           T == {k \in 1 .. n + 1 : k \notin S}
<1>1. n \in Nat
  BY FS_CardinalityType
<1>2. T # {}
  <2> SUFFICES ASSUME T = {} PROVE FALSE
    OBVIOUS
  <2>1. 1 .. n + 1 \subseteq S
    OBVIOUS
  <2>2. /\ IsFiniteSet(1 .. n + 1)
        /\ Cardinality(1 .. n + 1) = n + 1
    <3> HIDE DEF n
    <3>1. 1 \in Int /\ n + 1 \in Int /\ 1 <= n + 1
      BY <1>1
    <3>2. QED BY <3>1, <1>1, FS_Interval
  <2>3. Cardinality(1 .. n + 1) <= Cardinality(S)
    BY <2>1, FS_Subset
  <2>4. QED BY <1>1, <2>2, <2>3
<1>3. PICK k \in T : \A m \in T : k <= m
  <2>1. T \in SUBSET Nat
    BY <1>1
  <2>2. QED BY <1>2, <2>1, Least
<1>4. k \in 1 .. n + 1 /\ k \notin S /\ \A m \in 1 .. k - 1 : m \in S
  BY <1>1, <1>3
<1>5. QED
  BY <1>4 DEF LeastFree

-----------------------------------------------------------------------------
(* The loops.  Each is a function of the number of iterations done.        *)

(* The loop of destroySwapchain().                                         *)
LEMMA RemoveSomeIs ==
  ASSUME NEW r, NEW c, Len(c.image) \in Nat
  PROVE  /\ RemoveSome(r, c)[0] = r
         /\ \A n \in 0 .. Len(c.image) - 1 :
              RemoveSome(r, c)[n + 1] = RemoveImage(RemoveSome(r, c)[n], c, n + 1)
<1> PICK N \in Nat : N = Len(c.image)
  OBVIOUS
<1> DEFINE Loop(g, m) ==
             g = [n \in 0 .. m |-> IF n = 0 THEN r ELSE RemoveImage(g[n - 1], c, n)]
           P == {m \in Nat : \E g : Loop(g, m)}
<1>1. 0 \in P
  <2> DEFINE g == [n \in 0 .. 0 |-> r]
  <2>1. Loop(g, 0)
    OBVIOUS
  <2>2. QED BY <2>1
<1>2. ASSUME NEW m \in 0 .. N - 1, m \in P PROVE m + 1 \in P
  <2>1. PICK g : Loop(g, m)
    BY <1>2
  <2> DEFINE h == [n \in 0 .. m + 1 |->
                     IF n = m + 1 THEN RemoveImage(g[m], c, m + 1) ELSE g[n]]
  <2>2. ASSUME NEW n \in 0 .. m + 1
        PROVE  h[n] = IF n = 0 THEN r ELSE RemoveImage(h[n - 1], c, n)
    <3>1. CASE n = m + 1
      <4>1. h[m] = g[m] /\ n - 1 = m /\ n # 0
        BY <3>1
      <4>2. QED BY <3>1, <4>1
    <3>2. CASE n = 0
      BY <2>1, <3>2
    <3>3. CASE n \in 1 .. m
      <4>1. n - 1 \in 0 .. m /\ n \in 0 .. m /\ n # 0 /\ n # m + 1 /\ n - 1 # m + 1
        BY <3>3
      <4>2. h[n] = g[n] /\ h[n - 1] = g[n - 1]
        BY <4>1
      <4>3. g[n] = RemoveImage(g[n - 1], c, n)
        BY <2>1, <4>1
      <4>4. QED BY <4>1, <4>2, <4>3
    <3>4. QED BY <3>1, <3>2, <3>3
  <2>3. Loop(h, m + 1)
    BY <2>2
  <2>4. \E f : Loop(f, m + 1)
    <3> HIDE DEF h
    <3>1. QED BY <2>3
  <2>5. QED BY <2>4
<1>3. PICK g : Loop(g, N)
  <2> HIDE DEF P
  <2>1. N \in P
    BY <1>1, <1>2, AllNumbers
  <2>2. QED BY <2>1 DEF P
<1>4. RemoveSome(r, c) =
        [n \in 0 .. N |-> IF n = 0 THEN r ELSE RemoveImage(RemoveSome(r, c)[n - 1], c, n)]
  BY <1>3, Zenon DEF RemoveSome
<1>5. ASSUME NEW n \in 0 .. N - 1
      PROVE  RemoveSome(r, c)[n + 1] = RemoveImage(RemoveSome(r, c)[n], c, n + 1)
  <2> PICK f : f = RemoveSome(r, c)
    OBVIOUS
  <2>1. n + 1 \in 0 .. N /\ n + 1 # 0 /\ n + 1 - 1 = n
    OBVIOUS
  <2>2. QED BY <1>4, <2>1
<1>6. RemoveSome(r, c)[0] = r
  BY <1>4
<1>7. QED BY <1>5, <1>6

(* Before the first iteration of createSwapchain(), and the sequence of    *)
(* images with one more.                                                   *)
Fresh(r, vk) == [res   |-> [r EXCEPT !.shown = {vk[i] : i \in DOMAIN vk}],
                 chain |-> NoChain]

WithOneMore(r, s, k) ==
  Append(s, LeastFree(r.images \cup {s[j] : j \in 1 .. k - 1}))

(* The loop of createSwapchain().                                          *)
LEMMA AddImagesIs ==
  ASSUME NEW r, NEW vk, NEW outcomes, Len(outcomes) \in Nat
  PROVE  /\ AddImages(r, vk, outcomes)[0] = Fresh(r, vk)
         /\ \A n \in 0 .. Len(outcomes) - 1 :
              AddImages(r, vk, outcomes)[n + 1] = AddImage(AddImages(r, vk, outcomes)[n], vk[n + 1], outcomes[n + 1])
<1> PICK N \in Nat : N = Len(outcomes)
  OBVIOUS
<1> DEFINE Loop(g, m) ==
             g = [n \in 0 .. m |->
                    IF n = 0 THEN Fresh(r, vk)
                    ELSE AddImage(g[n - 1], vk[n], outcomes[n])]
           P == {m \in Nat : \E g : Loop(g, m)}
<1>1. 0 \in P
  <2> DEFINE g == [n \in 0 .. 0 |-> Fresh(r, vk)]
  <2>1. Loop(g, 0)
    OBVIOUS
  <2>2. QED BY <2>1
<1>2. ASSUME NEW m \in 0 .. N - 1, m \in P PROVE m + 1 \in P
  <2>1. PICK g : Loop(g, m)
    BY <1>2
  <2> DEFINE h == [n \in 0 .. m + 1 |->
                     IF n = m + 1 THEN AddImage(g[m], vk[m + 1], outcomes[m + 1]) ELSE g[n]]
  <2>2. ASSUME NEW n \in 0 .. m + 1
        PROVE  h[n] = IF n = 0 THEN Fresh(r, vk)
                      ELSE AddImage(h[n - 1], vk[n], outcomes[n])
    <3>1. CASE n = m + 1
      <4>1. h[m] = g[m] /\ n - 1 = m /\ n # 0
        BY <3>1
      <4>2. QED BY <3>1, <4>1
    <3>2. CASE n = 0
      BY <2>1, <3>2
    <3>3. CASE n \in 1 .. m
      <4>1. n - 1 \in 0 .. m /\ n \in 0 .. m /\ n # 0 /\ n # m + 1 /\ n - 1 # m + 1
        BY <3>3
      <4>2. h[n] = g[n] /\ h[n - 1] = g[n - 1]
        BY <4>1
      <4>3. g[n] = AddImage(g[n - 1], vk[n], outcomes[n])
        BY <2>1, <4>1
      <4>4. QED BY <4>1, <4>2, <4>3
    <3>4. QED BY <3>1, <3>2, <3>3
  <2>3. Loop(h, m + 1)
    BY <2>2
  <2>4. \E f : Loop(f, m + 1)
    <3> HIDE DEF h
    <3>1. QED BY <2>3
  <2>5. QED BY <2>4
<1>3. PICK g : Loop(g, N)
  <2> HIDE DEF P
  <2>1. N \in P
    BY <1>1, <1>2, AllNumbers
  <2>2. QED BY <2>1 DEF P
<1>4. AddImages(r, vk, outcomes) =
        [n \in 0 .. N |-> IF n = 0 THEN Fresh(r, vk)
                          ELSE AddImage(AddImages(r, vk, outcomes)[n - 1], vk[n], outcomes[n])]
  BY <1>3, Zenon DEF AddImages, Fresh
<1>5. ASSUME NEW n \in 0 .. N - 1
      PROVE  AddImages(r, vk, outcomes)[n + 1] = AddImage(AddImages(r, vk, outcomes)[n], vk[n + 1], outcomes[n + 1])
  <2> PICK f : f = AddImages(r, vk, outcomes)
    OBVIOUS
  <2>1. n + 1 \in 0 .. N /\ n + 1 # 0 /\ n + 1 - 1 = n
    OBVIOUS
  <2>2. QED BY <1>4, <2>1
<1>6. AddImages(r, vk, outcomes)[0] = Fresh(r, vk)
  BY <1>4
<1>7. QED BY <1>5, <1>6

(* The images of a new VkSwapchainKHR, one by one.                         *)
LEMMA ShownIs ==
  ASSUME NEW r, NEW N \in Nat
  PROVE  /\ Shown(r, N)[0] = <<>>
         /\ \A n \in 0 .. N - 1 :
              Shown(r, N)[n + 1] = WithOneMore(r, Shown(r, N)[n], n + 1)
<1> DEFINE Loop(g, m) ==
             g = [n \in 0 .. m |->
                    IF n = 0 THEN <<>>
                    ELSE WithOneMore(r, g[n - 1], n)]
           P == {m \in Nat : \E g : Loop(g, m)}
<1>1. 0 \in P
  <2> DEFINE g == [n \in 0 .. 0 |-> <<>>]
  <2>1. Loop(g, 0)
    OBVIOUS
  <2>2. QED BY <2>1
<1>2. ASSUME NEW m \in 0 .. N - 1, m \in P PROVE m + 1 \in P
  <2>1. PICK g : Loop(g, m)
    BY <1>2
  <2> DEFINE h == [n \in 0 .. m + 1 |->
                     IF n = m + 1 THEN WithOneMore(r, g[m], m + 1) ELSE g[n]]
  <2>2. ASSUME NEW n \in 0 .. m + 1
        PROVE  h[n] = IF n = 0 THEN <<>>
                      ELSE WithOneMore(r, h[n - 1], n)
    <3>1. CASE n = m + 1
      <4>1. h[m] = g[m] /\ n - 1 = m /\ n # 0
        BY <3>1
      <4>2. QED BY <3>1, <4>1
    <3>2. CASE n = 0
      BY <2>1, <3>2
    <3>3. CASE n \in 1 .. m
      <4>1. n - 1 \in 0 .. m /\ n \in 0 .. m /\ n # 0 /\ n # m + 1 /\ n - 1 # m + 1
        BY <3>3
      <4>2. h[n] = g[n] /\ h[n - 1] = g[n - 1]
        BY <4>1
      <4>3. g[n] = WithOneMore(r, g[n - 1], n)
        BY <2>1, <4>1
      <4>4. QED BY <4>1, <4>2, <4>3
    <3>4. QED BY <3>1, <3>2, <3>3
  <2>3. Loop(h, m + 1)
    BY <2>2
  <2>4. \E f : Loop(f, m + 1)
    <3> HIDE DEF h
    <3>1. QED BY <2>3
  <2>5. QED BY <2>4
<1>3. PICK g : Loop(g, N)
  <2> HIDE DEF P
  <2>1. N \in P
    BY <1>1, <1>2, AllNumbers
  <2>2. QED BY <2>1 DEF P
<1>4. Shown(r, N) =
        [n \in 0 .. N |-> IF n = 0 THEN <<>>
                          ELSE WithOneMore(r, Shown(r, N)[n - 1], n)]
  BY <1>3, Zenon DEF Shown, WithOneMore
<1>5. ASSUME NEW n \in 0 .. N - 1
      PROVE  Shown(r, N)[n + 1] = WithOneMore(r, Shown(r, N)[n], n + 1)
  <2> PICK f : f = Shown(r, N)
    OBVIOUS
  <2>1. n + 1 \in 0 .. N /\ n + 1 # 0 /\ n + 1 - 1 = n
    OBVIOUS
  <2>2. QED BY <1>4, <2>1
<1>6. Shown(r, N)[0] = <<>>
  BY <1>4
<1>7. QED BY <1>5, <1>6

-----------------------------------------------------------------------------
(* Pools: what is and stays named.                                         *)

(* q is p with x in a new slot, which h names.                             *)
Grown(p, q, h, x) ==
  /\ h \in Handles /\ h.index # 0 /\ h.index \notin Occupied(p)
  /\ Occupied(q) = Occupied(p) \cup {h.index}
  /\ \A s \in Occupied(p) : q.res[s] = p.res[s] /\ q.gen[s] = p.gen[s]
  /\ q.res[h.index] = x /\ q.gen[h.index] = h.gen

(* q is p without slot s.                                                  *)
Shrunk(p, q, s) ==
  /\ s \in Occupied(p) /\ Occupied(q) = Occupied(p) \ {s}
  /\ \A t \in Occupied(q) : q.res[t] = p.res[t] /\ q.gen[t] = p.gen[t]

(* allocate() grows a pool by something it did not hold.                   *)
LEMMA AllocatedGrown ==
  ASSUME NEW R, NEW p, PoolOK(p, R), NoSharing(p), NEW x \in R, x # NullRes,
         \A s \in Occupied(p) : p.res[s] # x
  PROVE  /\ PoolOK(Allocated(p, x), R) /\ NoSharing(Allocated(p, x))
         /\ Grown(p, Allocated(p, x), NewHandle(p), x)
<1> PICK q : q = Allocated(p, x)
  OBVIOUS
<1> PICK h : h = NewHandle(p)
  OBVIOUS
<1>1. /\ PoolOK(q, R) /\ h \in [index : Nat, gen : Gens] /\ h.index \notin Occupied(p)
      /\ Occupied(q) = Occupied(p) \cup {h.index}
      /\ \A s \in Occupied(p) : q.res[s] = p.res[s] /\ q.gen[s] = p.gen[s]
      /\ q.res[h.index] = x /\ q.gen[h.index] = h.gen
  BY AllocatedOK
<1>2. h.index # 0
  BY <1>1 DEF Occupied, Slots, PoolOK, IsPool
<1>3. Grown(p, q, h, x)
  BY <1>1, <1>2 DEF Grown, Handles
<1>4. NoSharing(q)
  BY <1>1 DEF NoSharing
<1>5. QED BY <1>1, <1>3, <1>4

(* free() shrinks it.                                                      *)
LEMMA FreedShrunk ==
  ASSUME NEW R, NEW p, PoolOK(p, R), NoSharing(p), NEW h, h.index \in Occupied(p)
  PROVE  /\ PoolOK(Freed(p, h), R) /\ NoSharing(Freed(p, h))
         /\ Shrunk(p, Freed(p, h), h.index)
         /\ Slots(Freed(p, h)) = Slots(p) /\ Freed(p, h).gen = p.gen
<1>1. Freed(p, h).gen = p.gen
  BY DEF Freed
<1>2. QED
  BY <1>1, FreedOK DEF Shrunk, NoSharing, Occupied

(* A valid handle names an occupied slot of its generation.                *)
LEMMA NamesIs ==
  ASSUME NEW R, NEW p, PoolOK(p, R), NEW h \in Handles
  PROVE  Names(p, h) <=> /\ isValid(h) /\ h.index \in Occupied(p)
                         /\ p.gen[h.index] = h.gen
BY NamesOccupied DEF Names, Handles

(* A live handle that names nothing is of a slot on the free list.         *)
LEMMA DeadIsFree ==
  ASSUME NEW R, NEW p, PoolOK(p, R), NEW h \in Handles, IsAlive(p, h)
  PROVE  /\ h.index \in Slots(p)
         /\ ~ IsFree(p, h) => Names(p, h)
<1>1. h.index \in Nat /\ h.index # 0
  <2>1. h \in [index : Nat, gen : Gens] /\ (h.index = 0 => h.gen = 0)
    BY DEF Handles
  <2>2. h = [index |-> h.index, gen |-> h.gen]
    BY <2>1
  <2>3. QED BY <2>1, <2>2 DEF IsAlive, isValid, InvalidHandle
<1>2. h.index \in Slots(p)
  BY <1>1 DEF IsAlive, Slots, PoolOK, IsPool
<1>3. DOMAIN p.free = 1 .. Len(p.free)
  BY DEF PoolOK, IsPool
<1>4. QED
  BY <1>2, <1>3 DEF IsFree, Names, Get, PoolOK, FreeListExact

(* A handle keeps its name as long as its slot is untouched.               *)
LEMMA NameKept ==
  ASSUME NEW R, NEW p, NEW q, PoolOK(p, R), PoolOK(q, R), NEW h \in Handles,
         Names(p, h), h.index \in Occupied(q),
         q.res[h.index] = p.res[h.index], q.gen[h.index] = p.gen[h.index]
  PROVE  Names(q, h) /\ Get(q, h) = Get(p, h)
BY NamesIs DEF Get

(* A new handle names what it was made for.                                *)
LEMMA NameMade ==
  ASSUME NEW R, NEW p, NEW q, NEW h, NEW x, PoolOK(q, R), Grown(p, q, h, x)
  PROVE  Names(q, h) /\ Get(q, h) = x /\ isValid(h)
<1>1. h \in Handles /\ h.index # 0
  BY DEF Grown
<1>2. isValid(h)
  BY <1>1 DEF isValid, InvalidHandle
<1>3. QED BY <1>1, <1>2, NamesIs DEF Grown, Get

(* A name not in use, added to the names, is within the bound or there are *)
(* as many names.                                                          *)
LEMMA LowGrown ==
  ASSUME NEW S, IsFiniteSet(S), S \subseteq Nat, NEW max, LowSet(S, max)
  PROVE  /\ LowSet(S \cup {LeastFree(S)}, max)
         /\ IsFiniteSet(S \cup {LeastFree(S)})
<1> PICK n : n = LeastFree(S)
  OBVIOUS
<1>1. n \in 1 .. Cardinality(S) + 1 /\ n \notin S /\ Cardinality(S) \in Nat
  BY LeastFreeIs, FS_CardinalityType
<1>2. IsFiniteSet(S \cup {n}) /\ Cardinality(S \cup {n}) = Cardinality(S) + 1
  BY <1>1, FS_AddElement
<1>3. QED BY <1>1, <1>2 DEF LowSet

-----------------------------------------------------------------------------
(* What the calls do to the pools and the driver's objects.                *)

(* Only pool, images and views change.                                     *)
SameButTextures(r, q) ==
  /\ q.view = r.view /\ q.shown = r.shown /\ q.views = r.views /\ q.faults = r.faults
SameButViews(r, q) ==
  /\ q.tex = r.tex /\ q.images = r.images /\ q.shown = r.shown /\ q.faults = r.faults

(* The resources are not null.                                             *)
LEMMA NotNull ==
  /\ \A x \in TexRes : x # NullRes
  /\ \A x \in ViewRes : x # NullRes
BY TexturesAssumption DEF TexRes, ViewRes

(* r with one more texture.                                                *)
WithTexture(r) ==
  [r EXCEPT !.images = @ \cup {NextImage(r)},
            !.tex = Allocated(@, [image |-> NextImage(r), swap  |-> FALSE])]

(* What VKCreateTexture() returns.                                         *)
LEMMA CreateTextureIs ==
  ASSUME NEW r, NEW ok \in BOOLEAN
  PROVE  CreateTexture(r, ok) =
           IF ~ ok THEN [res |-> r, handle |-> InvalidHandle]
           ELSE [res |-> WithTexture(r), handle |-> NewHandle(r.tex)]
BY Zenon DEF CreateTexture, Returns, WithTexture

(* VKCreateTexture() makes an image of the allocator's, in a slot of its   *)
(* own.                                                                    *)
LEMMA MadeTexture ==
  ASSUME NEW r, Sound(r), NEW q, q = WithTexture(r),
         NEW h, h = NewHandle(r.tex), NEW n, n = NextImage(r)
  PROVE  /\ Sound(q) /\ SameButTextures(r, q)
         /\ Grown(r.tex, q.tex, h, [image |-> n, swap |-> FALSE])
         /\ q.images = r.images \cup {n} /\ n \notin r.images \cup r.shown
         /\ Low(r) => Low(q)
<1> PICK x : x = [image |-> n, swap |-> FALSE]
  OBVIOUS
<1>1. /\ PoolOK(r.tex, TexRes) /\ NoSharing(r.tex)
      /\ IsImages(r) /\ HeldImages(r) /\ HeldViews(r) /\ r.faults = {}
  BY DEF Sound, ImageType
<1>2. q = [r EXCEPT !.images = @ \cup {n}, !.tex = Allocated(@, x)]
  BY Zenon DEF WithTexture
<1>3. /\ q.tex = Allocated(r.tex, x) /\ q.images = r.images \cup {n}
      /\ SameButTextures(r, q) /\ IsImages(q)
  BY <1>1, <1>2 DEF IsImages, SameButTextures
<1>4. /\ IsFiniteSet(r.images) /\ IsFiniteSet(r.images \cup r.shown)
      /\ r.images \cup r.shown \subseteq Nat \ {0}
  BY FS_Union DEF Sound, ImageType
<1>5. n \in Nat \ {0} /\ n \notin r.images \cup r.shown
  BY <1>4, LeastFreeIs, FS_CardinalityType DEF NextImage
<1>6. x \in TexRes /\ x # NullRes /\ x.image = n /\ x.swap = FALSE
  BY <1>5, NotNull DEF TexRes
<1>7. /\ PoolOK(q.tex, TexRes) /\ NoSharing(q.tex)
      /\ Grown(r.tex, q.tex, h, x)
  <2>1. \A s \in Occupied(r.tex) : r.tex.res[s] # x
    BY <1>1, <1>5, <1>6 DEF HeldImages
  <2>2. /\ PoolOK(Allocated(r.tex, x), TexRes) /\ NoSharing(Allocated(r.tex, x))
        /\ Grown(r.tex, Allocated(r.tex, x), NewHandle(r.tex), x)
    BY <1>1, <1>6, <2>1, AllocatedGrown
  <2>3. QED BY <1>3, <2>2
<1>8. ImageType(q)
  <2>1. IsFiniteSet(q.images)
    <3>1. IsFiniteSet(r.images \cup {n})
      BY <1>4, FS_AddElement
    <3>2. QED BY <1>3, <3>1
  <2>2. q.views \in [DOMAIN q.views -> Images \cup q.images \cup q.shown]
    BY <1>3 DEF Sound, ImageType, SameButTextures
  <2>3. q.images \cap q.shown = {} /\ q.images \subseteq Nat \ {0}
    BY <1>3, <1>5 DEF Sound, ImageType, SameButTextures
  <2>4. QED BY <1>3, <1>7, <2>1, <2>2, <2>3 DEF Sound, ImageType, SameButTextures
<1>9. HeldImages(q)
  <2> PICK t : t = h.index
    OBVIOUS
  <2>1. /\ Occupied(q.tex) = Occupied(r.tex) \cup {t} /\ q.tex.res[t] = x
        /\ \A s \in Occupied(r.tex) : q.tex.res[s] = r.tex.res[s]
        /\ t \notin Occupied(r.tex)
    BY <1>7 DEF Grown
  <2>2. q.images = r.images \cup {n} /\ q.shown = r.shown
    BY <1>3 DEF SameButTextures
  <2>3. ASSUME NEW s \in Occupied(q.tex)
        PROVE  /\ q.tex.res[s].swap => q.tex.res[s].image \in q.shown
               /\ ~ q.tex.res[s].swap => q.tex.res[s].image \in q.images
    <3>1. CASE s = t
      BY <1>6, <2>1, <2>2, <3>1
    <3>2. CASE s \in Occupied(r.tex)
      BY <1>1, <2>1, <2>2, <3>2 DEF HeldImages
    <3>3. QED BY <2>1, <3>1, <3>2
  <2>4. ASSUME NEW y \in q.images
        PROVE  \E s \in Occupied(q.tex) : ~ q.tex.res[s].swap /\ q.tex.res[s].image = y
    <3>1. CASE y = n
      BY <1>6, <2>1, <3>1
    <3>2. CASE y \in r.images
      <4>1. PICK s \in Occupied(r.tex) : ~ r.tex.res[s].swap /\ r.tex.res[s].image = y
        BY <1>1, <3>2 DEF HeldImages
      <4>2. s \in Occupied(q.tex) /\ q.tex.res[s] = r.tex.res[s]
        BY <2>1
      <4>3. QED BY <4>1, <4>2
    <3>3. QED BY <2>2, <3>1, <3>2
  <2>5. QED BY <2>3, <2>4 DEF HeldImages
<1>10. HeldViews(q) /\ q.faults = {}
  BY <1>1, <1>3 DEF HeldViews, SameButTextures
<1>11. ASSUME Low(r) PROVE Low(q)
  <2>1. q.images \cup q.shown = (r.images \cup r.shown) \cup {n}
    BY <1>3 DEF SameButTextures
  <2>2. LowSet((r.images \cup r.shown) \cup {n}, MaxImages)
    BY <1>4, <1>11, LowGrown DEF Low, NextImage
  <2>3. QED BY <1>3, <1>11, <2>1, <2>2 DEF Low, SameButTextures
<1>12. QED
  BY <1>3, <1>5, <1>7, <1>8, <1>9, <1>10, <1>11 DEF Sound

(* createSwapchain() puts an image of the VkSwapchainKHR into a slot.      *)
LEMMA MadeSwapTexture ==
  ASSUME NEW r, Sound(r), NEW n \in r.shown,
         \A s \in Occupied(r.tex) : r.tex.res[s].swap => r.tex.res[s].image # n,
         NEW q, q = [r EXCEPT !.tex = Allocated(@, [image |-> n, swap |-> TRUE])],
         NEW h, h = NewHandle(r.tex)
  PROVE  /\ Sound(q) /\ SameButTextures(r, q) /\ q.images = r.images
         /\ Grown(r.tex, q.tex, h, [image |-> n, swap |-> TRUE])
<1> PICK x : x = [image |-> n, swap |-> TRUE]
  OBVIOUS
<1>1. /\ PoolOK(r.tex, TexRes) /\ NoSharing(r.tex)
      /\ IsImages(r) /\ HeldImages(r) /\ HeldViews(r) /\ r.faults = {}
  BY DEF Sound, ImageType
<1>2. /\ q.tex = Allocated(r.tex, x) /\ q.images = r.images
      /\ SameButTextures(r, q) /\ IsImages(q)
  BY <1>1 DEF IsImages, SameButTextures
<1>3. x \in TexRes /\ x # NullRes /\ x.image = n /\ x.swap = TRUE
  <2>1. n \in Nat \ {0}
    BY DEF Sound, ImageType
  <2>2. QED BY <2>1, NotNull DEF TexRes
<1>4. /\ PoolOK(q.tex, TexRes) /\ NoSharing(q.tex)
      /\ Grown(r.tex, q.tex, h, x)
  <2>1. \A s \in Occupied(r.tex) : r.tex.res[s] # x
    BY <1>3
  <2>2. /\ PoolOK(Allocated(r.tex, x), TexRes) /\ NoSharing(Allocated(r.tex, x))
        /\ Grown(r.tex, Allocated(r.tex, x), NewHandle(r.tex), x)
    BY <1>1, <1>3, <2>1, AllocatedGrown
  <2>3. QED BY <1>2, <2>2
<1>5. ImageType(q)
  BY <1>2, <1>4 DEF Sound, ImageType, SameButTextures
<1>6. HeldImages(q)
  <2> PICK t : t = h.index
    OBVIOUS
  <2>1. /\ Occupied(q.tex) = Occupied(r.tex) \cup {t} /\ q.tex.res[t] = x
        /\ \A s \in Occupied(r.tex) : q.tex.res[s] = r.tex.res[s]
        /\ t \notin Occupied(r.tex)
    BY <1>4 DEF Grown
  <2>2. q.images = r.images /\ q.shown = r.shown
    BY <1>2 DEF SameButTextures
  <2>3. ASSUME NEW s \in Occupied(q.tex)
        PROVE  /\ q.tex.res[s].swap => q.tex.res[s].image \in q.shown
               /\ ~ q.tex.res[s].swap => q.tex.res[s].image \in q.images
    <3>1. CASE s = t
      BY <1>3, <2>1, <2>2, <3>1
    <3>2. CASE s \in Occupied(r.tex)
      BY <1>1, <2>1, <2>2, <3>2 DEF HeldImages
    <3>3. QED BY <2>1, <3>1, <3>2
  <2>4. ASSUME NEW y \in q.images
        PROVE  \E s \in Occupied(q.tex) : ~ q.tex.res[s].swap /\ q.tex.res[s].image = y
    <3>1. PICK s \in Occupied(r.tex) : ~ r.tex.res[s].swap /\ r.tex.res[s].image = y
      BY <1>1, <2>2 DEF HeldImages
    <3>2. s \in Occupied(q.tex) /\ q.tex.res[s] = r.tex.res[s]
      BY <2>1
    <3>3. QED BY <3>1, <3>2
  <2>5. QED BY <2>3, <2>4 DEF HeldImages
<1>7. HeldViews(q) /\ q.faults = {}
  BY <1>1, <1>2 DEF HeldViews, SameButTextures
<1>8. QED
  BY <1>2, <1>4, <1>5, <1>6, <1>7 DEF Sound

(* VKDestroyTexture() of an image of the allocator's destroys just that.   *)
LEMMA LostTexture ==
  ASSUME NEW r, Sound(r), Small(r), NEW h \in Handles, Names(r.tex, h),
         ~ Get(r.tex, h).swap, NEW q, q = DestroyTexture(r, h)
  PROVE  /\ Sound(q) /\ Small(q) /\ SameButTextures(r, q)
         /\ q.images = r.images \ {Get(r.tex, h).image}
         /\ Shrunk(r.tex, q.tex, h.index)
         /\ Slots(q.tex) = Slots(r.tex) /\ q.tex.gen = r.tex.gen
<1> PICK x : x = Get(r.tex, h)
  OBVIOUS
<1>1. /\ PoolOK(r.tex, TexRes) /\ NoSharing(r.tex)
      /\ IsImages(r) /\ HeldImages(r) /\ HeldViews(r) /\ r.faults = {}
  BY DEF Sound, ImageType
<1>2. /\ IsAlive(r.tex, h) /\ x # NullRes /\ ~ x.swap
      /\ h.index \in Occupied(r.tex) /\ x = r.tex.res[h.index]
  BY <1>1, NamesIs DEF Names, Get
<1>3. x.image \in r.images
  BY <1>1, <1>2 DEF HeldImages
<1>4. q = [r EXCEPT !.images = @ \ {x.image}, !.tex = Freed(@, h)]
  <2> PICK d : d = [r EXCEPT !.images = @ \ {x.image}]
    OBVIOUS
  <2>1. destroyImage(r, x.image) = d
    BY <1>3 DEF destroyImage, Fault
  <2>2. d.tex = r.tex
    BY <1>1 DEF IsImages
  <2>3. q = FreeTexture(d, h)
    BY <1>2, <2>1 DEF DestroyTexture
  <2>4. q = [d EXCEPT !.tex = Freed(@, h)]
    BY <1>2, <2>2, <2>3 DEF FreeTexture
  <2>5. QED BY <1>1, <2>4 DEF IsImages
<1>5. /\ q.tex = Freed(r.tex, h) /\ q.images = r.images \ {x.image}
      /\ SameButTextures(r, q) /\ IsImages(q)
  BY <1>1, <1>4 DEF IsImages, SameButTextures
<1>6. /\ PoolOK(q.tex, TexRes) /\ NoSharing(q.tex)
      /\ Shrunk(r.tex, q.tex, h.index)
      /\ Slots(q.tex) = Slots(r.tex) /\ q.tex.gen = r.tex.gen
  BY <1>1, <1>2, <1>5, FreedShrunk
<1>7. Small(q)
  BY <1>5 DEF Small, SameButTextures
<1>8. ImageType(q)
  <2>1. IsFiniteSet(q.images)
    <3>1. IsFiniteSet(r.images) /\ q.images \in SUBSET r.images
      BY <1>5 DEF Sound, ImageType
    <3>2. QED BY <3>1, FS_Subset
  <2>2. q.views \in [DOMAIN q.views -> Images \cup q.images \cup q.shown]
    <3>1. r.views \in [DOMAIN r.views -> Images \cup r.images \cup r.shown]
      BY DEF Sound, ImageType
    <3>2. r.images \cup r.shown \subseteq Images /\ q.views = r.views
      BY <1>5 DEF Small, SameButTextures
    <3>3. QED BY <3>1, <3>2
  <2>3. q.images \cap q.shown = {} /\ q.images \subseteq Nat \ {0}
    BY <1>5 DEF Sound, ImageType, SameButTextures
  <2>4. QED BY <1>5, <1>6, <2>1, <2>2, <2>3 DEF Sound, ImageType, SameButTextures
<1>9. HeldImages(q)
  <2> PICK t : t = h.index
    OBVIOUS
  <2>1. /\ Occupied(q.tex) = Occupied(r.tex) \ {t} /\ r.tex.res[t] = x
        /\ \A s \in Occupied(q.tex) : q.tex.res[s] = r.tex.res[s]
        /\ t \in Occupied(r.tex)
    BY <1>2, <1>6 DEF Shrunk
  <2>2. q.images = r.images \ {x.image} /\ q.shown = r.shown
    BY <1>5 DEF SameButTextures
  <2>3. ASSUME NEW s \in Occupied(q.tex)
        PROVE  /\ q.tex.res[s].swap => q.tex.res[s].image \in q.shown
               /\ ~ q.tex.res[s].swap => q.tex.res[s].image \in q.images
    <3>1. /\ s \in Occupied(r.tex) /\ s # t /\ q.tex.res[s] = r.tex.res[s]
          /\ r.tex.res[s].swap => r.tex.res[s].image \in r.shown
          /\ ~ r.tex.res[s].swap => r.tex.res[s].image \in r.images
      BY <1>1, <2>1 DEF HeldImages
    <3>2. CASE r.tex.res[s].swap
      BY <2>2, <3>1, <3>2
    <3>3. CASE ~ r.tex.res[s].swap
      <4>1. r.tex.res[s] # x
        BY <1>1, <2>1, <3>1 DEF NoSharing
      <4>2. r.tex.res[s] \in TexRes /\ x \in TexRes
        <5>1. r.tex.res \in [0 .. r.tex.size - 1 -> TexRes \cup {NullRes}]
          BY <1>1 DEF PoolOK, IsPool
        <5>2. s \in 0 .. r.tex.size - 1 /\ t \in 0 .. r.tex.size - 1
          BY <1>1, <2>1, <3>1 DEF PoolOK, IsPool, Occupied, Slots
        <5>3. r.tex.res[s] # NullRes /\ r.tex.res[t] # NullRes
          BY <2>1, <3>1 DEF Occupied
        <5>4. QED BY <2>1, <5>1, <5>2, <5>3
      <4>3. r.tex.res[s].image # x.image
        BY <1>2, <3>3, <4>1, <4>2 DEF TexRes
      <4>4. QED BY <2>2, <3>1, <3>3, <4>3
    <3>4. QED BY <3>2, <3>3
  <2>4. ASSUME NEW y \in q.images
        PROVE  \E s \in Occupied(q.tex) : ~ q.tex.res[s].swap /\ q.tex.res[s].image = y
    <3>1. PICK s \in Occupied(r.tex) : ~ r.tex.res[s].swap /\ r.tex.res[s].image = y
      BY <1>1, <2>2 DEF HeldImages
    <3>2. s # t
      BY <2>1, <2>2, <3>1
    <3>3. s \in Occupied(q.tex) /\ q.tex.res[s] = r.tex.res[s]
      BY <2>1, <3>2
    <3>4. QED BY <3>1, <3>3
  <2>5. QED BY <2>3, <2>4 DEF HeldImages
<1>10. HeldViews(q) /\ q.faults = {}
  BY <1>1, <1>5 DEF HeldViews, SameButTextures
<1>11. QED
  BY <1>5, <1>6, <1>7, <1>8, <1>9, <1>10 DEF Sound

(* destroySwapchain() frees the slot of an image and leaves the image.     *)
LEMMA LostSwapTexture ==
  ASSUME NEW r, Sound(r), Small(r), NEW h \in Handles, Names(r.tex, h),
         Get(r.tex, h).swap, NEW q, q = FreeTexture(r, h)
  PROVE  /\ Sound(q) /\ Small(q) /\ SameButTextures(r, q) /\ q.images = r.images
         /\ Shrunk(r.tex, q.tex, h.index)
         /\ Slots(q.tex) = Slots(r.tex) /\ q.tex.gen = r.tex.gen
<1>1. /\ PoolOK(r.tex, TexRes) /\ NoSharing(r.tex)
      /\ IsImages(r) /\ HeldImages(r) /\ HeldViews(r) /\ r.faults = {}
  BY DEF Sound, ImageType
<1>2. /\ IsAlive(r.tex, h) /\ h.index \in Occupied(r.tex)
      /\ r.tex.res[h.index].swap
  BY <1>1, NamesIs DEF Names, Get
<1>3. /\ q.tex = Freed(r.tex, h) /\ q.images = r.images
      /\ SameButTextures(r, q) /\ IsImages(q)
  BY <1>1, <1>2 DEF IsImages, SameButTextures, FreeTexture
<1>4. /\ PoolOK(q.tex, TexRes) /\ NoSharing(q.tex)
      /\ Shrunk(r.tex, q.tex, h.index)
      /\ Slots(q.tex) = Slots(r.tex) /\ q.tex.gen = r.tex.gen
  BY <1>1, <1>2, <1>3, FreedShrunk
<1>5. Small(q)
  BY <1>3 DEF Small, SameButTextures
<1>6. ImageType(q)
  BY <1>3, <1>4 DEF Sound, ImageType, SameButTextures
<1>7. HeldImages(q)
  <2> PICK t : t = h.index
    OBVIOUS
  <2>1. /\ Occupied(q.tex) = Occupied(r.tex) \ {t} /\ r.tex.res[t].swap
        /\ \A s \in Occupied(q.tex) : q.tex.res[s] = r.tex.res[s]
    BY <1>2, <1>4 DEF Shrunk
  <2>2. q.images = r.images /\ q.shown = r.shown
    BY <1>3 DEF SameButTextures
  <2>3. ASSUME NEW s \in Occupied(q.tex)
        PROVE  /\ q.tex.res[s].swap => q.tex.res[s].image \in q.shown
               /\ ~ q.tex.res[s].swap => q.tex.res[s].image \in q.images
    BY <1>1, <2>1, <2>2 DEF HeldImages
  <2>4. ASSUME NEW y \in q.images
        PROVE  \E s \in Occupied(q.tex) : ~ q.tex.res[s].swap /\ q.tex.res[s].image = y
    <3>1. PICK s \in Occupied(r.tex) : ~ r.tex.res[s].swap /\ r.tex.res[s].image = y
      BY <1>1, <2>2 DEF HeldImages
    <3>2. s \in Occupied(q.tex) /\ q.tex.res[s] = r.tex.res[s]
      BY <2>1, <3>1
    <3>3. QED BY <3>1, <3>2
  <2>5. QED BY <2>3, <2>4 DEF HeldImages
<1>8. HeldViews(q) /\ q.faults = {}
  BY <1>1, <1>3 DEF HeldViews, SameButTextures
<1>9. QED
  BY <1>3, <1>4, <1>5, <1>6, <1>7, <1>8 DEF Sound

(* The textures in r's slots are there in q, and so are its views.         *)
KeptTextures(r, q, T) ==
  \A s \in T : /\ s \in Occupied(q.tex)
               /\ q.tex.res[s] = r.tex.res[s] /\ q.tex.gen[s] = r.tex.gen[s]
KeptViews(r, q, V) ==
  \A s \in V : /\ s \in Occupied(q.view)
               /\ q.view.res[s] = r.view.res[s] /\ q.view.gen[s] = r.view.gen[s]
               /\ q.views[q.view.res[s]] = r.views[r.view.res[s]]

(* Handle{} resolves to nothing.                                           *)
LEMMA InvalidNamesNothing ==
  /\ InvalidHandle \in Handles /\ ~ isValid(InvalidHandle) /\ InvalidHandle.index = 0
  /\ \A p : ~ IsAlive(p, InvalidHandle) /\ ~ Names(p, InvalidHandle)
BY GenModAssumption DEF Handles, InvalidHandle, Gens, Names, IsAlive, isValid

(* Handles of the same slot and generation are the same.                   *)
LEMMA SameHandle ==
  ASSUME NEW h \in Handles, NEW k \in Handles, h.index = k.index, h.gen = k.gen
  PROVE  h = k
BY DEF Handles

(* The image of a texture in a slot is there.                              *)
LEMMA HeldImage ==
  ASSUME NEW r, Sound(r), NEW s \in Occupied(r.tex)
  PROVE  /\ r.tex.res[s] \in TexRes
         /\ r.tex.res[s].image \in r.images \cup r.shown
         /\ r.tex.res[s].swap => r.tex.res[s].image \in r.shown
         /\ ~ r.tex.res[s].swap => r.tex.res[s].image \in r.images
<1>1. /\ r.tex.res[s].swap => r.tex.res[s].image \in r.shown
      /\ ~ r.tex.res[s].swap => r.tex.res[s].image \in r.images
  BY DEF Sound, HeldImages
<1>2. r.tex.res \in [0 .. r.tex.size - 1 -> TexRes \cup {NullRes}] /\ r.tex.size \in Nat
  BY DEF Sound, ImageType, PoolOK, IsPool
<1>3. r.tex.res[s] \in TexRes
  BY <1>2 DEF Occupied, Slots
<1>4. QED BY <1>1, <1>3

(* r with one more view, of an image.                                      *)
WithView(r, image) ==
  [r EXCEPT !.views = [x \in DOMAIN @ \cup {NextView(r)} |->
                         IF x = NextView(r) THEN image ELSE @[x]],
            !.view = Allocated(@, NextView(r))]

(* What VKCreateTextureView() returns.                                     *)
LEMMA CreateTextureViewIs ==
  ASSUME NEW r, NEW h, NEW ok \in BOOLEAN
  PROVE  CreateTextureView(r, h, ok) =
           IF ~ ok \/ ~ IsAlive(r.tex, h) THEN [res |-> r, handle |-> InvalidHandle]
           ELSE IF Get(r.tex, h) = NullRes
           THEN [res |-> Fault(r, TRUE, "view of no image"), handle |-> InvalidHandle]
           ELSE [res |-> WithView(r, Get(r.tex, h).image), handle |-> NewHandle(r.view)]
BY Zenon DEF CreateTextureView, Returns, WithView

(* VKCreateTextureView() of a texture makes a view of its image.           *)
LEMMA MadeView ==
  ASSUME NEW r, Sound(r), NEW i \in r.images \cup r.shown,
         NEW q, q = WithView(r, i), NEW k, k = NewHandle(r.view), NEW n, n = NextView(r)
  PROVE  /\ Sound(q) /\ SameButViews(r, q)
         /\ Grown(r.view, q.view, k, n) /\ n \notin DOMAIN r.views
         /\ DOMAIN q.views = DOMAIN r.views \cup {n}
         /\ q.views[n] = i
         /\ \A x \in DOMAIN r.views : q.views[x] = r.views[x]
         /\ Low(r) => Low(q)
<1> PICK f : f = [x \in DOMAIN r.views \cup {n} |-> IF x = n THEN i ELSE r.views[x]]
  OBVIOUS
<1>1. /\ PoolOK(r.view, ViewRes) /\ NoSharing(r.view) /\ PoolOK(r.tex, TexRes)
      /\ IsImages(r) /\ HeldImages(r) /\ HeldViews(r) /\ r.faults = {}
  BY DEF Sound, ImageType
<1>2. q = [r EXCEPT !.views = f, !.view = Allocated(@, n)]
  BY Zenon DEF WithView
<1>3. /\ q.view = Allocated(r.view, n) /\ q.views = f
      /\ SameButViews(r, q) /\ IsImages(q)
  BY <1>1, <1>2 DEF IsImages, SameButViews
<1>4. IsFiniteSet(DOMAIN r.views) /\ DOMAIN r.views \subseteq Nat \ {0}
  BY DEF Sound, ImageType
<1>5. n \in ViewRes /\ n \notin DOMAIN r.views
  BY <1>4, LeastFreeIs, FS_CardinalityType DEF NextView, ViewRes
<1>6. /\ PoolOK(q.view, ViewRes) /\ NoSharing(q.view)
      /\ Grown(r.view, q.view, k, n)
  <2>1. \A s \in Occupied(r.view) : r.view.res[s] # n
    BY <1>1, <1>5 DEF HeldViews
  <2>2. /\ PoolOK(Allocated(r.view, n), ViewRes) /\ NoSharing(Allocated(r.view, n))
        /\ Grown(r.view, Allocated(r.view, n), NewHandle(r.view), n)
    BY <1>1, <1>5, <2>1, NotNull, AllocatedGrown
  <2>3. QED BY <1>3, <2>2
<1>7. /\ DOMAIN f = DOMAIN r.views \cup {n} /\ f[n] = i
      /\ \A x \in DOMAIN r.views : f[x] = r.views[x]
  BY <1>5
<1>9. ImageType(q)
  <2>1. IsFiniteSet(DOMAIN f)
    BY <1>4, <1>7, FS_AddElement
  <2>2. f \in [DOMAIN f -> Images \cup r.images \cup r.shown]
    <3>1. r.views \in [DOMAIN r.views -> Images \cup r.images \cup r.shown]
      BY DEF Sound, ImageType
    <3>2. QED BY <3>1
  <2>3. DOMAIN f \subseteq Nat \ {0}
    BY <1>4, <1>5, <1>7 DEF ViewRes
  <2>4. QED BY <1>3, <1>6, <2>1, <2>2, <2>3 DEF Sound, ImageType, SameButViews
<1>10. HeldViews(q)
  <2> PICK t : t = k.index
    OBVIOUS
  <2>1. /\ Occupied(q.view) = Occupied(r.view) \cup {t} /\ q.view.res[t] = n
        /\ \A s \in Occupied(r.view) : q.view.res[s] = r.view.res[s]
    BY <1>6 DEF Grown
  <2>2. DOMAIN q.views = DOMAIN r.views \cup {n}
    BY <1>3, <1>7
  <2>3. \A s \in Occupied(q.view) : q.view.res[s] \in DOMAIN q.views
    BY <1>1, <2>1, <2>2 DEF HeldViews
  <2>4. ASSUME NEW y \in DOMAIN q.views PROVE \E s \in Occupied(q.view) : q.view.res[s] = y
    <3>1. CASE y = n
      BY <2>1, <3>1
    <3>2. CASE y \in DOMAIN r.views
      <4>1. PICK s \in Occupied(r.view) : r.view.res[s] = y
        BY <1>1, <3>2 DEF HeldViews
      <4>2. s \in Occupied(q.view) /\ q.view.res[s] = y
        BY <2>1, <4>1
      <4>3. QED BY <4>2
    <3>3. QED BY <2>2, <3>1, <3>2
  <2>5. QED BY <2>3, <2>4 DEF HeldViews
<1>11. HeldImages(q) /\ q.faults = {}
  BY <1>1, <1>3 DEF HeldImages, SameButViews
<1>12. ASSUME Low(r) PROVE Low(q)
  <2>1. LowSet(DOMAIN r.views \cup {n}, MaxViews)
    BY <1>4, <1>12, LowGrown DEF Low, NextView
  <2>2. QED BY <1>3, <1>7, <1>12, <2>1 DEF Low, SameButViews
<1>13. QED
  BY <1>3, <1>5, <1>6, <1>7, <1>9, <1>10, <1>11, <1>12 DEF Sound

(* VKDestroyTextureView() destroys the view the handle names.              *)
LEMMA LostView ==
  ASSUME NEW r, Sound(r), NEW h \in Handles, Names(r.view, h),
         NEW q, q = DestroyTextureView(r, h), NEW n, n = Get(r.view, h)
  PROVE  /\ Sound(q) /\ (Small(r) => Small(q)) /\ SameButViews(r, q)
         /\ Shrunk(r.view, q.view, h.index)
         /\ DOMAIN q.views = DOMAIN r.views \ {n}
         /\ \A x \in DOMAIN q.views : q.views[x] = r.views[x]
         /\ Slots(q.view) = Slots(r.view) /\ q.view.gen = r.view.gen
<1> PICK f : f = [x \in DOMAIN r.views \ {n} |-> r.views[x]]
  OBVIOUS
<1>1. /\ PoolOK(r.view, ViewRes) /\ NoSharing(r.view)
      /\ IsImages(r) /\ HeldImages(r) /\ HeldViews(r) /\ r.faults = {}
  BY DEF Sound, ImageType
<1>2. /\ IsAlive(r.view, h) /\ n # NullRes
      /\ h.index \in Occupied(r.view) /\ n = r.view.res[h.index]
  BY <1>1, NamesIs DEF Names, Get
<1>3. n \in DOMAIN r.views
  BY <1>1, <1>2 DEF HeldViews
<1>4. q.view = Freed(r.view, h) /\ q.views = f /\ SameButViews(r, q) /\ IsImages(q)
  <2> PICK d : d = [r EXCEPT !.views = f]
    OBVIOUS
  <2>1. {Get(r.view, h)} \ {NullRes} = {n}
    BY <1>2
  <2>2. DestroyVkImageViews(r, {n}) = d
    BY <1>3 DEF DestroyVkImageViews, Fault
  <2>3. q = [d EXCEPT !.view = Freed(@, h)]
    BY <1>2, <2>1, <2>2 DEF DestroyTextureView
  <2>4. QED BY <1>1, <2>3 DEF IsImages, SameButViews
<1>5. /\ PoolOK(q.view, ViewRes) /\ NoSharing(q.view)
      /\ Shrunk(r.view, q.view, h.index)
      /\ Slots(q.view) = Slots(r.view) /\ q.view.gen = r.view.gen
  BY <1>1, <1>2, <1>4, FreedShrunk
<1>6. /\ DOMAIN f = DOMAIN r.views \ {n}
      /\ \A x \in DOMAIN f : f[x] = r.views[x]
  OBVIOUS
<1>7. Small(r) => Small(q)
  BY <1>4, <1>6 DEF Small, SameButViews
<1>8. ImageType(q)
  <2>1. IsFiniteSet(DOMAIN f)
    <3>1. IsFiniteSet(DOMAIN r.views) /\ DOMAIN f \in SUBSET DOMAIN r.views
      BY <1>6 DEF Sound, ImageType
    <3>2. QED BY <3>1, FS_Subset
  <2>2. f \in [DOMAIN f -> Images \cup r.images \cup r.shown]
    <3>1. r.views \in [DOMAIN r.views -> Images \cup r.images \cup r.shown]
      BY DEF Sound, ImageType
    <3>2. QED BY <1>6, <3>1
  <2>3. DOMAIN f \subseteq Nat \ {0}
    BY <1>6 DEF Sound, ImageType
  <2>4. QED BY <1>4, <1>5, <2>1, <2>2, <2>3 DEF Sound, ImageType, SameButViews
<1>9. HeldViews(q)
  <2> PICK t : t = h.index
    OBVIOUS
  <2>1. /\ Occupied(q.view) = Occupied(r.view) \ {t} /\ r.view.res[t] = n
        /\ \A s \in Occupied(q.view) : q.view.res[s] = r.view.res[s]
        /\ t \in Occupied(r.view)
    BY <1>2, <1>5 DEF Shrunk
  <2>2. DOMAIN q.views = DOMAIN r.views \ {n}
    BY <1>4, <1>6
  <2>3. ASSUME NEW s \in Occupied(q.view) PROVE q.view.res[s] \in DOMAIN q.views
    <3>1. s \in Occupied(r.view) /\ s # t /\ q.view.res[s] = r.view.res[s]
      BY <2>1
    <3>2. r.view.res[s] # n /\ r.view.res[s] \in DOMAIN r.views
      BY <1>1, <2>1, <3>1 DEF NoSharing, HeldViews
    <3>3. QED BY <2>2, <3>1, <3>2
  <2>4. ASSUME NEW y \in DOMAIN q.views PROVE \E s \in Occupied(q.view) : q.view.res[s] = y
    <3>1. PICK s \in Occupied(r.view) : r.view.res[s] = y
      BY <1>1, <2>2 DEF HeldViews
    <3>2. s # t
      BY <2>1, <2>2, <3>1
    <3>3. s \in Occupied(q.view) /\ q.view.res[s] = y
      BY <2>1, <3>1, <3>2
    <3>4. QED BY <3>3
  <2>5. QED BY <2>3, <2>4 DEF HeldViews
<1>10. HeldImages(q) /\ q.faults = {}
  BY <1>1, <1>4 DEF HeldImages, SameButViews
<1>11. QED
  BY <1>4, <1>5, <1>6, <1>7, <1>8, <1>9, <1>10 DEF Sound

(* The handles of the swapchain's image j, and where they point.           *)
HandlesOf(c, j) ==
  /\ c.image[j] \in Handles /\ c.depth[j] \in Handles
  /\ c.imageView[j] \in Handles /\ c.depthView[j] \in Handles

SlotsIn(c, j, T, V) ==
  /\ c.image[j].index \in T
  /\ isValid(c.depth[j]) => c.depth[j].index \in T
  /\ isValid(c.imageView[j]) => c.imageView[j].index \in V
  /\ isValid(c.depthView[j]) => c.depthView[j].index \in V

PoolsOK(r) == PoolOK(r.tex, TexRes) /\ PoolOK(r.view, ViewRes)

(* What the swapchain's handles name stays as long as the slots do.        *)
LEMMA ChainKept ==
  ASSUME NEW r, NEW q, PoolsOK(r), PoolsOK(q), NEW T, NEW V,
         KeptTextures(r, q, T), KeptViews(r, q, V),
         NEW c, NEW j, HandlesOf(c, j), SlotsIn(c, j, T, V), ChainImage(r, c, j)
  PROVE  ChainImage(q, c, j)
<1>1. ASSUME NEW h \in Handles, Names(r.tex, h), h.index \in T
      PROVE  Names(q.tex, h) /\ Get(q.tex, h) = Get(r.tex, h)
  BY <1>1, NameKept DEF KeptTextures, PoolsOK
<1>2. ASSUME NEW h \in Handles, Names(r.view, h), h.index \in V
      PROVE  /\ Names(q.view, h) /\ Get(q.view, h) = Get(r.view, h)
             /\ q.views[Get(q.view, h)] = r.views[Get(r.view, h)]
  <2>1. Names(q.view, h) /\ Get(q.view, h) = Get(r.view, h)
    BY <1>2, NameKept DEF KeptViews, PoolsOK
  <2>2. q.views[q.view.res[h.index]] = r.views[r.view.res[h.index]]
    BY <1>2 DEF KeptViews
  <2>3. QED BY <2>1, <2>2 DEF Get
<1> PICK ih : ih = c.image[j]
  OBVIOUS
<1> PICK dh : dh = c.depth[j]
  OBVIOUS
<1> PICK iv : iv = c.imageView[j]
  OBVIOUS
<1> PICK dv : dv = c.depthView[j]
  OBVIOUS
<1>3. /\ ih \in Handles /\ dh \in Handles /\ iv \in Handles /\ dv \in Handles
      /\ ih.index \in T /\ (isValid(dh) => dh.index \in T)
      /\ (isValid(iv) => iv.index \in V) /\ (isValid(dv) => dv.index \in V)
  BY DEF HandlesOf, SlotsIn
<1>4. /\ Names(r.tex, ih) /\ Get(r.tex, ih) = [image |-> c.vk[j], swap |-> TRUE]
      /\ isValid(dh) => Names(r.tex, dh) /\ ~ Get(r.tex, dh).swap
      /\ isValid(iv) => Names(r.view, iv) /\ r.views[Get(r.view, iv)] = c.vk[j]
      /\ isValid(dv) => /\ isValid(dh) /\ Names(r.view, dv)
                        /\ r.views[Get(r.view, dv)] = Get(r.tex, dh).image
  BY DEF ChainImage
<1>5. Names(q.tex, ih) /\ Get(q.tex, ih) = Get(r.tex, ih)
  BY <1>1, <1>3, <1>4
<1>6. isValid(dh) => Names(q.tex, dh) /\ Get(q.tex, dh) = Get(r.tex, dh)
  BY <1>1, <1>3, <1>4
<1>7. isValid(iv) => Names(q.view, iv) /\ q.views[Get(q.view, iv)] = r.views[Get(r.view, iv)]
  BY <1>2, <1>3, <1>4
<1>8. isValid(dv) => Names(q.view, dv) /\ q.views[Get(q.view, dv)] = r.views[Get(r.view, dv)]
  BY <1>2, <1>3, <1>4
<1>9. /\ Names(q.tex, ih) /\ Get(q.tex, ih) = [image |-> c.vk[j], swap |-> TRUE]
      /\ isValid(dh) => Names(q.tex, dh) /\ ~ Get(q.tex, dh).swap
  BY <1>4, <1>5, <1>6
<1>10. isValid(iv) => Names(q.view, iv) /\ q.views[Get(q.view, iv)] = c.vk[j]
  BY <1>4, <1>7
<1>11. isValid(dv) => /\ isValid(dh) /\ Names(q.view, dv)
                      /\ q.views[Get(q.view, dv)] = Get(q.tex, dh).image
  BY <1>4, <1>6, <1>8
<1>12. QED BY <1>9, <1>10, <1>11 DEF ChainImage

(* The slots an image of the swapchain has are occupied.                   *)
LEMMA ChainSlots ==
  ASSUME NEW r, PoolsOK(r), NEW c, NEW j, HandlesOf(c, j), ChainImage(r, c, j)
  PROVE  SlotsIn(c, j, Occupied(r.tex), Occupied(r.view))
BY NamesIs DEF PoolsOK, HandlesOf, ChainImage, SlotsIn

(* Sound images are in sound pools.                                        *)
LEMMA SoundPools ==
  ASSUME NEW r, Sound(r)
  PROVE  PoolsOK(r)
BY DEF Sound, ImageType, PoolsOK

(* Slots that an operation on the other pool does not touch.               *)
LEMMA KeptAll ==
  ASSUME NEW r, NEW q
  PROVE  /\ q.tex = r.tex => KeptTextures(r, q, Occupied(r.tex))
         /\ q.view = r.view /\ q.views = r.views => KeptViews(r, q, Occupied(r.view))
BY DEF KeptTextures, KeptViews

(* What VKDestroyTextureView() leaves of the pools.                        *)
LostViewPost(r, q, h) ==
  /\ Sound(q) /\ (Small(r) => Small(q)) /\ SameButViews(r, q)
  /\ KeptViews(r, q, Occupied(r.view) \ {h.index})
  /\ Slots(q.view) = Slots(r.view) /\ q.view.gen = r.view.gen

(* destroySwapchain() and the client destroy a view: one there is, or none.*)
LEMMA LostViewOrNot ==
  ASSUME NEW r, Sound(r), NEW h \in Handles, isValid(h) => Names(r.view, h),
         NEW q, q = DestroyTextureView(r, h)
  PROVE  LostViewPost(r, q, h)
<1>1. CASE isValid(h)
  <2> PICK n : n = Get(r.view, h)
    OBVIOUS
  <2>1. /\ Sound(q) /\ (Small(r) => Small(q)) /\ SameButViews(r, q)
        /\ Shrunk(r.view, q.view, h.index)
        /\ DOMAIN q.views = DOMAIN r.views \ {n}
        /\ \A x \in DOMAIN q.views : q.views[x] = r.views[x]
        /\ Slots(q.view) = Slots(r.view) /\ q.view.gen = r.view.gen
    BY <1>1, LostView
  <2>2. ASSUME NEW s \in Occupied(r.view) \ {h.index}
        PROVE  /\ s \in Occupied(q.view)
               /\ q.view.res[s] = r.view.res[s] /\ q.view.gen[s] = r.view.gen[s]
               /\ q.views[q.view.res[s]] = r.views[r.view.res[s]]
    <3>1. s \in Occupied(q.view) /\ q.view.res[s] = r.view.res[s] /\ q.view.gen[s] = r.view.gen[s]
      BY <2>1 DEF Shrunk
    <3>2. q.view.res[s] \in DOMAIN q.views
      BY <2>1, <3>1 DEF Sound, HeldViews
    <3>3. QED BY <2>1, <3>1, <3>2
  <2>3. QED BY <2>1, <2>2 DEF KeptViews, LostViewPost
<1>2. CASE ~ isValid(h)
  <2>1. q = r
    BY <1>2 DEF DestroyTextureView, IsAlive
  <2>2. QED BY <2>1, KeptAll DEF SameButViews, KeptViews, LostViewPost
<1>3. QED BY <1>1, <1>2

(* What VKDestroyTexture() leaves of them.                                 *)
LostTexturePost(r, q, h) ==
  /\ Sound(q) /\ Small(q) /\ SameButTextures(r, q)
  /\ KeptTextures(r, q, Occupied(r.tex) \ {h.index})
  /\ \A s \in Occupied(q.tex) : s \in Occupied(r.tex) /\ q.tex.res[s] = r.tex.res[s]
  /\ Slots(q.tex) = Slots(r.tex) /\ q.tex.gen = r.tex.gen

(* The same of a texture of the allocator's.                               *)
LEMMA LostTextureOrNot ==
  ASSUME NEW r, Sound(r), Small(r), NEW h \in Handles,
         isValid(h) => Names(r.tex, h) /\ ~ Get(r.tex, h).swap,
         NEW q, q = DestroyTexture(r, h)
  PROVE  LostTexturePost(r, q, h)
<1>1. CASE isValid(h)
  <2>1. /\ Sound(q) /\ Small(q) /\ SameButTextures(r, q)
        /\ Shrunk(r.tex, q.tex, h.index)
        /\ Slots(q.tex) = Slots(r.tex) /\ q.tex.gen = r.tex.gen
    BY <1>1, LostTexture
  <2>2. QED BY <2>1 DEF Shrunk, KeptTextures, LostTexturePost
<1>2. CASE ~ isValid(h)
  <2>1. q = r
    BY <1>2 DEF DestroyTexture, IsAlive
  <2>2. QED BY <2>1, KeptAll DEF SameButTextures, KeptTextures, LostTexturePost
<1>3. QED BY <1>1, <1>2

(* What VKCreateTexture() leaves: a new image in a free slot, or none.     *)
MadeTexturePost(r, q, h) ==
  /\ Sound(q) /\ SameButTextures(r, q) /\ (Low(r) => Low(q)) /\ h \in Handles
  /\ KeptTextures(r, q, Occupied(r.tex))
  /\ isValid(h) => /\ Names(q.tex, h) /\ ~ Get(q.tex, h).swap
                   /\ h.index \notin Occupied(r.tex)
  /\ \A s \in Occupied(q.tex) : q.tex.res[s].swap =>
       s \in Occupied(r.tex) /\ q.tex.res[s] = r.tex.res[s]

(* A texture is made, or not.                                              *)
LEMMA MadeTextureOrNot ==
  ASSUME NEW r, Sound(r), NEW ok \in BOOLEAN, NEW d, d = CreateTexture(r, ok),
         NEW q, q = d.res, NEW h, h = d.handle
  PROVE  MadeTexturePost(r, q, h)
<1>1. CASE ok
  <2>1. d = [res |-> WithTexture(r), handle |-> NewHandle(r.tex)]
    BY <1>1, CreateTextureIs
  <2>2. q = WithTexture(r) /\ h = NewHandle(r.tex)
    BY <2>1
  <2> PICK x : x = [image |-> NextImage(r), swap |-> FALSE]
    OBVIOUS
  <2>3. /\ Sound(q) /\ SameButTextures(r, q) /\ (Low(r) => Low(q))
        /\ Grown(r.tex, q.tex, h, x)
    BY <2>2, MadeTexture
  <2>4. Names(q.tex, h) /\ Get(q.tex, h) = x /\ ~ x.swap
    BY <2>3, NameMade, SoundPools DEF PoolsOK
  <2>5. /\ h \in Handles /\ h.index \notin Occupied(r.tex)
        /\ KeptTextures(r, q, Occupied(r.tex))
    BY <2>3 DEF Grown, KeptTextures
  <2>6. ASSUME NEW s \in Occupied(q.tex), q.tex.res[s].swap
        PROVE  s \in Occupied(r.tex) /\ q.tex.res[s] = r.tex.res[s]
    BY <2>3, <2>4, <2>6 DEF Grown
  <2>7. QED BY <2>3, <2>4, <2>5, <2>6 DEF MadeTexturePost
<1>2. CASE ~ ok
  <2>1. d = [res |-> r, handle |-> InvalidHandle]
    BY <1>2, CreateTextureIs
  <2>2. q = r /\ h = InvalidHandle
    BY <2>1
  <2>3. QED BY <2>2, InvalidNamesNothing, KeptAll DEF SameButTextures, KeptTextures, MadeTexturePost
<1>3. QED BY <1>1, <1>2

(* What VKCreateTextureView() leaves: a view k of the image of h, or none. *)
MadeViewPost(r, q, h, k) ==
  /\ Sound(q) /\ SameButViews(r, q) /\ (Low(r) => Low(q)) /\ k \in Handles
  /\ KeptViews(r, q, Occupied(r.view))
  /\ isValid(k) => /\ isValid(h) /\ Names(q.view, k)
                   /\ q.views[Get(q.view, k)] = Get(q.tex, h).image

(* A view of a texture is made, or not.                                    *)
LEMMA MadeViewOrNot ==
  ASSUME NEW r, Sound(r), NEW h \in Handles, IsAlive(r.tex, h) => Names(r.tex, h),
         NEW ok \in BOOLEAN, NEW d, d = CreateTextureView(r, h, ok),
         NEW q, q = d.res, NEW k, k = d.handle
  PROVE  MadeViewPost(r, q, h, k)
<1>1. CASE ok /\ IsAlive(r.tex, h)
  <2> PICK i : i = Get(r.tex, h).image
    OBVIOUS
  <2> PICK n : n = NextView(r)
    OBVIOUS
  <2>1. isValid(h) /\ Get(r.tex, h) # NullRes /\ h.index \in Occupied(r.tex)
    <3>1. PoolOK(r.tex, TexRes)
      BY SoundPools DEF PoolsOK
    <3>2. Names(r.tex, h)
      BY <1>1
    <3>3. QED BY <3>1, <3>2, NamesIs DEF Names
  <2>2. i \in r.images \cup r.shown
    BY <2>1, HeldImage DEF Get
  <2>3. d = [res |-> WithView(r, i), handle |-> NewHandle(r.view)]
    BY <1>1, <2>1, CreateTextureViewIs
  <2>4. q = WithView(r, i) /\ k = NewHandle(r.view)
    BY <2>3
  <2>5. /\ Sound(q) /\ SameButViews(r, q) /\ (Low(r) => Low(q))
        /\ Grown(r.view, q.view, k, n)
        /\ q.views[n] = i
        /\ \A x \in DOMAIN r.views : q.views[x] = r.views[x]
    BY <2>2, <2>4, MadeView
  <2>6. Names(q.view, k) /\ Get(q.view, k) = n
    BY <2>5, NameMade, SoundPools DEF PoolsOK
  <2>7. Get(q.tex, h).image = i
    BY <2>5 DEF SameButViews
  <2>8. ASSUME NEW s \in Occupied(r.view)
        PROVE  /\ s \in Occupied(q.view)
               /\ q.view.res[s] = r.view.res[s] /\ q.view.gen[s] = r.view.gen[s]
               /\ q.views[q.view.res[s]] = r.views[r.view.res[s]]
    <3>1. r.view.res[s] \in DOMAIN r.views
      BY DEF Sound, HeldViews
    <3>2. QED BY <2>5, <3>1 DEF Grown
  <2>9. KeptViews(r, q, Occupied(r.view)) /\ k \in Handles
    BY <2>5, <2>8 DEF KeptViews, Grown
  <2>10. QED BY <2>1, <2>5, <2>6, <2>7, <2>9 DEF MadeViewPost
<1>2. CASE ~ ok \/ ~ IsAlive(r.tex, h)
  <2>1. d = [res |-> r, handle |-> InvalidHandle]
    BY <1>2, CreateTextureViewIs
  <2>2. q = r /\ k = InvalidHandle
    BY <2>1
  <2>3. QED BY <2>2, InvalidNamesNothing, KeptAll DEF SameButViews, KeptViews, MadeViewPost
<1>3. QED BY <1>1, <1>2

(* What is known of one image of the swapchain and of its views.           *)
ChainFact(r, c, j) ==
  /\ c.image[j].index \in Occupied(r.tex)
  /\ r.tex.res[c.image[j].index] = [image |-> c.vk[j], swap |-> TRUE]
  /\ c.vk[j] \in r.shown /\ c.vk[j] \notin r.images
  /\ isValid(c.depth[j]) =>
       /\ c.depth[j].index \in Occupied(r.tex)
       /\ ~ r.tex.res[c.depth[j].index].swap
       /\ r.tex.res[c.depth[j].index].image \in r.images
  /\ isValid(c.imageView[j]) =>
       /\ c.imageView[j].index \in Occupied(r.view)
       /\ r.views[r.view.res[c.imageView[j].index]] = c.vk[j]
  /\ isValid(c.depthView[j]) =>
       /\ isValid(c.depth[j]) /\ c.depthView[j].index \in Occupied(r.view)
       /\ r.views[r.view.res[c.depthView[j].index]] =
            r.tex.res[c.depth[j].index].image

(* What the handles of one image of the swapchain name, slot by slot.      *)
LEMMA ChainFacts ==
  ASSUME NEW r, Sound(r), NEW c, NEW j, HandlesOf(c, j), ChainImage(r, c, j)
  PROVE  ChainFact(r, c, j)
<1>1. SlotsIn(c, j, Occupied(r.tex), Occupied(r.view))
  BY SoundPools, ChainSlots
<1>2. /\ r.tex.res[c.image[j].index] = [image |-> c.vk[j], swap |-> TRUE]
      /\ isValid(c.depth[j]) => ~ r.tex.res[c.depth[j].index].swap
      /\ isValid(c.imageView[j]) => r.views[r.view.res[c.imageView[j].index]] = c.vk[j]
      /\ isValid(c.depthView[j]) =>
           /\ isValid(c.depth[j])
           /\ r.views[r.view.res[c.depthView[j].index]] = r.tex.res[c.depth[j].index].image
  BY DEF ChainImage, Get
<1>3. c.vk[j] \in r.shown
  <2> PICK x : x = r.tex.res[c.image[j].index]
    OBVIOUS
  <2>1. x = [image |-> c.vk[j], swap |-> TRUE]
    BY <1>2
  <2>2. x.swap => x.image \in r.shown
    BY <1>1, HeldImage DEF SlotsIn
  <2>3. QED BY <2>1, <2>2
<1>4. r.images \cap r.shown = {}
  BY DEF Sound, ImageType
<1>5. isValid(c.depth[j]) => r.tex.res[c.depth[j].index].image \in r.images
  BY <1>1, <1>2, HeldImage DEF SlotsIn
<1>6. QED BY <1>1, <1>2, <1>3, <1>4, <1>5 DEF SlotsIn, ChainFact

(* The slots of image i, and whether they are those of another image.      *)
TexSlots(c, i) == {c.image[i].index, c.depth[i].index}
ViewSlots(c, i) == {c.imageView[i].index, c.depthView[i].index}

(* There is no slot 0, and Handle{} is of slot 0.                          *)
LEMMA NoSlotZero ==
  ASSUME NEW p
  PROVE  /\ 0 \notin Occupied(p)
         /\ \A h : ~ isValid(h) => h.index = 0
<1>1. 0 \notin Occupied(p)
  BY DEF Occupied, Slots
<1>2. \A h : ~ isValid(h) => h.index = 0
  BY DEF isValid, InvalidHandle
<1>3. QED BY <1>1, <1>2

(* No two images of the swapchain share a slot, nor an image and its depth *)
(* texture, nor their views.                                               *)
LEMMA ChainApart ==
  ASSUME NEW r, Sound(r), NEW c, ChainType(c), NEW J \in SUBSET (1 .. Len(c.image)),
         ChainOwns(r, c, J), NEW i \in J, NEW j \in J
  PROVE  /\ HandlesOf(c, j)
         /\ i # j => SlotsIn(c, j, Occupied(r.tex) \ TexSlots(c, i),
                                   Occupied(r.view) \ ViewSlots(c, i))
         /\ c.image[i].index # c.depth[i].index
         /\ isValid(c.depthView[i]) => c.depthView[i].index # c.imageView[i].index
<1>1. \A k \in J : HandlesOf(c, k) /\ ChainImage(r, c, k)
  BY DEF ChainType, ChainOwns, HandlesOf
<1>2. /\ c.vk[i] = c.vk[j] => i = j
      /\ isValid(c.depth[j]) /\ c.depth[i].index = c.depth[j].index => i = j
  <2>1. Len(c.vk) = Len(c.image) /\ \A k, l \in 1 .. Len(c.vk) : c.vk[k] = c.vk[l] => k = l
    BY DEF ChainType
  <2>2. QED BY <2>1 DEF ChainOwns
<1>3. ASSUME NEW k \in J
      PROVE  /\ c.image[k].index \in Occupied(r.tex)
             /\ r.tex.res[c.image[k].index].swap
             /\ r.tex.res[c.image[k].index].image = c.vk[k]
             /\ c.vk[k] \notin r.images
             /\ isValid(c.depth[k]) =>
                  /\ c.depth[k].index \in Occupied(r.tex)
                  /\ ~ r.tex.res[c.depth[k].index].swap
                  /\ r.tex.res[c.depth[k].index].image \in r.images
             /\ isValid(c.imageView[k]) =>
                  /\ c.imageView[k].index \in Occupied(r.view)
                  /\ r.views[r.view.res[c.imageView[k].index]] = c.vk[k]
             /\ isValid(c.depthView[k]) =>
                  /\ isValid(c.depth[k]) /\ c.depthView[k].index \in Occupied(r.view)
                  /\ r.views[r.view.res[c.depthView[k].index]] =
                       r.tex.res[c.depth[k].index].image
  <2>1. HandlesOf(c, k) /\ ChainImage(r, c, k)
    BY <1>1
  <2>a. ChainFact(r, c, k)
    BY <2>1, ChainFacts
  <2>2. r.tex.res[c.image[k].index] = [image |-> c.vk[k], swap |-> TRUE]
    BY <2>a DEF ChainFact
  <2> PICK x : x = r.tex.res[c.image[k].index]
    OBVIOUS
  <2>3. x.swap /\ x.image = c.vk[k]
    BY <2>2
  <2>4. /\ c.image[k].index \in Occupied(r.tex) /\ c.vk[k] \notin r.images
        /\ isValid(c.depth[k]) =>
             /\ c.depth[k].index \in Occupied(r.tex)
             /\ ~ r.tex.res[c.depth[k].index].swap
             /\ r.tex.res[c.depth[k].index].image \in r.images
        /\ isValid(c.imageView[k]) =>
             /\ c.imageView[k].index \in Occupied(r.view)
             /\ r.views[r.view.res[c.imageView[k].index]] = c.vk[k]
        /\ isValid(c.depthView[k]) =>
             /\ isValid(c.depth[k]) /\ c.depthView[k].index \in Occupied(r.view)
             /\ r.views[r.view.res[c.depthView[k].index]] =
                  r.tex.res[c.depth[k].index].image
    BY <2>a DEF ChainFact
  <2>5. QED BY <2>3, <2>4
<1>4. /\ 0 \notin Occupied(r.tex) /\ 0 \notin Occupied(r.view)
      /\ \A h : ~ isValid(h) => h.index = 0
  BY NoSlotZero
<1>5. ASSUME NEW h, NEW p, h.index \in Occupied(p)
      PROVE  isValid(h)
  BY <1>5, NoSlotZero
<1>6. \A k, l \in J : c.image[k].index # c.depth[l].index
  <2> SUFFICES ASSUME NEW k \in J, NEW l \in J, c.image[k].index = c.depth[l].index
               PROVE  FALSE
    OBVIOUS
  <2>1. c.image[k].index \in Occupied(r.tex) /\ r.tex.res[c.image[k].index].swap
    BY <1>3
  <2>2. isValid(c.depth[l])
    BY <1>5, <2>1
  <2>3. ~ r.tex.res[c.depth[l].index].swap
    BY <1>3, <2>2
  <2>4. QED BY <2>1, <2>3
<1>7. \A k, l \in J : isValid(c.depthView[k]) => c.depthView[k].index # c.imageView[l].index
  <2> SUFFICES ASSUME NEW k \in J, NEW l \in J, isValid(c.depthView[k]),
                      c.depthView[k].index = c.imageView[l].index
               PROVE  FALSE
    OBVIOUS
  <2>1. /\ isValid(c.depth[k]) /\ c.depthView[k].index \in Occupied(r.view)
        /\ r.views[r.view.res[c.depthView[k].index]] = r.tex.res[c.depth[k].index].image
    BY <1>3
  <2>2. isValid(c.imageView[l])
    BY <1>5, <2>1
  <2>3. r.views[r.view.res[c.imageView[l].index]] = c.vk[l] /\ c.vk[l] \notin r.images
    BY <1>3, <2>2
  <2>4. r.tex.res[c.depth[k].index].image \in r.images
    BY <1>3, <2>1
  <2>5. QED BY <2>1, <2>3, <2>4
<1>8. ASSUME i # j
      PROVE  /\ c.image[j].index \notin TexSlots(c, i)
             /\ isValid(c.depth[j]) => c.depth[j].index \notin TexSlots(c, i)
             /\ isValid(c.imageView[j]) => c.imageView[j].index \notin ViewSlots(c, i)
             /\ isValid(c.depthView[j]) => c.depthView[j].index \notin ViewSlots(c, i)
  <2>1. c.image[j].index # c.image[i].index
    <3>1. /\ r.tex.res[c.image[i].index].image = c.vk[i]
          /\ r.tex.res[c.image[j].index].image = c.vk[j]
      BY <1>3
    <3>2. QED BY <1>2, <1>8, <3>1
  <2>2. isValid(c.depth[j]) => c.depth[j].index # c.depth[i].index
    BY <1>2, <1>8
  <2>3. isValid(c.imageView[j]) => c.imageView[j].index # c.imageView[i].index
    <3> SUFFICES ASSUME isValid(c.imageView[j]), c.imageView[j].index = c.imageView[i].index
                 PROVE  FALSE
      OBVIOUS
    <3>1. /\ c.imageView[j].index \in Occupied(r.view)
          /\ r.views[r.view.res[c.imageView[j].index]] = c.vk[j]
      BY <1>3
    <3>2. isValid(c.imageView[i])
      BY <1>5, <3>1
    <3>3. r.views[r.view.res[c.imageView[i].index]] = c.vk[i]
      BY <1>3, <3>2
    <3>4. QED BY <1>2, <1>8, <3>1, <3>3
  <2>4. isValid(c.imageView[j]) => c.imageView[j].index # c.depthView[i].index
    <3> SUFFICES ASSUME isValid(c.imageView[j]), c.imageView[j].index = c.depthView[i].index
                 PROVE  FALSE
      OBVIOUS
    <3>1. c.imageView[j].index \in Occupied(r.view)
      BY <1>3
    <3>2. isValid(c.depthView[i])
      BY <1>5, <3>1
    <3>3. QED BY <1>7, <3>2
  <2>5. isValid(c.depthView[j]) => c.depthView[j].index # c.depthView[i].index
    <3> SUFFICES ASSUME isValid(c.depthView[j]), c.depthView[j].index = c.depthView[i].index
                 PROVE  FALSE
      OBVIOUS
    <3>1. /\ isValid(c.depth[j]) /\ c.depthView[j].index \in Occupied(r.view)
          /\ r.views[r.view.res[c.depthView[j].index]] = r.tex.res[c.depth[j].index].image
      BY <1>3
    <3>2. isValid(c.depthView[i])
      BY <1>5, <3>1
    <3>a. /\ isValid(c.depth[i])
          /\ r.views[r.view.res[c.depthView[i].index]] = r.tex.res[c.depth[i].index].image
      BY <1>3, <3>2
    <3>b. r.tex.res[c.depth[i].index].image = r.tex.res[c.depth[j].index].image
      BY <3>1, <3>a
    <3>3. /\ c.depth[i].index \in Occupied(r.tex) /\ ~ r.tex.res[c.depth[i].index].swap
          /\ c.depth[j].index \in Occupied(r.tex) /\ ~ r.tex.res[c.depth[j].index].swap
      BY <1>3, <3>1, <3>a
    <3>4. r.tex.res[c.depth[i].index] \in TexRes /\ r.tex.res[c.depth[j].index] \in TexRes
      BY <3>3, HeldImage
    <3>5. r.tex.res[c.depth[i].index] = r.tex.res[c.depth[j].index]
      BY <3>b, <3>3, <3>4 DEF TexRes
    <3>6. NoSharing(r.tex)
      BY DEF Sound, ImageType
    <3>7. c.depth[i].index = c.depth[j].index
      BY <3>3, <3>5, <3>6 DEF NoSharing
    <3>8. QED BY <1>2, <1>8, <3>1, <3>7
  <2>6. QED BY <1>6, <1>7, <2>1, <2>2, <2>3, <2>4, <2>5 DEF TexSlots, ViewSlots
<1>9. QED BY <1>1, <1>3, <1>6, <1>7, <1>8 DEF SlotsIn

(* What an iteration of the loop in RemoveImages leaves.                   *)
RemovedOne(r, c, q, J, i) ==
  /\ Sound(q) /\ Small(q) /\ ChainOwns(q, c, J \ {i}) /\ q.shown = r.shown
  /\ Slots(q.tex) = Slots(r.tex) /\ q.tex.gen = r.tex.gen
  /\ Slots(q.view) = Slots(r.view) /\ q.view.gen = r.view.gen

(* One iteration of destroySwapchain().                                    *)
LEMMA RemoveStep ==
  ASSUME NEW r, Sound(r), Small(r), NEW c, ChainType(c),
         NEW J \in SUBSET (1 .. Len(c.image)), ChainOwns(r, c, J), NEW i \in J,
         NEW q, q = RemoveImage(r, c, i)
  PROVE  RemovedOne(r, c, q, J, i)
<1> PICK ih : ih = c.image[i]
  OBVIOUS
<1> PICK dh : dh = c.depth[i]
  OBVIOUS
<1> PICK iv : iv = c.imageView[i]
  OBVIOUS
<1> PICK dv : dv = c.depthView[i]
  OBVIOUS
<1>1. /\ ih \in Handles /\ dh \in Handles /\ iv \in Handles /\ dv \in Handles
      /\ ih.index # dh.index /\ (isValid(dv) => dv.index # iv.index)
  BY ChainApart DEF HandlesOf
<1>2. ChainImage(r, c, i) /\ PoolsOK(r)
  BY SoundPools DEF ChainOwns
<1>3. /\ Names(r.tex, ih) /\ Get(r.tex, ih) = [image |-> c.vk[i], swap |-> TRUE]
      /\ isValid(dh) => Names(r.tex, dh) /\ ~ Get(r.tex, dh).swap
      /\ isValid(iv) => Names(r.view, iv)
      /\ isValid(dv) => Names(r.view, dv)
  BY <1>2 DEF ChainImage
<1> PICK r1 : r1 = DestroyTextureView(r, iv)
  OBVIOUS
<1> PICK r2 : r2 = DestroyTextureView(r1, dv)
  OBVIOUS
<1> PICK r3 : r3 = DestroyTexture(r2, dh)
  OBVIOUS
<1>4. q = FreeTexture(r3, ih)
  BY DEF RemoveImage
<1>5. /\ Sound(r1) /\ Small(r1) /\ SameButViews(r, r1)
      /\ KeptViews(r, r1, Occupied(r.view) \ {iv.index})
      /\ Slots(r1.view) = Slots(r.view) /\ r1.view.gen = r.view.gen
  <2>1. LostViewPost(r, r1, iv)
    BY <1>1, <1>3, LostViewOrNot
  <2>2. QED BY <2>1 DEF LostViewPost
<1>6. isValid(dv) => Names(r1.view, dv)
  <2>1. SUFFICES ASSUME isValid(dv) PROVE Names(r1.view, dv)
    OBVIOUS
  <2>2. Names(r.view, dv) /\ dv.index \in Occupied(r.view) \ {iv.index}
    BY <1>1, <1>2, <1>3, <2>1, NamesIs DEF PoolsOK
  <2>3. PoolOK(r.view, ViewRes) /\ PoolOK(r1.view, ViewRes)
    BY <1>2, <1>5, SoundPools DEF PoolsOK
  <2>4. /\ dv.index \in Occupied(r1.view)
        /\ r1.view.res[dv.index] = r.view.res[dv.index]
        /\ r1.view.gen[dv.index] = r.view.gen[dv.index]
    BY <1>5, <2>2 DEF KeptViews
  <2>5. QED BY <1>1, <2>2, <2>3, <2>4, NameKept
<1>7. /\ Sound(r2) /\ Small(r2) /\ SameButViews(r1, r2)
      /\ KeptViews(r1, r2, Occupied(r1.view) \ {dv.index})
      /\ Slots(r2.view) = Slots(r1.view) /\ r2.view.gen = r1.view.gen
  <2>1. Sound(r1) /\ dv \in Handles /\ (isValid(dv) => Names(r1.view, dv)) /\ Small(r1)
    BY <1>1, <1>5, <1>6
  <2>2. LostViewPost(r1, r2, dv)
    BY <2>1, LostViewOrNot
  <2>3. QED BY <2>1, <2>2 DEF LostViewPost
<1>8. r2.tex = r.tex /\ r2.shown = r.shown
  BY <1>5, <1>7 DEF SameButViews
<1>9. /\ Sound(r3) /\ Small(r3) /\ SameButTextures(r2, r3)
      /\ KeptTextures(r2, r3, Occupied(r2.tex) \ {dh.index})
      /\ \A s \in Occupied(r3.tex) : s \in Occupied(r2.tex) /\ r3.tex.res[s] = r2.tex.res[s]
      /\ Slots(r3.tex) = Slots(r2.tex) /\ r3.tex.gen = r2.tex.gen
  <2>1. isValid(dh) => Names(r2.tex, dh) /\ ~ Get(r2.tex, dh).swap
    BY <1>3, <1>8
  <2>2. Sound(r2) /\ dh \in Handles /\ Small(r2)
    BY <1>1, <1>7
  <2>3. LostTexturePost(r2, r3, dh)
    BY <2>1, <2>2, LostTextureOrNot
  <2>4. QED BY <2>3 DEF LostTexturePost
<1>10. Names(r3.tex, ih) /\ Get(r3.tex, ih) = Get(r.tex, ih)
  <2>1. ih.index \in Occupied(r.tex) \ {dh.index}
    BY <1>1, <1>2, <1>3, NamesIs DEF PoolsOK
  <2>2. /\ ih.index \in Occupied(r3.tex) /\ r3.tex.res[ih.index] = r.tex.res[ih.index]
        /\ r3.tex.gen[ih.index] = r.tex.gen[ih.index]
    <3>1. KeptTextures(r, r3, Occupied(r.tex) \ {dh.index})
      <4>1. KeptTextures(r2, r3, Occupied(r2.tex) \ {dh.index}) /\ r2.tex = r.tex
        BY <1>8, <1>9
      <4>2. QED BY <4>1 DEF KeptTextures
    <3>2. QED BY <2>1, <3>1 DEF KeptTextures
  <2>3. PoolOK(r.tex, TexRes) /\ PoolOK(r3.tex, TexRes)
    BY <1>2, <1>9, SoundPools DEF PoolsOK
  <2>4. ih \in Handles /\ Names(r.tex, ih)
    BY <1>1, <1>3
  <2> PICK p : p = r.tex
    OBVIOUS
  <2> PICK p3 : p3 = r3.tex
    OBVIOUS
  <2>5. /\ PoolOK(p, TexRes) /\ PoolOK(p3, TexRes) /\ ih \in Handles /\ Names(p, ih)
        /\ ih.index \in Occupied(p3) /\ p3.res[ih.index] = p.res[ih.index]
        /\ p3.gen[ih.index] = p.gen[ih.index]
    BY <2>2, <2>3, <2>4
  <2>6. Names(p3, ih) /\ Get(p3, ih) = Get(p, ih)
    <3>1. isValid(ih) /\ p.gen[ih.index] = ih.gen
      <4>1. PoolOK(p, TexRes) /\ ih \in Handles
        BY <2>5
      <4>2. Names(p, ih) <=> isValid(ih) /\ ih.index \in Occupied(p) /\ p.gen[ih.index] = ih.gen
        BY <4>1, NamesIs
      <4>3. QED BY <2>5, <4>2
    <3>2. p3.gen[ih.index] = ih.gen
      BY <2>5, <3>1
    <3>3. Names(p3, ih)
      BY <2>5, <3>1, <3>2, NamesIs
    <3>4. QED BY <2>5, <3>3 DEF Get
  <2>7. QED BY <2>6
<1>11. /\ Sound(q) /\ Small(q) /\ SameButTextures(r3, q)
       /\ Shrunk(r3.tex, q.tex, ih.index)
       /\ Slots(q.tex) = Slots(r3.tex) /\ q.tex.gen = r3.tex.gen
  <2>1. Get(r3.tex, ih).swap
    BY <1>3, <1>10
  <2>2. /\ Sound(r3) /\ Small(r3) /\ ih \in Handles /\ Names(r3.tex, ih)
        /\ q = FreeTexture(r3, ih)
    BY <1>1, <1>4, <1>9, <1>10
  <2>3. QED BY <2>1, <2>2, LostSwapTexture
<1>12. /\ q.shown = r.shown /\ q.view = r2.view /\ q.views = r2.views
  BY <1>8, <1>9, <1>11 DEF SameButTextures
<1>13. KeptTextures(r, q, Occupied(r.tex) \ TexSlots(c, i))
  <2> SUFFICES ASSUME NEW s \in Occupied(r.tex), s # ih.index, s # dh.index
               PROVE  /\ s \in Occupied(q.tex)
                      /\ q.tex.res[s] = r.tex.res[s] /\ q.tex.gen[s] = r.tex.gen[s]
    BY DEF KeptTextures, TexSlots
  <2>1. /\ s \in Occupied(r3.tex)
        /\ r3.tex.res[s] = r.tex.res[s] /\ r3.tex.gen[s] = r.tex.gen[s]
    BY <1>8, <1>9 DEF KeptTextures
  <2>2. QED BY <1>11, <2>1 DEF Shrunk
<1>14. KeptViews(r, q, Occupied(r.view) \ ViewSlots(c, i))
  <2> SUFFICES ASSUME NEW s \in Occupied(r.view), s # iv.index, s # dv.index
               PROVE  /\ s \in Occupied(q.view)
                      /\ q.view.res[s] = r.view.res[s] /\ q.view.gen[s] = r.view.gen[s]
                      /\ q.views[q.view.res[s]] = r.views[r.view.res[s]]
    BY DEF KeptViews, ViewSlots
  <2>1. /\ s \in Occupied(r1.view)
        /\ r1.view.res[s] = r.view.res[s] /\ r1.view.gen[s] = r.view.gen[s]
        /\ r1.views[r1.view.res[s]] = r.views[r.view.res[s]]
    BY <1>5 DEF KeptViews
  <2>2. /\ s \in Occupied(r2.view)
        /\ r2.view.res[s] = r1.view.res[s] /\ r2.view.gen[s] = r1.view.gen[s]
        /\ r2.views[r2.view.res[s]] = r1.views[r1.view.res[s]]
    BY <1>7, <2>1 DEF KeptViews
  <2>3. QED BY <1>12, <2>1, <2>2
<1>15. \A j \in J \ {i} : ChainImage(q, c, j)
  <2> SUFFICES ASSUME NEW j \in J, j # i PROVE ChainImage(q, c, j)
    OBVIOUS
  <2>1. /\ HandlesOf(c, j)
        /\ SlotsIn(c, j, Occupied(r.tex) \ TexSlots(c, i), Occupied(r.view) \ ViewSlots(c, i))
    BY ChainApart
  <2>2. ChainImage(r, c, j) /\ PoolsOK(q)
    BY <1>11, SoundPools DEF ChainOwns
  <2>3. QED BY <1>2, <1>13, <1>14, <2>1, <2>2, ChainKept
<1>16. ASSUME NEW s \in Occupied(q.tex), q.tex.res[s].swap
       PROVE  \E j \in J \ {i} : c.image[j].index = s
  <2>1. s # ih.index /\ s \in Occupied(r3.tex) /\ q.tex.res[s] = r3.tex.res[s]
    BY <1>11 DEF Shrunk
  <2>2. s \in Occupied(r.tex) /\ r3.tex.res[s] = r.tex.res[s]
    BY <1>8, <1>9, <2>1, ZenonT(60)
  <2>3. PICK j \in J : c.image[j].index = s
    BY <1>16, <2>1, <2>2 DEF ChainOwns
  <2>4. QED BY <2>1, <2>3
<1>17. ChainOwns(q, c, J \ {i})
  BY <1>15, <1>16 DEF ChainOwns
<1>18. QED BY <1>5, <1>7, <1>8, <1>9, <1>11, <1>12, <1>17 DEF RemovedOne

(* No slot holds an image of the VkSwapchainKHR.                           *)
NoSwap(r) == \A s \in Occupied(r.tex) : ~ r.tex.res[s].swap

(* The slots and generations are the same.                                 *)
SameSlots(r, q) ==
  /\ Slots(q.tex) = Slots(r.tex) /\ q.tex.gen = r.tex.gen
  /\ Slots(q.view) = Slots(r.view) /\ q.view.gen = r.view.gen

(* After n iterations of destroySwapchain()'s loop.                        *)
RemovedSome(r, c, q, n) ==
  /\ Sound(q) /\ Small(q) /\ ChainOwns(q, c, n + 1 .. Len(c.image))
  /\ q.shown = r.shown /\ SameSlots(r, q)

(* The loop: no image of the swapchain is in a slot at its end.            *)
LEMMA RemoveLoop ==
  ASSUME NEW r, Sound(r), Small(r), NEW c, ChainType(c),
         ChainOwns(r, c, 1 .. Len(c.image)), NEW q, q = RemoveImages(r, c)
  PROVE  Sound(q) /\ Small(q) /\ NoSwap(q) /\ q.shown = r.shown /\ SameSlots(r, q)
<1> PICK N \in Nat : N = Len(c.image)
  BY DEF ChainType
<1> PICK f : f = RemoveSome(r, c)
  OBVIOUS
<1> DEFINE P == {n \in 0 .. N : RemovedSome(r, c, f[n], n)}
<1>1. f[0] = r /\ \A n \in 0 .. N - 1 : f[n + 1] = RemoveImage(f[n], c, n + 1)
  BY RemoveSomeIs
<1>2. 0 \in P
  <2>1. RemovedSome(r, c, r, 0)
    BY DEF RemovedSome, SameSlots
  <2>2. QED BY <1>1, <2>1
<1>3. ASSUME NEW n \in 0 .. N - 1, n \in P PROVE n + 1 \in P
  <2> PICK g : g = f[n]
    OBVIOUS
  <2> PICK h : h = f[n + 1]
    OBVIOUS
  <2> PICK i : i = n + 1
    OBVIOUS
  <2> PICK J : J = n + 1 .. N
    OBVIOUS
  <2>1. /\ Sound(g) /\ Small(g) /\ ChainOwns(g, c, J) /\ g.shown = r.shown /\ SameSlots(r, g)
    BY <1>3 DEF RemovedSome
  <2>2. h = RemoveImage(g, c, i)
    BY <1>1
  <2>3. J \in SUBSET (1 .. Len(c.image)) /\ i \in J /\ J \ {i} = i + 1 .. N
    OBVIOUS
  <2>a. RemovedOne(g, c, h, J, i)
    BY <2>1, <2>2, <2>3, RemoveStep
  <2>4. /\ Sound(h) /\ Small(h) /\ ChainOwns(h, c, J \ {i}) /\ h.shown = g.shown
        /\ Slots(h.tex) = Slots(g.tex) /\ h.tex.gen = g.tex.gen
        /\ Slots(h.view) = Slots(g.view) /\ h.view.gen = g.view.gen
    BY <2>a DEF RemovedOne
  <2>5. SameSlots(r, h)
    BY <2>1, <2>4 DEF SameSlots
  <2>6. RemovedSome(r, c, h, i)
    BY <2>1, <2>3, <2>4, <2>5 DEF RemovedSome
  <2>7. QED BY <2>6
<1>4. N \in P
  <2> HIDE DEF P
  <2>1. 0 .. N \subseteq P
    BY <1>2, <1>3, AllNumbers
  <2>2. QED BY <2>1
<1>5. q = f[N]
  BY DEF RemoveImages
<1>6. RemovedSome(r, c, q, N)
  BY <1>4, <1>5
<1>7. NoSwap(q)
  <2>1. ChainOwns(q, c, {})
    BY <1>6 DEF RemovedSome
  <2>2. QED BY <2>1 DEF ChainOwns, NoSwap
<1>8. QED BY <1>6, <1>7 DEF RemovedSome

(* destroySwapchain(): what is left is sound and has no swapchain.         *)
LEMMA DestroyedSwapchain ==
  ASSUME NEW r, Sound(r), Small(r), NEW c, ChainType(c),
         ChainOwns(r, c, 1 .. Len(c.image)), NEW q, q = destroySwapchain(r, c).res
  PROVE  /\ Sound(q) /\ Small(q) /\ NoSwap(q) /\ q.shown = {} /\ SameSlots(r, q)
         /\ destroySwapchain(r, c).chain = NoChain
<1> PICK p : p = RemoveImages(r, c)
  OBVIOUS
<1>1. Sound(p) /\ Small(p) /\ NoSwap(p) /\ SameSlots(r, p)
  BY RemoveLoop
<1>2. q = [p EXCEPT !.shown = {}] /\ destroySwapchain(r, c).chain = NoChain
  BY DEF destroySwapchain
<1>3. /\ q.tex = p.tex /\ q.view = p.view /\ q.images = p.images /\ q.shown = {}
      /\ q.views = p.views /\ q.faults = p.faults /\ IsImages(q)
  BY <1>1, <1>2 DEF Sound, ImageType, IsImages
<1>4. Small(q) /\ NoSwap(q) /\ SameSlots(r, q)
  BY <1>1, <1>3 DEF Small, NoSwap, SameSlots
<1>5. ImageType(q)
  <2>1. q.views \in [DOMAIN q.views -> Images \cup q.images \cup q.shown]
    <3>1. p.views \in [DOMAIN p.views -> Images \cup p.images \cup p.shown]
      BY <1>1 DEF Sound, ImageType
    <3>2. p.images \cup p.shown \subseteq Images
      BY <1>1 DEF Small
    <3>3. QED BY <1>3, <3>1, <3>2
  <2>2. IsFiniteSet({})
    BY FS_EmptySet
  <2>3. QED BY <1>1, <1>3, <2>1, <2>2 DEF Sound, ImageType
<1>6. HeldImages(q)
  <2>1. HeldImages(p) /\ NoSwap(p)
    BY <1>1 DEF Sound
  <2>2. QED BY <1>3, <2>1 DEF HeldImages, NoSwap
<1>7. HeldViews(q) /\ q.faults = {}
  BY <1>1, <1>3 DEF Sound, HeldViews
<1>8. QED BY <1>2, <1>3, <1>4, <1>5, <1>6, <1>7 DEF Sound

(* freeAllVulkanResources() then destroys every view and every image.      *)
LEMMA FreedPools ==
  ASSUME NEW r, Sound(r), NoSwap(r), r.shown = {},
         NEW m, Young(r.tex, m), NEW k, Young(r.view, k)
  PROVE  FreePools(r) = NoImages
<1> DEFINE held == {r.tex.res[i] : i \in Visited(r.tex)} \ {NullRes}
           seen == {r.view.res[i] : i \in Visited(r.view)} \ {NullRes}
           all  == {t.image : t \in held}
<1>1. Visited(r.tex) = Slots(r.tex) /\ Visited(r.view) = Slots(r.view)
  BY DEF Young, Visited
<1>2. held = {r.tex.res[i] : i \in Occupied(r.tex)}
  BY <1>1 DEF Occupied
<1>3. seen = {r.view.res[i] : i \in Occupied(r.view)}
  BY <1>1 DEF Occupied
<1>4. all = r.images
  <2>1. ASSUME NEW i \in Occupied(r.tex) PROVE r.tex.res[i].image \in r.images
    BY HeldImage DEF NoSwap
  <2>2. all \subseteq r.images
    BY <1>2, <2>1
  <2>3. ASSUME NEW x \in r.images PROVE x \in all
    <3>1. PICK i \in Occupied(r.tex) : r.tex.res[i].image = x
      BY DEF Sound, HeldImages
    <3>2. r.tex.res[i] \in held
      BY <1>2
    <3>3. QED BY <3>1, <3>2
  <2>4. QED BY <2>2, <2>3
<1>5. seen = DOMAIN r.views
  BY <1>3 DEF Sound, HeldViews
<1>6. /\ IsImages(r) /\ r.faults = {}
  BY DEF Sound, ImageType
<1> HIDE DEF held, seen, all
<1> PICK e : e = [x \in {} |-> 0]
  OBVIOUS
<1>v. PICK v : v = [r EXCEPT !.views = [x \in DOMAIN r.views \ DOMAIN r.views |-> r.views[x]]]
  OBVIOUS
<1>7. DestroyVkImageViews(r, seen) = v
  BY <1>5, <1>v DEF DestroyVkImageViews, Fault
<1>8. FreePools(r) = [v EXCEPT !.images = @ \ all, !.tex = EmptyPool, !.view = EmptyPool]
  BY <1>4, <1>7 DEF FreePools, Fault, held, seen, all
<1>9. v = [tex |-> r.tex, view |-> r.view, images |-> r.images, shown |-> {}, views |-> e,
           faults |-> {}]
  <2>1. [x \in DOMAIN r.views \ DOMAIN r.views |-> r.views[x]] = e
    OBVIOUS
  <2>2. QED BY <1>6, <1>v, <2>1 DEF IsImages
<1>10. FreePools(r) = [tex |-> EmptyPool, view |-> EmptyPool, images |-> {}, shown |-> {},
                       views |-> e, faults |-> {}]
  <2> PICK q : q = FreePools(r)
    OBVIOUS
  <2> PICK p : p = EmptyPool
    OBVIOUS
  <2>1. q = [v EXCEPT !.images = @ \ all, !.tex = p, !.view = p]
    BY <1>8, Zenon
  <2>2. IsImages(v) /\ v.images = r.images /\ v.shown = {} /\ v.views = e /\ v.faults = {}
    BY <1>9 DEF IsImages
  <2>3. /\ q.tex = p /\ q.view = p /\ q.images = v.images \ all /\ q.shown = v.shown
        /\ q.views = v.views /\ q.faults = v.faults /\ IsImages(q)
    BY <2>1, <2>2 DEF IsImages
  <2>4. q.images = {}
    BY <1>4, <2>2, <2>3
  <2>5. q = [tex |-> p, view |-> p, images |-> {}, shown |-> {}, views |-> e, faults |-> {}]
    BY <2>2, <2>3, <2>4 DEF IsImages
  <2>6. QED BY <2>5, Zenon
<1>11. QED BY <1>10 DEF NoImages

(* The library without an image is sound.                                  *)
LEMMA NoImagesSound ==
  /\ Sound(NoImages) /\ Small(NoImages) /\ NoSwap(NoImages) /\ NoImages.shown = {}
  /\ Young(NoImages.tex, MaxGen) /\ Young(NoImages.view, MaxGen)
  /\ ChainType(NoChain) /\ ChainOwns(NoImages, NoChain, {}) /\ Len(NoChain.image) = 0
<1> PICK r : r = NoImages
  OBVIOUS
<1>1. /\ r.tex = EmptyPool /\ r.view = EmptyPool /\ r.images = {} /\ r.shown = {}
      /\ DOMAIN r.views = {} /\ r.faults = {} /\ IsImages(r)
      /\ r.views \in [{} -> {}]
  BY DEF NoImages, IsImages
<1>2. /\ PoolOK(EmptyPool, TexRes) /\ PoolOK(EmptyPool, ViewRes)
      /\ Occupied(EmptyPool) = {} /\ Slots(EmptyPool) = {}
  BY EmptyPoolOK DEF EmptyPool, Slots
<1>3. IsFiniteSet({})
  BY FS_EmptySet
<1>4. ImageType(r)
  <2>1. r.views \in [DOMAIN r.views -> Images \cup r.images \cup r.shown]
    BY <1>1
  <2>2. NoSharing(EmptyPool)
    BY <1>2 DEF NoSharing
  <2>3. QED BY <1>1, <1>2, <1>3, <2>1, <2>2 DEF ImageType
<1>5. Sound(r)
  BY <1>1, <1>2, <1>4 DEF Sound, HeldImages, HeldViews
<1>6. Small(r) /\ NoSwap(r) /\ Young(r.tex, MaxGen) /\ Young(r.view, MaxGen)
  BY <1>1, <1>2 DEF Small, NoSwap, Young
<1>7. ChainType(NoChain) /\ Len(NoChain.image) = 0
  BY DEF ChainType, NoChain
<1>8. ChainOwns(r, NoChain, {})
  BY <1>1, <1>2 DEF ChainOwns
<1>9. QED BY <1>1, <1>5, <1>6, <1>7, <1>8

(* The first n images of a new VkSwapchainKHR.                             *)
ShownSome(r, s, n) ==
  /\ s \in Seq(Nat \ {0}) /\ Len(s) = n
  /\ \A i, j \in 1 .. n : s[i] = s[j] => i = j
  /\ IsFiniteSet({s[j] : j \in 1 .. n})
  /\ r.images \cap {s[j] : j \in 1 .. n} = {}
  /\ LowSet(r.images \cup {s[j] : j \in 1 .. n}, MaxImages)

(* One more is none of them and no image of the allocator's.               *)
LEMMA OneMore ==
  ASSUME NEW r, IsFiniteSet(r.images), r.images \subseteq Nat \ {0},
         NEW n \in Nat, NEW s, ShownSome(r, s, n), NEW t, t = WithOneMore(r, s, n + 1)
  PROVE  ShownSome(r, t, n + 1)
<1> PICK A : A = {s[j] : j \in 1 .. n}
  OBVIOUS
<1> PICK S : S = r.images \cup A
  OBVIOUS
<1> PICK x : x = LeastFree(S)
  OBVIOUS
<1>1. /\ s \in Seq(Nat \ {0}) /\ Len(s) = n
      /\ \A i, j \in 1 .. n : s[i] = s[j] => i = j
      /\ IsFiniteSet(A) /\ r.images \cap A = {} /\ LowSet(S, MaxImages)
  BY DEF ShownSome
<1>2. IsFiniteSet(S)
  BY <1>1, FS_Union
<1>3. A \subseteq Nat \ {0} /\ S \subseteq Nat
  BY <1>1
<1>4. x \in Nat \ {0} /\ x \notin S
  BY <1>2, LeastFreeIs, FS_CardinalityType
<1>5. t = Append(s, x)
  <2>1. n + 1 - 1 = n
    OBVIOUS
  <2>2. QED BY <2>1 DEF WithOneMore
<1>6. /\ t \in Seq(Nat \ {0}) /\ Len(t) = n + 1 /\ t[n + 1] = x
      /\ \A j \in 1 .. n : t[j] = s[j]
  BY <1>1, <1>4, <1>5, SMTT(30)
<1>7. {t[j] : j \in 1 .. n + 1} = A \cup {x}
  <2>1. ASSUME NEW j \in 1 .. n + 1 PROVE t[j] \in A \cup {x}
    <3>1. CASE j = n + 1
      BY <1>6, <3>1
    <3>2. CASE j \in 1 .. n
      BY <1>6, <3>2
    <3>3. QED BY <3>1, <3>2
  <2>2. x \in {t[j] : j \in 1 .. n + 1}
    <3>1. n + 1 \in 1 .. n + 1
      OBVIOUS
    <3>2. QED BY <1>6, <3>1
  <2>3. ASSUME NEW j \in 1 .. n PROVE s[j] \in {t[i] : i \in 1 .. n + 1}
    <3>1. j \in 1 .. n + 1 /\ t[j] = s[j]
      BY <1>6
    <3>2. QED BY <3>1
  <2>4. {t[j] : j \in 1 .. n + 1} \subseteq A \cup {x}
    BY <2>1
  <2>5. ASSUME NEW y \in A \cup {x} PROVE y \in {t[j] : j \in 1 .. n + 1}
    <3>1. CASE y = x
      BY <2>2, <3>1
    <3>2. CASE y \in A
      <4>1. PICK j \in 1 .. n : y = s[j]
        BY <3>2
      <4>2. QED BY <2>3, <4>1
    <3>3. QED BY <3>1, <3>2
  <2>6. QED BY <2>4, <2>5
<1>8. \A j \in 1 .. n : s[j] # x
  BY <1>4
<1>9. \A i, j \in 1 .. n + 1 : t[i] = t[j] => i = j
  <2> SUFFICES ASSUME NEW i \in 1 .. n + 1, NEW j \in 1 .. n + 1, t[i] = t[j] PROVE i = j
    OBVIOUS
  <2>1. CASE i \in 1 .. n /\ j \in 1 .. n
    BY <1>1, <1>6, <2>1
  <2>2. CASE i = n + 1 /\ j \in 1 .. n
    BY <1>6, <1>8, <2>2
  <2>3. CASE j = n + 1 /\ i \in 1 .. n
    BY <1>6, <1>8, <2>3
  <2>4. QED BY <2>1, <2>2, <2>3
<1>10. IsFiniteSet(A \cup {x})
  BY <1>1, FS_AddElement
<1>11. LowSet(r.images \cup (A \cup {x}), MaxImages)
  <2>1. LowSet(S \cup {x}, MaxImages)
    BY <1>1, <1>2, <1>3, LowGrown
  <2>2. r.images \cup (A \cup {x}) = S \cup {x}
    OBVIOUS
  <2>3. QED BY <2>1, <2>2
<1>12. r.images \cap (A \cup {x}) = {}
  <2>1. x \notin r.images /\ r.images \cap A = {}
    BY <1>1, <1>4
  <2>2. QED BY <2>1, Zenon
<1>13. QED BY <1>6, <1>7, <1>9, <1>10, <1>11, <1>12 DEF ShownSome

(* All of them.                                                            *)
LEMMA NewShownIs ==
  ASSUME NEW r, IsFiniteSet(r.images), r.images \subseteq Nat \ {0},
         LowSet(r.images, MaxImages), NEW N \in Nat
  PROVE  ShownSome(r, NewShown(r, N), N)
<1> PICK f : f = Shown(r, N)
  OBVIOUS
<1> DEFINE P == {n \in 0 .. N : ShownSome(r, f[n], n)}
<1>1. f[0] = <<>> /\ \A n \in 0 .. N - 1 : f[n + 1] = WithOneMore(r, f[n], n + 1)
  BY ShownIs
<1>2. 0 \in P
  <2> PICK s : s = f[0]
    OBVIOUS
  <2>1. s = <<>> /\ {s[j] : j \in 1 .. 0} = {}
    BY <1>1
  <2>2. IsFiniteSet({})
    BY FS_EmptySet
  <2>3. r.images \cup {} = r.images
    OBVIOUS
  <2>a. s \in Seq(Nat \ {0}) /\ Len(s) = 0 /\ \A i, j \in 1 .. 0 : s[i] = s[j] => i = j
    BY <2>1
  <2> PICK A : A = {s[j] : j \in 1 .. 0}
    OBVIOUS
  <2>b. IsFiniteSet(A) /\ r.images \cap A = {} /\ LowSet(r.images \cup A, MaxImages)
    <3>1. A = {}
      BY <2>1
    <3>2. QED BY <2>2, <2>3, <3>1
  <2>4. ShownSome(r, s, 0)
    BY <2>a, <2>b DEF ShownSome
  <2>5. QED BY <2>4
<1>3. ASSUME NEW n \in 0 .. N - 1, n \in P PROVE n + 1 \in P
  <2>1. ShownSome(r, f[n + 1], n + 1)
    BY <1>1, <1>3, OneMore
  <2>2. QED BY <2>1
<1>4. N \in P
  <2> HIDE DEF P
  <2>1. 0 .. N \subseteq P
    BY <1>2, <1>3, AllNumbers
  <2>2. QED BY <2>1
<1>5. QED BY <1>4 DEF NewShown

(* createSwapchain() before its loop: the images are shown, and nothing    *)
(* else has changed.                                                       *)
LEMMA FreshIs ==
  ASSUME NEW r, Sound(r), Low(r), NoSwap(r), r.shown = {},
         NEW vk, NEW N \in Nat, ShownSome(r, vk, N), NEW s, s = Fresh(r, vk)
  PROVE  /\ Sound(s.res) /\ Low(s.res) /\ NoSwap(s.res)
         /\ s.res.shown = {vk[j] : j \in 1 .. N} /\ s.chain = NoChain
<1> PICK A : A = {vk[j] : j \in 1 .. N}
  OBVIOUS
<1> PICK q : q = s.res
  OBVIOUS
<1>1. /\ vk \in Seq(Nat \ {0}) /\ Len(vk) = N
      /\ IsFiniteSet(A) /\ r.images \cap A = {} /\ LowSet(r.images \cup A, MaxImages)
  BY DEF ShownSome
<1>2. A \subseteq Nat \ {0} /\ DOMAIN vk = 1 .. N
  BY <1>1
<1>3. q = [r EXCEPT !.shown = A] /\ s.chain = NoChain
  BY <1>2 DEF Fresh
<1>4. /\ q.tex = r.tex /\ q.view = r.view /\ q.images = r.images /\ q.shown = A
      /\ q.views = r.views /\ q.faults = r.faults /\ IsImages(q)
  BY <1>3 DEF Sound, ImageType, IsImages
<1>5. ImageType(q)
  <2>1. q.views \in [DOMAIN q.views -> Images \cup q.images \cup q.shown]
    <3>1. r.views \in [DOMAIN r.views -> Images \cup r.images \cup {}]
      BY DEF Sound, ImageType
    <3>2. QED BY <1>4, <3>1
  <2>2. q.images \cap q.shown = {} /\ q.shown \subseteq Nat \ {0} /\ IsFiniteSet(q.shown)
    BY <1>1, <1>2, <1>4
  <2>3. QED BY <1>4, <2>1, <2>2 DEF Sound, ImageType
<1>6. HeldImages(q)
  <2>1. HeldImages(r) /\ NoSwap(r)
    BY DEF Sound
  <2>2. QED BY <1>4, <2>1 DEF HeldImages, NoSwap
<1>7. HeldViews(q) /\ q.faults = {} /\ NoSwap(q)
  BY <1>4 DEF Sound, HeldViews, NoSwap
<1>8. Low(q)
  BY <1>1, <1>4 DEF Low
<1>9. QED BY <1>3, <1>4, <1>5, <1>6, <1>7, <1>8 DEF Sound

(* What is kept from r to q and from q to p is kept from r to p.           *)
LEMMA KeptOn ==
  ASSUME NEW r, NEW q, NEW p
  PROVE  /\ KeptTextures(r, q, Occupied(r.tex)) /\ KeptTextures(q, p, Occupied(q.tex))
              => KeptTextures(r, p, Occupied(r.tex))
         /\ KeptViews(r, q, Occupied(r.view)) /\ KeptViews(q, p, Occupied(q.view))
              => KeptViews(r, p, Occupied(r.view))
BY DEF KeptTextures, KeptViews

(* An entry of the swapchain's vectors says what is in them at its index.  *)
LEMMA ChainSame ==
  ASSUME NEW r, NEW c, NEW d, NEW j, ChainImage(r, c, j), d.vk[j] = c.vk[j],
         d.image[j] = c.image[j], d.depth[j] = c.depth[j],
         d.imageView[j] = c.imageView[j], d.depthView[j] = c.depthView[j]
  PROVE  ChainImage(r, d, j)
BY DEF ChainImage

(* After n iterations of createSwapchain()'s loop, with the images vk.     *)
AddedSome(vk, s, n) ==
  /\ Sound(s.res) /\ Low(s.res) /\ s.res.shown = {vk[j] : j \in 1 .. Len(vk)}
  /\ ChainType(s.chain) /\ Len(s.chain.image) = n
  /\ \A j \in 1 .. n : s.chain.vk[j] = vk[j]
  /\ ChainOwns(s.res, s.chain, 1 .. n)

(* The vectors with an entry more, and whether they are still vectors of   *)
(* handles of different images.                                            *)
LongerChain(c, d, x, ih, dh, ivh, dvh) ==
  d = [vk |-> Append(c.vk, x), image |-> Append(c.image, ih), depth |-> Append(c.depth, dh),
       imageView |-> Append(c.imageView, ivh), depthView |-> Append(c.depthView, dvh)]

(* What an entry more leaves of the vectors.                               *)
LongerPost(c, d, n, x, ih, dh, ivh, dvh) ==
  /\ ChainType(d) /\ Len(d.image) = n + 1
  /\ \A j \in 1 .. n :
       /\ d.vk[j] = c.vk[j] /\ d.image[j] = c.image[j] /\ d.depth[j] = c.depth[j]
       /\ d.imageView[j] = c.imageView[j] /\ d.depthView[j] = c.depthView[j]
  /\ d.vk[n + 1] = x /\ d.image[n + 1] = ih /\ d.depth[n + 1] = dh
  /\ d.imageView[n + 1] = ivh /\ d.depthView[n + 1] = dvh

(* An image more, with its entry in each vector, keeps the vectors typed.  *)
LEMMA LongerType ==
  ASSUME NEW c, ChainType(c), NEW n \in Nat, Len(c.image) = n, NEW x \in Nat \ {0},
         \A j \in 1 .. n : c.vk[j] # x, NEW ih \in Handles, NEW dh \in Handles,
         NEW ivh \in Handles, NEW dvh \in Handles,
         NEW d, LongerChain(c, d, x, ih, dh, ivh, dvh)
  PROVE  LongerPost(c, d, n, x, ih, dh, ivh, dvh)
<1>1. /\ c.vk \in Seq(Nat \ {0}) /\ Len(c.vk) = n
      /\ c.image \in Seq(Handles) /\ c.depth \in Seq(Handles) /\ Len(c.depth) = n
      /\ c.imageView \in Seq(Handles) /\ Len(c.imageView) = n
      /\ c.depthView \in Seq(Handles) /\ Len(c.depthView) = n
      /\ \A i, j \in 1 .. n : c.vk[i] = c.vk[j] => i = j
  BY DEF ChainType
<1>2. /\ d.vk = Append(c.vk, x) /\ d.image = Append(c.image, ih)
      /\ d.depth = Append(c.depth, dh) /\ d.imageView = Append(c.imageView, ivh)
      /\ d.depthView = Append(c.depthView, dvh)
      /\ d = [vk |-> d.vk, image |-> d.image, depth |-> d.depth,
              imageView |-> d.imageView, depthView |-> d.depthView]
  BY DEF LongerChain
<1>3. ASSUME NEW R, NEW u \in Seq(R), Len(u) = n, NEW e \in R, NEW v, v = Append(u, e)
      PROVE  /\ v \in Seq(R) /\ Len(v) = n + 1 /\ v[n + 1] = e
             /\ \A j \in 1 .. n : v[j] = u[j]
  BY <1>3
<1>4. /\ d.vk \in Seq(Nat \ {0}) /\ Len(d.vk) = n + 1 /\ d.vk[n + 1] = x
      /\ \A j \in 1 .. n : d.vk[j] = c.vk[j]
  BY <1>1, <1>2, <1>3
<1>5. /\ d.image \in Seq(Handles) /\ Len(d.image) = n + 1 /\ d.image[n + 1] = ih
      /\ \A j \in 1 .. n : d.image[j] = c.image[j]
  BY <1>1, <1>2, <1>3
<1>6. /\ d.depth \in Seq(Handles) /\ Len(d.depth) = n + 1 /\ d.depth[n + 1] = dh
      /\ \A j \in 1 .. n : d.depth[j] = c.depth[j]
  BY <1>1, <1>2, <1>3
<1>7. /\ d.imageView \in Seq(Handles) /\ Len(d.imageView) = n + 1 /\ d.imageView[n + 1] = ivh
      /\ \A j \in 1 .. n : d.imageView[j] = c.imageView[j]
  BY <1>1, <1>2, <1>3
<1>8. /\ d.depthView \in Seq(Handles) /\ Len(d.depthView) = n + 1 /\ d.depthView[n + 1] = dvh
      /\ \A j \in 1 .. n : d.depthView[j] = c.depthView[j]
  BY <1>1, <1>2, <1>3
<1>9. \A i, j \in 1 .. n + 1 : d.vk[i] = d.vk[j] => i = j
  <2> SUFFICES ASSUME NEW i \in 1 .. n + 1, NEW j \in 1 .. n + 1, d.vk[i] = d.vk[j] PROVE i = j
    OBVIOUS
  <2>1. CASE i \in 1 .. n /\ j \in 1 .. n
    BY <1>1, <1>4, <2>1
  <2>2. CASE i = n + 1 /\ j \in 1 .. n
    BY <1>4, <2>2
  <2>3. CASE j = n + 1 /\ i \in 1 .. n
    BY <1>4, <2>3
  <2>4. QED BY <2>1, <2>2, <2>3
<1>10. ChainType(d)
  BY <1>2, <1>4, <1>5, <1>6, <1>7, <1>8, <1>9 DEF ChainType
<1>11. QED BY <1>4, <1>5, <1>6, <1>7, <1>8, <1>10 DEF LongerPost

(* What an iteration does to the pools: r1 has the swapchain's image in a  *)
(* slot, r2 the depth texture, r3 its view and r4 the image's.             *)
Iteration(r, x, ih, r1, r2, dh, r3, dvh, r4, ivh) ==
  /\ Grown(r.tex, r1.tex, ih, [image |-> x, swap |-> TRUE])
  /\ SameButTextures(r, r1) /\ Sound(r1) /\ Low(r1)
  /\ MadeTexturePost(r1, r2, dh)
  /\ MadeViewPost(r2, r3, dh, dvh) /\ MadeViewPost(r3, r4, ih, ivh)
  /\ Names(r4.tex, ih) /\ Get(r4.tex, ih) = [image |-> x, swap |-> TRUE]

(* One iteration of the loop in AddImages makes these five steps.          *)
LEMMA IterationIs ==
  ASSUME NEW s, Sound(s.res), Low(s.res), NEW x \in s.res.shown,
         \A k \in Occupied(s.res.tex) : s.res.tex.res[k].swap => s.res.tex.res[k].image # x,
         NEW outcome, NEW t, t = AddImage(s, x, outcome)
  PROVE  \E ih, r1, r2, dh, r3, dvh, ivh :
           /\ Iteration(s.res, x, ih, r1, r2, dh, r3, dvh, t.res, ivh)
           /\ LongerChain(s.chain, t.chain, x, ih, dh, ivh, dvh)
<1> PICK r : r = s.res
  OBVIOUS
<1>a. PICK r1 : r1 = [r EXCEPT !.tex = Allocated(@, [image |-> x, swap |-> TRUE])]
  OBVIOUS
<1>b. PICK ih : ih = NewHandle(r.tex)
  OBVIOUS
<1>c. PICK okd \in BOOLEAN : okd = (outcome # "no depth")
  OBVIOUS
<1>d. PICK okv \in BOOLEAN : okv = (outcome # "no views")
  OBVIOUS
<1>e. PICK d : d = CreateTexture(r1, okd)
  OBVIOUS
<1>f. PICK dv : dv = CreateTextureView(d.res, d.handle, okv)
  OBVIOUS
<1>g. PICK iv : iv = CreateTextureView(dv.res, ih, okv)
  OBVIOUS
<1>1. t = [res   |-> iv.res,
           chain |-> [vk        |-> Append(s.chain.vk, x),
                      image     |-> Append(s.chain.image, ih),
                      depth     |-> Append(s.chain.depth, d.handle),
                      imageView |-> Append(s.chain.imageView, iv.handle),
                      depthView |-> Append(s.chain.depthView, dv.handle)]]
  BY <1>a, <1>b, <1>c, <1>d, <1>e, <1>f, <1>g, Zenon DEF AddImage
<1>2. t.res = iv.res /\ LongerChain(s.chain, t.chain, x, ih, d.handle, iv.handle, dv.handle)
  BY <1>1 DEF LongerChain
<1>3. /\ Sound(r1) /\ SameButTextures(r, r1) /\ r1.images = r.images
      /\ Grown(r.tex, r1.tex, ih, [image |-> x, swap |-> TRUE])
  BY <1>a, <1>b, MadeSwapTexture
<1>4. Low(r1)
  BY <1>3 DEF Low, SameButTextures
<1>5. PICK y : y = [image |-> x, swap |-> TRUE]
  OBVIOUS
<1>6. Names(r1.tex, ih) /\ Get(r1.tex, ih) = y /\ isValid(ih) /\ ih \in Handles
  <2>1. PoolOK(r1.tex, TexRes) /\ Grown(r.tex, r1.tex, ih, y)
    BY <1>3, <1>5, SoundPools DEF PoolsOK
  <2>2. Names(r1.tex, ih) /\ Get(r1.tex, ih) = y /\ isValid(ih)
    BY <2>1, NameMade
  <2>3. ih \in Handles
    BY <2>1 DEF Grown
  <2>4. QED BY <2>2, <2>3
<1>7. MadeTexturePost(r1, d.res, d.handle)
  BY <1>3, <1>e, MadeTextureOrNot
<1>8. Names(d.res.tex, ih) /\ Get(d.res.tex, ih) = y
  <2>1. ih.index \in Occupied(r1.tex)
    BY <1>3 DEF Grown
  <2>2. PoolOK(r1.tex, TexRes) /\ PoolOK(d.res.tex, TexRes)
    BY <1>3, <1>7, SoundPools DEF PoolsOK, MadeTexturePost
  <2>3. /\ ih.index \in Occupied(d.res.tex) /\ d.res.tex.res[ih.index] = r1.tex.res[ih.index]
        /\ d.res.tex.gen[ih.index] = r1.tex.gen[ih.index]
    BY <1>7, <2>1 DEF MadeTexturePost, KeptTextures
  <2>4. QED BY <1>6, <2>2, <2>3, NameKept
<1>9. MadeViewPost(d.res, dv.res, d.handle, dv.handle)
  <2>1. Sound(d.res) /\ d.handle \in Handles
    BY <1>7 DEF MadeTexturePost
  <2>2. IsAlive(d.res.tex, d.handle) => Names(d.res.tex, d.handle)
    BY <1>7 DEF MadeTexturePost, IsAlive
  <2>3. QED BY <1>f, <2>1, <2>2, MadeViewOrNot
<1>10. Sound(dv.res) /\ dv.res.tex = d.res.tex
  BY <1>9 DEF MadeViewPost, SameButViews
<1>11. MadeViewPost(dv.res, iv.res, ih, iv.handle)
  <2>1. IsAlive(dv.res.tex, ih) => Names(dv.res.tex, ih)
    BY <1>8, <1>10
  <2>2. QED BY <1>g, <1>6, <1>10, <2>1, MadeViewOrNot
<1>12. iv.res.tex = d.res.tex
  BY <1>10, <1>11 DEF MadeViewPost, SameButViews
<1>13. Iteration(r, x, ih, r1, d.res, d.handle, dv.res, dv.handle, iv.res, iv.handle)
  BY <1>3, <1>4, <1>5, <1>7, <1>8, <1>9, <1>11, <1>12 DEF Iteration
<1>14. Iteration(r, x, ih, r1, d.res, d.handle, dv.res, dv.handle, t.res, iv.handle)
  BY <1>2, <1>13
<1>15. QED BY <1>2, <1>14, Zenon

(* The iteration's effect on the image itself.                             *)
IterationPost(r, q, x, ih, dh, ivh, dvh) ==
  /\ Sound(q) /\ Low(q) /\ q.shown = r.shown
  /\ ih \in Handles /\ dh \in Handles /\ ivh \in Handles /\ dvh \in Handles
  /\ KeptTextures(r, q, Occupied(r.tex)) /\ KeptViews(r, q, Occupied(r.view))
  /\ isValid(dh) => /\ Names(q.tex, dh) /\ ~ Get(q.tex, dh).swap
                    /\ dh.index \notin Occupied(r.tex)
  /\ isValid(ivh) => Names(q.view, ivh) /\ q.views[Get(q.view, ivh)] = x
  /\ isValid(dvh) => /\ isValid(dh) /\ Names(q.view, dvh)
                     /\ q.views[Get(q.view, dvh)] = Get(q.tex, dh).image
  /\ \A k \in Occupied(q.tex) : q.tex.res[k].swap =>
       k = ih.index \/ (k \in Occupied(r.tex) /\ r.tex.res[k].swap)

(* What an iteration adds is sound, and nothing else moves.                *)
LEMMA IterationImage ==
  ASSUME NEW r, Sound(r), NEW x, NEW ih, NEW r1, NEW r2, NEW dh, NEW r3, NEW dvh, NEW q, NEW ivh,
         Iteration(r, x, ih, r1, r2, dh, r3, dvh, q, ivh)
  PROVE  IterationPost(r, q, x, ih, dh, ivh, dvh)
<1> PICK y : y = [image |-> x, swap |-> TRUE]
  OBVIOUS
<1>1. /\ Grown(r.tex, r1.tex, ih, y)
      /\ SameButTextures(r, r1) /\ Sound(r1) /\ Low(r1)
      /\ MadeTexturePost(r1, r2, dh)
      /\ MadeViewPost(r2, r3, dh, dvh) /\ MadeViewPost(r3, q, ih, ivh)
      /\ Names(q.tex, ih) /\ Get(q.tex, ih) = y
  BY DEF Iteration
<1>2. /\ Sound(r2) /\ SameButTextures(r1, r2) /\ Low(r2) /\ dh \in Handles
      /\ KeptTextures(r1, r2, Occupied(r1.tex))
      /\ isValid(dh) => /\ Names(r2.tex, dh) /\ ~ Get(r2.tex, dh).swap
                        /\ dh.index \notin Occupied(r1.tex)
      /\ \A s \in Occupied(r2.tex) : r2.tex.res[s].swap =>
           s \in Occupied(r1.tex) /\ r2.tex.res[s] = r1.tex.res[s]
  BY <1>1 DEF MadeTexturePost
<1>3. /\ Sound(r3) /\ SameButViews(r2, r3) /\ Low(r3) /\ dvh \in Handles
      /\ KeptViews(r2, r3, Occupied(r2.view))
      /\ isValid(dvh) => /\ isValid(dh) /\ Names(r3.view, dvh)
                         /\ r3.views[Get(r3.view, dvh)] = Get(r3.tex, dh).image
  BY <1>1, <1>2 DEF MadeViewPost
<1>4. /\ Sound(q) /\ SameButViews(r3, q) /\ Low(q) /\ ivh \in Handles
      /\ KeptViews(r3, q, Occupied(r3.view))
      /\ isValid(ivh) => /\ isValid(ih) /\ Names(q.view, ivh)
                         /\ q.views[Get(q.view, ivh)] = Get(q.tex, ih).image
  BY <1>1, <1>3 DEF MadeViewPost
<1>5. /\ q.tex = r2.tex /\ r3.tex = r2.tex
      /\ r2.view = r.view /\ r2.views = r.views /\ q.shown = r.shown
  BY <1>1, <1>2, <1>3, <1>4 DEF SameButTextures, SameButViews
<1>6. /\ ih \in Handles /\ Occupied(r1.tex) = Occupied(r.tex) \cup {ih.index}
      /\ \A k \in Occupied(r.tex) : r1.tex.res[k] = r.tex.res[k]
      /\ KeptTextures(r, r1, Occupied(r.tex))
  BY <1>1 DEF Grown, KeptTextures
<1>7. KeptTextures(r, q, Occupied(r.tex))
  <2>1. KeptTextures(r, r2, Occupied(r.tex))
    BY <1>2, <1>6, KeptOn
  <2>2. QED BY <1>5, <2>1 DEF KeptTextures
<1>8. KeptViews(r, q, Occupied(r.view))
  <2>1. KeptViews(r2, q, Occupied(r2.view))
    BY <1>3, <1>4, KeptOn
  <2>2. QED BY <1>5, <2>1 DEF KeptViews
<1>9. isValid(dh) => /\ Names(q.tex, dh) /\ ~ Get(q.tex, dh).swap
                     /\ dh.index \notin Occupied(r.tex)
  BY <1>2, <1>5, <1>6
<1>10. isValid(ivh) => Names(q.view, ivh) /\ q.views[Get(q.view, ivh)] = x
  <2>1. Get(q.tex, ih).image = x
    BY <1>1
  <2>2. QED BY <1>4, <2>1
<1>11. ASSUME isValid(dvh)
       PROVE  /\ isValid(dh) /\ Names(q.view, dvh)
              /\ q.views[Get(q.view, dvh)] = Get(q.tex, dh).image
  <2>1. /\ isValid(dh) /\ Names(r3.view, dvh)
        /\ r3.views[Get(r3.view, dvh)] = Get(q.tex, dh).image
    BY <1>3, <1>5, <1>11
  <2>2. PoolOK(r3.view, ViewRes) /\ PoolOK(q.view, ViewRes)
    BY <1>3, <1>4, SoundPools DEF PoolsOK
  <2>3. dvh.index \in Occupied(r3.view)
    BY <1>3, <2>1, <2>2, NamesIs
  <2>4. /\ dvh.index \in Occupied(q.view) /\ q.view.res[dvh.index] = r3.view.res[dvh.index]
        /\ q.view.gen[dvh.index] = r3.view.gen[dvh.index]
        /\ q.views[q.view.res[dvh.index]] = r3.views[r3.view.res[dvh.index]]
    BY <1>4, <2>3 DEF KeptViews
  <2>5. Names(q.view, dvh)
    BY <1>3, <2>1, <2>2, <2>4, NameKept
  <2>6. QED BY <2>1, <2>4, <2>5 DEF Get
<1>12. ASSUME NEW k \in Occupied(q.tex), q.tex.res[k].swap
       PROVE  k = ih.index \/ (k \in Occupied(r.tex) /\ r.tex.res[k].swap)
  <2>1. k \in Occupied(r1.tex) /\ r1.tex.res[k].swap
    BY <1>2, <1>5, <1>12
  <2>2. QED BY <1>6, <2>1
<1>13. QED BY <1>2, <1>3, <1>4, <1>5, <1>6, <1>7, <1>8, <1>9, <1>10, <1>11, <1>12
           DEF IterationPost

(* One iteration of createSwapchain().                                     *)
LEMMA AddStep ==
  ASSUME NEW vk, vk \in Seq(Nat \ {0}), \A i, j \in 1 .. Len(vk) : vk[i] = vk[j] => i = j,
         NEW n \in 0 .. Len(vk) - 1, NEW s, AddedSome(vk, s, n), NEW outcome,
         NEW t, t = AddImage(s, vk[n + 1], outcome)
  PROVE  AddedSome(vk, t, n + 1)
<1> PICK x : x = vk[n + 1]
  OBVIOUS
<1> PICK r : r = s.res
  OBVIOUS
<1> PICK c : c = s.chain
  OBVIOUS
<1> PICK q : q = t.res
  OBVIOUS
<1> PICK d : d = t.chain
  OBVIOUS
<1>1. /\ Sound(r) /\ Low(r) /\ r.shown = {vk[j] : j \in 1 .. Len(vk)}
      /\ ChainType(c) /\ Len(c.image) = n /\ n \in Nat
      /\ \A j \in 1 .. n : c.vk[j] = vk[j]
      /\ ChainOwns(r, c, 1 .. n)
  BY DEF AddedSome
<1>2. x \in r.shown /\ x \in Nat \ {0} /\ \A j \in 1 .. n : c.vk[j] # x
  <2>1. n + 1 \in 1 .. Len(vk)
    OBVIOUS
  <2>2. x \in r.shown /\ x \in Nat \ {0}
    BY <1>1, <2>1
  <2>3. ASSUME NEW j \in 1 .. n PROVE c.vk[j] # x
    <3>1. j \in 1 .. Len(vk) /\ j # n + 1
      OBVIOUS
    <3>2. QED BY <1>1, <2>1, <3>1
  <2>4. QED BY <2>2, <2>3
<1>3. ASSUME NEW k \in Occupied(r.tex), r.tex.res[k].swap PROVE r.tex.res[k].image # x
  <2>1. PICK j \in 1 .. n : c.image[j].index = k /\ ChainImage(r, c, j)
    BY <1>1, <1>3 DEF ChainOwns
  <2>2. r.tex.res[k] = [image |-> c.vk[j], swap |-> TRUE]
    BY <2>1 DEF ChainImage, Get
  <2>3. r.tex.res[k].image = c.vk[j]
    BY <2>2
  <2>4. QED BY <1>2, <2>3
<1>4. PICK ih, r1, r2, dh, r3, dvh, ivh :
        /\ Iteration(r, x, ih, r1, r2, dh, r3, dvh, q, ivh)
        /\ LongerChain(c, d, x, ih, dh, ivh, dvh)
  BY <1>1, <1>2, <1>3, IterationIs
<1>5. /\ Sound(q) /\ Low(q) /\ q.shown = r.shown
      /\ ih \in Handles /\ dh \in Handles /\ ivh \in Handles /\ dvh \in Handles
      /\ KeptTextures(r, q, Occupied(r.tex)) /\ KeptViews(r, q, Occupied(r.view))
      /\ isValid(dh) => /\ Names(q.tex, dh) /\ ~ Get(q.tex, dh).swap
                        /\ dh.index \notin Occupied(r.tex)
      /\ isValid(ivh) => Names(q.view, ivh) /\ q.views[Get(q.view, ivh)] = x
      /\ isValid(dvh) => /\ isValid(dh) /\ Names(q.view, dvh)
                         /\ q.views[Get(q.view, dvh)] = Get(q.tex, dh).image
      /\ \A k \in Occupied(q.tex) : q.tex.res[k].swap =>
           k = ih.index \/ (k \in Occupied(r.tex) /\ r.tex.res[k].swap)
  <2>1. IterationPost(r, q, x, ih, dh, ivh, dvh)
    BY <1>1, <1>4, IterationImage
  <2>2. QED BY <2>1 DEF IterationPost
<1>6. /\ ChainType(d) /\ Len(d.image) = n + 1
      /\ \A j \in 1 .. n :
           /\ d.vk[j] = c.vk[j] /\ d.image[j] = c.image[j] /\ d.depth[j] = c.depth[j]
           /\ d.imageView[j] = c.imageView[j] /\ d.depthView[j] = c.depthView[j]
      /\ d.vk[n + 1] = x /\ d.image[n + 1] = ih /\ d.depth[n + 1] = dh
      /\ d.imageView[n + 1] = ivh /\ d.depthView[n + 1] = dvh
  <2>1. ChainType(c) /\ n \in Nat /\ Len(c.image) = n
    BY <1>1
  <2>2. x \in Nat \ {0} /\ \A j \in 1 .. n : c.vk[j] # x
    BY <1>2
  <2>3. LongerChain(c, d, x, ih, dh, ivh, dvh)
    BY <1>4
  <2>4. ih \in Handles /\ dh \in Handles /\ ivh \in Handles /\ dvh \in Handles
    BY <1>5
  <2>5. LongerPost(c, d, n, x, ih, dh, ivh, dvh)
    BY <2>1, <2>2, <2>3, <2>4, LongerType
  <2>6. QED BY <2>5 DEF LongerPost
<1>7. ASSUME NEW j \in 1 .. n
      PROVE  ChainImage(q, d, j)
  <2>1. HandlesOf(c, j) /\ ChainImage(r, c, j)
    BY <1>1 DEF ChainType, HandlesOf, ChainOwns
  <2>2. SlotsIn(c, j, Occupied(r.tex), Occupied(r.view))
    BY <1>1, <2>1, SoundPools, ChainSlots
  <2>3. PoolsOK(r) /\ PoolsOK(q)
    BY <1>1, <1>5, SoundPools
  <2>4. ChainImage(q, c, j)
    BY <1>5, <2>1, <2>2, <2>3, ChainKept
  <2>5. QED BY <1>6, <2>4, ChainSame
<1>8. ChainImage(q, d, n + 1)
  <2>1. Names(q.tex, ih) /\ Get(q.tex, ih) = [image |-> x, swap |-> TRUE]
    BY <1>4 DEF Iteration
  <2>2. QED BY <1>5, <1>6, <2>1 DEF ChainImage
<1>9. ASSUME NEW k \in Occupied(q.tex), q.tex.res[k].swap
      PROVE  \E j \in 1 .. n + 1 : d.image[j].index = k
  <2>1. CASE k = ih.index
    <3>1. n + 1 \in 1 .. n + 1 /\ d.image[n + 1].index = k
      BY <1>1, <1>6, <2>1
    <3>2. QED BY <3>1
  <2>2. CASE k \in Occupied(r.tex) /\ r.tex.res[k].swap
    <3>1. PICK j \in 1 .. n : c.image[j].index = k
      BY <1>1, <2>2 DEF ChainOwns
    <3>2. d.image[j] = c.image[j]
      BY <1>6, <3>1
    <3>3. j \in 1 .. n + 1
      BY <1>1, <3>1
    <3>4. d.image[j].index = k
      BY <3>1, <3>2
    <3>5. QED BY <3>3, <3>4
  <2>3. QED BY <1>5, <1>9, <2>1, <2>2
<1>10. ASSUME NEW i \in 1 .. n + 1, NEW j \in 1 .. n + 1,
              isValid(d.depth[i]), d.depth[i].index = d.depth[j].index
       PROVE  i = j
  <2>1. ASSUME NEW k \in 1 .. n, isValid(c.depth[k]) PROVE c.depth[k].index \in Occupied(r.tex)
    <3>1. HandlesOf(c, k) /\ ChainImage(r, c, k)
      BY <1>1 DEF ChainType, HandlesOf, ChainOwns
    <3>2. QED BY <1>1, <2>1, <3>1, SoundPools, ChainSlots DEF SlotsIn
  <2>2. \A h \in Handles : isValid(h) => h.index # 0
    BY DEF Handles, isValid, InvalidHandle
  <2>3. CASE i \in 1 .. n /\ j \in 1 .. n
    <3>1. isValid(c.depth[i]) /\ c.depth[i].index = c.depth[j].index
      BY <1>6, <1>10, <2>3
    <3>2. QED BY <1>1, <2>3, <3>1 DEF ChainOwns
  <2>4. CASE i \in 1 .. n /\ j = n + 1
    <3>1. isValid(c.depth[i]) /\ c.depth[i].index = dh.index
      BY <1>6, <1>10, <2>4
    <3>2. dh.index \in Occupied(r.tex)
      BY <2>1, <2>4, <3>1
    <3>3. isValid(dh)
      BY <3>2, NoSlotZero
    <3>4. QED BY <1>5, <3>2, <3>3
  <2>5. CASE i = n + 1 /\ j \in 1 .. n
    <3>1. isValid(dh) /\ c.depth[j].index = dh.index
      BY <1>6, <1>10, <2>5
    <3>2. dh.index # 0
      BY <1>5, <2>2, <3>1
    <3>3. isValid(c.depth[j])
      BY <3>1, <3>2, NoSlotZero
    <3>4. QED BY <1>5, <2>1, <2>5, <3>1, <3>3
  <2>6. QED BY <1>1, <2>3, <2>4, <2>5
<1>11. ChainOwns(q, d, 1 .. n + 1)
  <2>1. \A j \in 1 .. n + 1 : j \in 1 .. n \/ j = n + 1
    BY <1>1
  <2>2. \A j \in 1 .. n + 1 : ChainImage(q, d, j)
    BY <1>7, <1>8, <2>1
  <2>3. QED BY <1>9, <1>10, <2>2 DEF ChainOwns
<1>12. \A j \in 1 .. n + 1 : d.vk[j] = vk[j]
  <2>1. \A j \in 1 .. n + 1 : j \in 1 .. n \/ j = n + 1
    BY <1>1
  <2>2. QED BY <1>1, <1>6, <2>1
<1>13. QED BY <1>1, <1>5, <1>6, <1>11, <1>12 DEF AddedSome

(* What createSwapchain() leaves.                                          *)
CreatedPost(t) ==
  /\ Sound(t.res) /\ Low(t.res) /\ ChainType(t.chain)
  /\ ChainOwns(t.res, t.chain, 1 .. Len(t.chain.image))
  /\ t.res.shown = {t.chain.vk[j] : j \in 1 .. Len(t.chain.image)}

(* createSwapchain(): what is made is sound, and the vectors and the pools *)
(* agree.                                                                  *)
LEMMA CreatedSwapchain ==
  ASSUME NEW r, Sound(r), Low(r), NoSwap(r), r.shown = {},
         NEW outcomes, Len(outcomes) \in Nat, NEW t, t = createSwapchain(r, outcomes)
  PROVE  CreatedPost(t)
<1> PICK N \in Nat : N = Len(outcomes)
  OBVIOUS
<1> PICK vk : vk = NewShown(r, N)
  OBVIOUS
<1> PICK f : f = AddImages(r, vk, outcomes)
  OBVIOUS
<1>1. ShownSome(r, vk, N)
  <2>1. IsFiniteSet(r.images) /\ r.images \subseteq Nat \ {0}
    BY DEF Sound, ImageType
  <2>2. LowSet(r.images, MaxImages)
    <3>1. r.images \cup r.shown = r.images
      OBVIOUS
    <3>2. QED BY <3>1 DEF Low
  <2>3. QED BY <2>1, <2>2, NewShownIs
<1>2. /\ vk \in Seq(Nat \ {0}) /\ Len(vk) = N
      /\ \A i, j \in 1 .. Len(vk) : vk[i] = vk[j] => i = j
  BY <1>1 DEF ShownSome
<1> DEFINE P == {n \in 0 .. N : AddedSome(vk, f[n], n)}
<1>3. /\ f[0] = Fresh(r, vk)
      /\ \A n \in 0 .. N - 1 : f[n + 1] = AddImage(f[n], vk[n + 1], outcomes[n + 1])
  BY AddImagesIs
<1>4. 0 \in P
  <2> PICK s : s = f[0]
    OBVIOUS
  <2>1. /\ Sound(s.res) /\ Low(s.res) /\ NoSwap(s.res)
        /\ s.res.shown = {vk[j] : j \in 1 .. N} /\ s.chain = NoChain
    BY <1>1, <1>3, FreshIs
  <2>2. ChainType(NoChain) /\ Len(NoChain.image) = 0
    BY NoImagesSound
  <2>3. ChainOwns(s.res, NoChain, 1 .. 0)
    BY <2>1 DEF ChainOwns, NoSwap
  <2>4. AddedSome(vk, s, 0)
    BY <1>2, <2>1, <2>2, <2>3 DEF AddedSome
  <2>5. QED BY <2>4
<1>5. ASSUME NEW n \in 0 .. N - 1, n \in P PROVE n + 1 \in P
  <2>1. PICK s : s = f[n]
    OBVIOUS
  <2>2. PICK t1 : t1 = f[n + 1]
    OBVIOUS
  <2>3. AddedSome(vk, s, n) /\ t1 = AddImage(s, vk[n + 1], outcomes[n + 1])
    BY <1>3, <1>5, <2>1, <2>2
  <2>4. n \in 0 .. Len(vk) - 1
    BY <1>2
  <2>5. AddedSome(vk, t1, n + 1)
    BY <1>2, <2>3, <2>4, AddStep
  <2>6. n + 1 \in 0 .. N
    OBVIOUS
  <2>7. QED BY <2>2, <2>5, <2>6
<1>6. N \in P
  <2> HIDE DEF P
  <2>1. 0 .. N \subseteq P
    BY <1>4, <1>5, AllNumbers
  <2>2. QED BY <2>1
<1>7. t = f[N]
  BY DEF createSwapchain
<1>8. AddedSome(vk, t, N)
  BY <1>6, <1>7
<1>9. t.res.shown = {t.chain.vk[j] : j \in 1 .. N}
  BY <1>2, <1>8 DEF AddedSome
<1>10. QED BY <1>8, <1>9 DEF AddedSome, CreatedPost

-----------------------------------------------------------------------------
(* The calls of the client, on what the pools and the swapchain hold.      *)

(* Names within the bounds are low, and low ones are within the bounds     *)
(* when there is room.                                                     *)
LEMMA SmallLow ==
  ASSUME NEW r, Small(r)
  PROVE  Low(r)
BY TexturesAssumption DEF Small, Low, LowSet, Images

(* The other direction: low names with room left are within the bounds.    *)
LEMMA LowSmall ==
  ASSUME NEW q, Sound(q), Low(q), Room(q)
  PROVE  Small(q) /\ Young(q.tex, MaxGen) /\ Young(q.view, MaxGen)
<1>1. /\ IsFiniteSet(q.images) /\ IsFiniteSet(q.shown) /\ IsFiniteSet(DOMAIN q.views)
      /\ q.images \subseteq Nat \ {0} /\ q.shown \subseteq Nat \ {0}
      /\ DOMAIN q.views \subseteq Nat \ {0}
  BY DEF Sound, ImageType
<1>2. ASSUME NEW S, IsFiniteSet(S), S \subseteq Nat \ {0}, NEW max \in Nat,
             LowSet(S, max), Cardinality(S) <= max
      PROVE  S \subseteq 1 .. max
  <2>1. Cardinality(S) \in Nat
    BY <1>2, FS_CardinalityType
  <2>2. QED BY <1>2, <2>1 DEF LowSet
<1>3. IsFiniteSet(q.images \cup q.shown)
  BY <1>1, FS_Union
<1>4. MaxImages \in Nat /\ MaxViews \in Nat
  BY TexturesAssumption
<1>5. /\ Cardinality(q.images \cup q.shown) <= MaxImages
      /\ Cardinality(DOMAIN q.views) <= MaxViews
  BY DEF Room
<1>6. q.images \cup q.shown \subseteq 1 .. MaxImages
  <2>1. q.images \cup q.shown \subseteq Nat \ {0}
    BY <1>1
  <2>2. LowSet(q.images \cup q.shown, MaxImages)
    BY DEF Low
  <2>3. QED BY <1>2, <1>3, <1>4, <1>5, <2>1, <2>2
<1>7. DOMAIN q.views \subseteq 1 .. MaxViews
  <2>1. LowSet(DOMAIN q.views, MaxViews)
    BY DEF Low
  <2>2. QED BY <1>1, <1>2, <1>4, <1>5, <2>1
<1>8. QED BY <1>6, <1>7 DEF Small, Images, Young, Room

(* The swapchain owns what it did when its slots were left alone.          *)
LEMMA LinkKept ==
  ASSUME NEW r, NEW q, NEW c, PoolsOK(r), PoolsOK(q), Linked(r, c), q.shown = r.shown,
         NEW T, NEW V, KeptTextures(r, q, T), KeptViews(r, q, V),
         \A j \in 1 .. Len(c.image) : SlotsIn(c, j, T, V),
         \A s \in Occupied(q.tex) : q.tex.res[s].swap =>
            s \in Occupied(r.tex) /\ q.tex.res[s] = r.tex.res[s]
  PROVE  Linked(q, c)
<1> PICK J : J = 1 .. Len(c.image)
  OBVIOUS
<1>1. ChainType(c) /\ ChainOwns(r, c, J) /\ r.shown = {c.vk[j] : j \in J}
  BY DEF Linked
<1>2. ASSUME NEW j \in J PROVE ChainImage(q, c, j)
  <2>1. HandlesOf(c, j) /\ ChainImage(r, c, j) /\ SlotsIn(c, j, T, V)
    BY <1>1 DEF ChainType, HandlesOf, ChainOwns
  <2>2. QED BY <2>1, ChainKept
<1>3. ASSUME NEW s \in Occupied(q.tex), q.tex.res[s].swap
      PROVE  \E j \in J : c.image[j].index = s
  <2>1. s \in Occupied(r.tex) /\ r.tex.res[s].swap
    BY <1>3
  <2>2. QED BY <1>1, <2>1 DEF ChainOwns
<1>4. ChainOwns(q, c, J)
  BY <1>1, <1>2, <1>3 DEF ChainOwns
<1>5. QED BY <1>1, <1>4 DEF Linked

(* The slots of the swapchain, all of them occupied.                       *)
LEMMA LinkedSlots ==
  ASSUME NEW r, NEW c, PoolsOK(r), Linked(r, c), NEW j \in 1 .. Len(c.image)
  PROVE  /\ HandlesOf(c, j) /\ ChainImage(r, c, j)
         /\ SlotsIn(c, j, Occupied(r.tex), Occupied(r.view))
<1>1. HandlesOf(c, j) /\ ChainImage(r, c, j)
  BY DEF Linked, ChainType, HandlesOf, ChainOwns
<1>2. QED BY <1>1, ChainSlots

(* VKCreateTexture().                                                      *)
LEMMA TextureCreated ==
  ASSUME NEW r, NEW c, ImageState(r, c), NEW ok \in BOOLEAN, NEW d,
         d = CreateTexture(r, ok), Room(d.res)
  PROVE  /\ ImageState(d.res, c) /\ d.handle \in Handles
         /\ ok => /\ d.res.images = r.images \cup {NextImage(r)}
                  /\ NextImage(r) \notin r.images
<1> PICK q : q = d.res
  OBVIOUS
<1>1. Sound(r) /\ Low(r) /\ Linked(r, c)
  BY SmallLow DEF ImageState
<1>2. MadeTexturePost(r, q, d.handle)
  BY <1>1, MadeTextureOrNot
<1>3. /\ Sound(q) /\ Low(q) /\ d.handle \in Handles /\ q.shown = r.shown
      /\ q.view = r.view /\ q.views = r.views
      /\ KeptTextures(r, q, Occupied(r.tex))
      /\ \A s \in Occupied(q.tex) : q.tex.res[s].swap =>
           s \in Occupied(r.tex) /\ q.tex.res[s] = r.tex.res[s]
  BY <1>1, <1>2 DEF MadeTexturePost, SameButTextures
<1>4. Linked(q, c)
  <2>1. PoolsOK(r) /\ PoolsOK(q)
    BY <1>1, <1>3, SoundPools
  <2>2. KeptViews(r, q, Occupied(r.view))
    BY <1>3, KeptAll
  <2>3. \A j \in 1 .. Len(c.image) : SlotsIn(c, j, Occupied(r.tex), Occupied(r.view))
    BY <1>1, <2>1, LinkedSlots
  <2>4. QED BY <1>1, <1>3, <2>1, <2>2, <2>3, LinkKept
<1>5. Small(q) /\ Young(q.tex, MaxGen) /\ Young(q.view, MaxGen)
  BY <1>3, LowSmall
<1>6. ASSUME ok
      PROVE  q.images = r.images \cup {NextImage(r)} /\ NextImage(r) \notin r.images
  <2> PICK w : w = WithTexture(r)
    OBVIOUS
  <2>1. d = [res |-> w, handle |-> NewHandle(r.tex)]
    BY <1>6, CreateTextureIs
  <2>2. q = w
    BY <2>1
  <2>3. PICK n : n = NextImage(r)
    OBVIOUS
  <2>4. PICK h : h = NewHandle(r.tex)
    OBVIOUS
  <2>5. w.images = r.images \cup {n} /\ n \notin r.images
    BY <1>1, <2>3, <2>4, MadeTexture
  <2>6. QED BY <2>2, <2>3, <2>5
<1>7. QED BY <1>3, <1>4, <1>5, <1>6 DEF ImageState

(* VKCreateTextureView() of a texture that names one or is not alive.      *)
LEMMA ViewCreated ==
  ASSUME NEW r, NEW c, ImageState(r, c), NEW h \in Handles,
         ~ IsFree(r.tex, h), NEW ok \in BOOLEAN, NEW d,
         d = CreateTextureView(r, h, ok), Room(d.res)
  PROVE  ImageState(d.res, c) /\ d.handle \in Handles
<1> PICK q : q = d.res
  OBVIOUS
<1>1. Sound(r) /\ Low(r) /\ Linked(r, c)
  BY SmallLow DEF ImageState
<1>2. PoolsOK(r)
  BY <1>1, SoundPools
<1>3. MadeViewPost(r, q, h, d.handle)
  <2>1. IsAlive(r.tex, h) => Names(r.tex, h)
    BY <1>2, DeadIsFree DEF PoolsOK
  <2>2. QED BY <1>1, <2>1, MadeViewOrNot
<1>4. /\ Sound(q) /\ Low(q) /\ d.handle \in Handles /\ q.shown = r.shown
      /\ q.tex = r.tex /\ KeptViews(r, q, Occupied(r.view))
  BY <1>1, <1>3 DEF MadeViewPost, SameButViews
<1>5. Linked(q, c)
  <2>1. PoolsOK(q)
    BY <1>4, SoundPools
  <2>2. KeptTextures(r, q, Occupied(r.tex))
    BY <1>4, KeptAll
  <2>3. \A j \in 1 .. Len(c.image) : SlotsIn(c, j, Occupied(r.tex), Occupied(r.view))
    BY <1>1, <1>2, LinkedSlots
  <2>4. \A s \in Occupied(q.tex) : s \in Occupied(r.tex) /\ q.tex.res[s] = r.tex.res[s]
    BY <1>4
  <2>5. QED BY <1>1, <1>2, <1>4, <2>1, <2>2, <2>3, <2>4, LinkKept
<1>6. Small(q) /\ Young(q.tex, MaxGen) /\ Young(q.view, MaxGen)
  BY <1>4, LowSmall
<1>7. QED BY <1>4, <1>5, <1>6 DEF ImageState

(* A handle that names what another valid one does is that handle.         *)
LEMMA OneName ==
  ASSUME NEW R, NEW p, PoolOK(p, R), NEW h \in Handles, NEW k \in Handles,
         Names(p, h), Names(p, k), h.index = k.index
  PROVE  h = k
<1>1. h.gen = k.gen
  BY NamesIs
<1>2. QED BY <1>1, SameHandle

(* VKDestroyTexture() of a texture that is not the swapchain's.            *)
LEMMA TextureDestroyed ==
  ASSUME NEW r, NEW c, ImageState(r, c), NEW h \in Handles,
         IsAlive(r.tex, h), ~ IsFree(r.tex, h),
         \A i \in 1 .. Len(c.image) : h # c.image[i] /\ h # c.depth[i],
         NEW q, q = DestroyTexture(r, h)
  PROVE  /\ ImageState(q, c) /\ q.images = r.images \ {Get(r.tex, h).image}
<1>1. Sound(r) /\ Small(r) /\ Linked(r, c)
  BY DEF ImageState
<1>2. PoolsOK(r) /\ PoolOK(r.tex, TexRes)
  BY <1>1, SoundPools DEF PoolsOK
<1>3. Names(r.tex, h) /\ h.index \in Occupied(r.tex)
  BY <1>2, DeadIsFree, NamesIs
<1>4. ASSUME NEW j \in 1 .. Len(c.image)
      PROVE  SlotsIn(c, j, Occupied(r.tex) \ {h.index}, Occupied(r.view))
  <2>1. /\ HandlesOf(c, j) /\ ChainImage(r, c, j)
        /\ SlotsIn(c, j, Occupied(r.tex), Occupied(r.view))
    BY <1>1, <1>2, LinkedSlots
  <2>2. /\ c.image[j] \in Handles /\ c.depth[j] \in Handles /\ Names(r.tex, c.image[j])
        /\ isValid(c.depth[j]) => Names(r.tex, c.depth[j])
    BY <2>1 DEF HandlesOf, ChainImage
  <2>3. c.image[j].index # h.index
    BY <1>2, <1>3, <2>2, OneName
  <2>4. isValid(c.depth[j]) => c.depth[j].index # h.index
    BY <1>2, <1>3, <2>2, OneName
  <2>5. QED BY <2>1, <2>3, <2>4 DEF SlotsIn
<1>5. ~ Get(r.tex, h).swap
  <2>1. SUFFICES ASSUME r.tex.res[h.index].swap PROVE FALSE
    BY DEF Get
  <2>2. PICK j \in 1 .. Len(c.image) : c.image[j].index = h.index
    BY <1>1, <1>3, <2>1 DEF Linked, ChainOwns
  <2>3. QED BY <1>4, <2>2 DEF SlotsIn
<1>6. LostTexturePost(r, q, h)
  BY <1>1, <1>3, <1>5, LostTextureOrNot
<1>7. /\ Sound(q) /\ Small(q) /\ q.view = r.view /\ q.views = r.views /\ q.shown = r.shown
      /\ KeptTextures(r, q, Occupied(r.tex) \ {h.index})
      /\ \A s \in Occupied(q.tex) : s \in Occupied(r.tex) /\ q.tex.res[s] = r.tex.res[s]
      /\ Slots(q.tex) = Slots(r.tex) /\ q.tex.gen = r.tex.gen
  BY <1>6 DEF LostTexturePost, SameButTextures
<1>8. Linked(q, c)
  <2>1. PoolsOK(q)
    BY <1>7, SoundPools
  <2>2. KeptViews(r, q, Occupied(r.view))
    BY <1>7, KeptAll
  <2>3. QED BY <1>1, <1>2, <1>4, <1>7, <2>1, <2>2, LinkKept
<1>9. Young(q.tex, MaxGen) /\ Young(q.view, MaxGen)
  BY <1>7 DEF ImageState, Young
<1>10. q.images = r.images \ {Get(r.tex, h).image}
  BY <1>1, <1>3, <1>5, LostTexture
<1>11. QED BY <1>7, <1>8, <1>9, <1>10 DEF ImageState

(* VKDestroyTextureView() of a view that is not the swapchain's.           *)
LEMMA ViewDestroyed ==
  ASSUME NEW r, NEW c, ImageState(r, c), NEW h \in Handles,
         IsAlive(r.view, h), ~ IsFree(r.view, h),
         \A i \in 1 .. Len(c.image) : h # c.imageView[i] /\ h # c.depthView[i],
         NEW q, q = DestroyTextureView(r, h)
  PROVE  ImageState(q, c)
<1>1. Sound(r) /\ Small(r) /\ Linked(r, c)
  BY DEF ImageState
<1>2. PoolsOK(r) /\ PoolOK(r.view, ViewRes)
  BY <1>1, SoundPools DEF PoolsOK
<1>3. Names(r.view, h) /\ h.index \in Occupied(r.view)
  BY <1>2, DeadIsFree, NamesIs
<1>4. ASSUME NEW j \in 1 .. Len(c.image)
      PROVE  SlotsIn(c, j, Occupied(r.tex), Occupied(r.view) \ {h.index})
  <2>1. /\ HandlesOf(c, j) /\ ChainImage(r, c, j)
        /\ SlotsIn(c, j, Occupied(r.tex), Occupied(r.view))
    BY <1>1, <1>2, LinkedSlots
  <2>2. /\ c.imageView[j] \in Handles /\ c.depthView[j] \in Handles
        /\ isValid(c.imageView[j]) => Names(r.view, c.imageView[j])
        /\ isValid(c.depthView[j]) => Names(r.view, c.depthView[j])
    BY <2>1 DEF HandlesOf, ChainImage
  <2>3. isValid(c.imageView[j]) => c.imageView[j].index # h.index
    BY <1>2, <1>3, <2>2, OneName
  <2>4. isValid(c.depthView[j]) => c.depthView[j].index # h.index
    BY <1>2, <1>3, <2>2, OneName
  <2>5. QED BY <2>1, <2>3, <2>4 DEF SlotsIn
<1>5. LostViewPost(r, q, h)
  BY <1>1, <1>3, LostViewOrNot
<1>6. /\ Sound(q) /\ Small(q) /\ q.tex = r.tex /\ q.shown = r.shown
      /\ KeptViews(r, q, Occupied(r.view) \ {h.index})
      /\ Slots(q.view) = Slots(r.view) /\ q.view.gen = r.view.gen
  BY <1>1, <1>5 DEF LostViewPost, SameButViews
<1>7. Linked(q, c)
  <2>1. PoolsOK(q)
    BY <1>6, SoundPools
  <2>2. KeptTextures(r, q, Occupied(r.tex))
    BY <1>6, KeptAll
  <2>3. \A s \in Occupied(q.tex) : s \in Occupied(r.tex) /\ q.tex.res[s] = r.tex.res[s]
    BY <1>6
  <2>4. QED BY <1>1, <1>2, <1>4, <1>6, <2>1, <2>2, <2>3, LinkKept
<1>8. Young(q.tex, MaxGen) /\ Young(q.view, MaxGen)
  BY <1>6 DEF ImageState, Young
<1>9. QED BY <1>6, <1>7, <1>8 DEF ImageState

(* The swapchain is created when there is none.                            *)
LEMMA SwapchainCreated ==
  ASSUME NEW r, ImageState(r, NoChain), NEW outcomes, Len(outcomes) \in Nat,
         NEW t, t = createSwapchain(r, outcomes), Room(t.res)
  PROVE  ImageState(t.res, t.chain)
<1>1. Sound(r) /\ Low(r) /\ Linked(r, NoChain)
  BY SmallLow DEF ImageState
<1>2. Len(NoChain.image) = 0
  BY NoImagesSound
<1>3. NoSwap(r) /\ r.shown = {}
  BY <1>1, <1>2 DEF Linked, ChainOwns, NoSwap
<1>4. /\ Sound(t.res) /\ Low(t.res) /\ ChainType(t.chain)
      /\ ChainOwns(t.res, t.chain, 1 .. Len(t.chain.image))
      /\ t.res.shown = {t.chain.vk[j] : j \in 1 .. Len(t.chain.image)}
  <2>1. CreatedPost(t)
    BY <1>1, <1>3, CreatedSwapchain
  <2>2. QED BY <2>1 DEF CreatedPost
<1>5. Small(t.res) /\ Young(t.res.tex, MaxGen) /\ Young(t.res.view, MaxGen)
  BY <1>4, LowSmall
<1>6. QED BY <1>4, <1>5 DEF ImageState, Linked

(* It is destroyed.                                                        *)
LEMMA SwapchainDestroyed ==
  ASSUME NEW r, NEW c, ImageState(r, c), NEW d, d = destroySwapchain(r, c)
  PROVE  /\ ImageState(d.res, NoChain) /\ d.chain = NoChain
         /\ NoSwap(d.res) /\ d.res.shown = {}
<1> PICK q : q = d.res
  OBVIOUS
<1>1. Sound(r) /\ Small(r) /\ ChainType(c) /\ ChainOwns(r, c, 1 .. Len(c.image))
  BY DEF ImageState, Linked
<1>2. /\ Sound(q) /\ Small(q) /\ NoSwap(q) /\ q.shown = {} /\ SameSlots(r, q)
      /\ d.chain = NoChain
  BY <1>1, DestroyedSwapchain
<1>3. ChainType(NoChain) /\ Len(NoChain.image) = 0
  BY NoImagesSound
<1>4. Linked(q, NoChain)
  BY <1>2, <1>3 DEF Linked, ChainOwns, NoSwap
<1>5. Young(q.tex, MaxGen) /\ Young(q.view, MaxGen)
  BY <1>2 DEF ImageState, Young, SameSlots
<1>6. QED BY <1>2, <1>4, <1>5 DEF ImageState

(* Shutdown() leaves nothing.                                              *)
LEMMA AllFreed ==
  ASSUME NEW r, NEW c, ImageState(r, c)
  PROVE  FreeAll(r, c) = NoImages /\ ImageState(NoImages, NoChain)
<1> PICK d : d = destroySwapchain(r, c)
  OBVIOUS
<1>1. ImageState(d.res, NoChain) /\ NoSwap(d.res) /\ d.res.shown = {}
  BY SwapchainDestroyed
<1>2. FreePools(d.res) = NoImages
  BY <1>1, FreedPools DEF ImageState
<1>3. ImageState(NoImages, NoChain)
  BY NoImagesSound DEF ImageState, Linked
<1>4. QED BY <1>2, <1>3 DEF FreeAll

-----------------------------------------------------------------------------
(* The invariant of the images, of every call.                             *)

(* A step that leaves the images, the swapchain and the variables alone.   *)
LEMMA ImagesUntouched ==
  ASSUME ImageInv, UNCHANGED imageVars
  PROVE  ImageInv'
BY DEF ImageInv, imageVars

(* VKCreateTexture().                                                      *)
LEMMA CreateTextureStep ==
  ASSUME ImageInv, NEW v \in TexVars, NEW ok \in BOOLEAN, VKCreateTexture(v, ok)
  PROVE  ImageInv'
<1> PICK d : d = CreateTexture(res, ok)
  OBVIOUS
<1>1. /\ res' = d.res /\ Room(d.res) /\ tex' = [tex EXCEPT ![v] = d.handle]
      /\ chain' = chain /\ view' = view
  BY Zenon DEF VKCreateTexture
<1>2. ImageState(d.res, chain) /\ d.handle \in Handles
  BY <1>1, TextureCreated DEF ImageInv
<1>3. QED BY <1>1, <1>2 DEF ImageInv

(* VKCreateTexture() with initial data.                                    *)
LEMMA CreateTextureDataStep ==
  ASSUME ImageInv, NEW v \in TexVars, NEW size, VKCreateTextureData(v, size)
  PROVE  ImageInv'
<1> PICK ok \in BOOLEAN : ok = TRUE
  OBVIOUS
<1> PICK d : d = CreateTexture(res, ok)
  OBVIOUS
<1>1. /\ res' = d.res /\ Room(d.res) /\ tex' = [tex EXCEPT ![v] = d.handle]
      /\ chain' = chain /\ view' = view
  BY Zenon DEF VKCreateTextureData
<1>2. ImageState(d.res, chain) /\ d.handle \in Handles
  BY <1>1, TextureCreated DEF ImageInv
<1>3. QED BY <1>1, <1>2 DEF ImageInv

(* The vectors are of one length.                                          *)
LEMMA ChainDomain ==
  ASSUME ImageInv
  PROVE  DOMAIN chain.image = 1 .. Len(chain.image)
BY DEF ImageInv, ImageState, Linked, ChainType

(* VKDestroyTexture().                                                     *)
LEMMA DestroyTextureStep ==
  ASSUME ImageInv, NEW v \in TexVars, VKDestroyTexture(v), ~ misused'
  PROVE  ImageInv'
<1>1. /\ IsAlive(res.tex, tex[v]) /\ res' = DestroyTexture(res, tex[v])
      /\ tex' = [tex EXCEPT ![v] = InvalidHandle]
      /\ chain' = chain /\ view' = view
      /\ ~ IsFree(res.tex, tex[v]) /\ ~ OfChain(tex[v])
  BY Zenon DEF VKDestroyTexture
<1>2. \A i \in 1 .. Len(chain.image) : tex[v] # chain.image[i] /\ tex[v] # chain.depth[i]
  BY <1>1, ChainDomain DEF OfChain
<1>3. tex[v] \in Handles
  BY DEF ImageInv
<1>4. ImageState(res', chain)
  BY <1>1, <1>2, <1>3, TextureDestroyed DEF ImageInv
<1>5. InvalidHandle \in Handles
  BY InvalidNamesNothing
<1>6. QED BY <1>1, <1>4, <1>5 DEF ImageInv

(* A copy of a handle.                                                     *)
LEMMA CopyTextureStep ==
  ASSUME ImageInv, NEW v \in TexVars, NEW w \in TexVars, CopyTexture(v, w)
  PROVE  ImageInv'
BY DEF ImageInv, CopyTexture

(* A handle of the swapchain's.                                            *)
LEMMA GetImageStep ==
  ASSUME ImageInv, NEW v \in TexVars, NEW i \in DOMAIN chain.image, GetImage(v, i)
  PROVE  ImageInv'
<1>1. chain.image[i] \in Handles
  BY DEF ImageInv, ImageState, Linked, ChainType
<1>2. QED BY <1>1 DEF ImageInv, GetImage

(* And a handle of one of its views.                                       *)
LEMMA GetImageViewStep ==
  ASSUME ImageInv, NEW w \in ViewVars, NEW i \in DOMAIN chain.image, GetImageView(w, i)
  PROVE  ImageInv'
<1>1. chain.imageView[i] \in Handles
  <2>1. i \in 1 .. Len(chain.image)
    BY ChainDomain
  <2>2. QED BY <2>1 DEF ImageInv, ImageState, Linked, ChainType
<1>2. QED BY <1>1 DEF ImageInv, GetImageView

(* VKCreateTextureView().                                                  *)
LEMMA CreateViewStep ==
  ASSUME ImageInv, NEW v \in TexVars, NEW w \in ViewVars, NEW ok \in BOOLEAN,
         VKCreateTextureView(v, w, ok), ~ misused'
  PROVE  ImageInv'
<1> PICK d : d = CreateTextureView(res, tex[v], ok)
  OBVIOUS
<1>1. /\ res' = d.res /\ Room(d.res) /\ view' = [view EXCEPT ![w] = d.handle]
      /\ chain' = chain /\ tex' = tex /\ ~ IsFree(res.tex, tex[v])
  BY Zenon DEF VKCreateTextureView
<1>2. tex[v] \in Handles
  BY DEF ImageInv
<1>3. ImageState(d.res, chain) /\ d.handle \in Handles
  BY <1>1, <1>2, ViewCreated DEF ImageInv
<1>4. QED BY <1>1, <1>3 DEF ImageInv

(* VKDestroyTextureView().                                                 *)
LEMMA DestroyViewStep ==
  ASSUME ImageInv, NEW w \in ViewVars, VKDestroyTextureView(w), ~ misused'
  PROVE  ImageInv'
<1>1. /\ IsAlive(res.view, view[w]) /\ res' = DestroyTextureView(res, view[w])
      /\ view' = [view EXCEPT ![w] = InvalidHandle]
      /\ chain' = chain /\ tex' = tex /\ ~ IsFree(res.view, view[w])
      /\ ~ \E i \in DOMAIN chain.image :
             view[w] \in {chain.imageView[i], chain.depthView[i]}
  BY Zenon DEF VKDestroyTextureView
<1>2. \A i \in 1 .. Len(chain.image) :
        view[w] # chain.imageView[i] /\ view[w] # chain.depthView[i]
  BY <1>1, ChainDomain
<1>3. view[w] \in Handles
  BY DEF ImageInv
<1>4. ImageState(res', chain)
  BY <1>1, <1>2, <1>3, ViewDestroyed DEF ImageInv
<1>5. InvalidHandle \in Handles
  BY InvalidNamesNothing
<1>6. QED BY <1>1, <1>4, <1>5 DEF ImageInv

(* VKCreateSwapchain().                                                    *)
LEMMA CreateSwapchainStep ==
  ASSUME ImageInv, NEW outcomes \in OutcomeSeqs, VKCreateSwapchain(outcomes)
  PROVE  ImageInv'
<1> PICK t : t = createSwapchain(res, outcomes)
  OBVIOUS
<1>1. /\ chain = NoChain /\ res' = t.res /\ Room(t.res) /\ chain' = t.chain
      /\ tex' = tex /\ view' = view
  BY Zenon DEF VKCreateSwapchain, Replace
<1>2. Len(outcomes) \in Nat
  BY TexturesAssumption
<1>3. ImageState(res, NoChain)
  BY <1>1 DEF ImageInv
<1>4. ImageState(t.res, t.chain)
  BY <1>1, <1>2, <1>3, SwapchainCreated
<1>5. QED BY <1>1, <1>4 DEF ImageInv

(* A resize destroys the swapchain and creates it.                         *)
LEMMA ResizeStep ==
  ASSUME ImageInv, NEW outcomes \in OutcomeSeqs, Resize(outcomes)
  PROVE  ImageInv'
<1> PICK d : d = destroySwapchain(res, chain)
  OBVIOUS
<1> PICK t : t = createSwapchain(d.res, outcomes)
  OBVIOUS
<1>1. /\ res' = t.res /\ Room(t.res) /\ chain' = t.chain
      /\ tex' = tex /\ view' = view
  BY Zenon DEF Resize, Replace
<1>2. Len(outcomes) \in Nat
  BY TexturesAssumption
<1>3. ImageState(d.res, NoChain)
  BY SwapchainDestroyed DEF ImageInv
<1>4. ImageState(t.res, t.chain)
  BY <1>1, <1>2, <1>3, SwapchainCreated
<1>5. QED BY <1>1, <1>4 DEF ImageInv

(* VKDestroySwapchain().                                                   *)
LEMMA DestroySwapchainStep ==
  ASSUME ImageInv, VKDestroySwapchain
  PROVE  ImageInv'
<1> PICK d : d = destroySwapchain(res, chain)
  OBVIOUS
<1>1. res' = d.res /\ chain' = d.chain /\ tex' = tex /\ view' = view
  BY Zenon DEF VKDestroySwapchain, Replace
<1>2. ImageState(d.res, NoChain) /\ d.chain = NoChain
  BY SwapchainDestroyed DEF ImageInv
<1>3. QED BY <1>1, <1>2 DEF ImageInv

(* Shutdown() and Init().                                                  *)
LEMMA ShutdownImages ==
  ASSUME ImageInv, Shutdown
  PROVE  ImageInv'
<1>1. res' = FreeAll(res, chain) /\ chain' = NoChain /\ tex' = tex /\ view' = view
  BY Zenon DEF Shutdown
<1>2. res' = NoImages /\ ImageState(NoImages, NoChain)
  BY <1>1, AllFreed DEF ImageInv
<1>3. QED BY <1>1, <1>2 DEF ImageInv

(* Every step that does not break a rule.                                  *)
LEMMA NextImageInv ==
  ASSUME ImageInv, [Next]_vars, ~ misused'
  PROVE  ImageInv'
<1>1. CASE UNCHANGED vars
  BY <1>1, ImagesUntouched DEF vars
<1>2. CASE Next
  <2>1. CASE TextureStep
    <3>1. UsedVars \subseteq TexVars
      BY TexturesAssumption DEF UsedVars
    <3>2. CASE \E v \in UsedVars : \E ok \in BOOLEAN : VKCreateTexture(v, ok)
      BY <3>1, <3>2, CreateTextureStep
    <3>3. CASE \E v \in UsedVars : VKDestroyTexture(v)
      BY <3>1, <3>3, DestroyTextureStep
    <3>4. CASE \E w \in ViewVars : \E v \in UsedVars, ok \in BOOLEAN :
                 VKCreateTextureView(v, w, ok)
      BY <3>1, <3>4, CreateViewStep
    <3>5. CASE \E w \in ViewVars : VKDestroyTextureView(w)
      BY <3>5, DestroyViewStep
    <3>6. QED BY <2>1, <3>2, <3>3, <3>4, <3>5 DEF TextureStep
  <2>2. CASE CopyStep
    BY <2>2, CopyTextureStep DEF CopyStep
  <2>3. CASE SwapchainStep
    <3>1. CASE \E outcomes \in OutcomeSeqs : VKCreateSwapchain(outcomes) \/ Resize(outcomes)
      BY <3>1, CreateSwapchainStep, ResizeStep
    <3>2. CASE VKDestroySwapchain
      BY <3>2, DestroySwapchainStep
    <3>3. CASE \E i \in DOMAIN chain.image : \/ \E v \in SwapVars : GetImage(v, i)
                                             \/ \E w \in ViewVars : GetImageView(w, i)
      BY <3>3, GetImageStep, GetImageViewStep, TexturesAssumption
    <3>4. QED BY <2>3, <3>1, <3>2, <3>3 DEF SwapchainStep
  <2>4. CASE DataStep
    <3>1. CASE VKFlushUploads
      BY <3>1, ImagesUntouched DEF VKFlushUploads
    <3>2. CASE \E v \in TexVars : VKCreateTexture(v, TRUE)
      <4>1. \E v \in TexVars, ok \in BOOLEAN : VKCreateTexture(v, ok)
        BY <3>2, Zenon
      <4>2. QED BY <4>1, CreateTextureStep
    <3>3. CASE \E v \in TexVars : \E size \in Sizes : VKCreateTextureData(v, size)
      BY <3>3, CreateTextureDataStep
    <3>4. CASE \E v \in TexVars : VKDestroyTexture(v)
      BY <3>4, DestroyTextureStep
    <3>5. QED BY <2>4, <3>1, <3>2, <3>3, <3>4, Zenon DEF DataStep
  <2>5. CASE SamplerStep
    BY <2>5, ImagesUntouched
       DEF SamplerStep, VKCreateSampler, VKCreateSamplerFails, VKDestroySampler, CopySampler
  <2>6. CASE Shutdown
    BY <2>6, ShutdownImages
  <2>7. QED BY <1>2, <2>1, <2>2, <2>3, <2>4, <2>5, <2>6 DEF Next
<1>3. QED BY <1>1, <1>2

(* The first state.                                                        *)
LEMMA InitImageInv ==
  ASSUME Init
  PROVE  ImageInv
<1>1. /\ res = NoImages /\ chain = NoChain
      /\ tex = [v \in TexVars |-> InvalidHandle] /\ view = [v \in ViewVars |-> InvalidHandle]
  BY DEF Init
<1>2. ImageState(NoImages, NoChain)
  BY NoImagesSound DEF ImageState, Linked
<1>3. InvalidHandle \in Handles
  BY InvalidNamesNothing
<1>4. QED BY <1>1, <1>2, <1>3 DEF ImageInv

(* The invariant holds until the client breaks a rule, which stops it.     *)
LEMMA ImagesAlways == Spec => [](~ misused => ImageInv)
<1>1. Init => (~ misused => ImageInv)
  BY InitImageInv
<1>2. (~ misused => ImageInv) /\ [Next]_vars => (~ misused => ImageInv)'
  <2> SUFFICES ASSUME ~ misused => ImageInv, [Next]_vars, ~ misused' PROVE ImageInv'
    OBVIOUS
  <2>1. ~ misused
    BY DEF Next, vars
  <2>2. ImageInv
    BY <2>1
  <2>3. QED BY <2>2, NextImageInv
<1>3. QED BY <1>1, <1>2, PTL DEF Spec

(* Whatever the client calls, in whatever order, within the rules: the     *)
(* library makes no call that the driver, the memory allocator or an       *)
(* assertion of free() rejects.                                            *)
THEOREM CallsCorrect == Spec => []DriverCallsSound
<1>1. (~ misused => ImageInv) => DriverCallsSound
  BY DEF ImageInv, ImageState, Sound, DriverCallsSound
<1>2. QED BY <1>1, ImagesAlways, PTL

(* The pools of textures and views, which the client and the swapchain     *)
(* share, hold exactly the objects the driver has, one in a slot.          *)
THEOREM PoolsCorrect == Spec => []PoolsExact
<1>1. ASSUME ImageInv
      PROVE  /\ FreeListExact(res.tex) /\ NoSharing(res.tex)
             /\ FreeListExact(res.view) /\ NoSharing(res.view)
  BY <1>1 DEF ImageInv, ImageState, Sound, ImageType, PoolOK
<1>2. ASSUME ImageInv, NEW swap \in BOOLEAN, NEW H,
             H = {t \in {res.tex.res[i] : i \in Occupied(res.tex)} : t.swap = swap}
      PROVE  {t.image : t \in H} =
               {res.tex.res[i].image : i \in {k \in Occupied(res.tex) : res.tex.res[k].swap = swap}}
  BY <1>2
<1>3. ASSUME ImageInv
      PROVE  res.images = {res.tex.res[i].image :
                             i \in {k \in Occupied(res.tex) : res.tex.res[k].swap = FALSE}}
  <2>1. /\ HeldImages(res)
        /\ \A i \in Occupied(res.tex) : res.tex.res[i].swap \in BOOLEAN
    BY <1>3, HeldImage DEF ImageInv, ImageState, Sound, TexRes
  <2>2. ASSUME NEW x \in res.images
        PROVE  \E i \in Occupied(res.tex) : res.tex.res[i].swap = FALSE /\ res.tex.res[i].image = x
    BY <2>1 DEF HeldImages
  <2>3. ASSUME NEW i \in Occupied(res.tex), res.tex.res[i].swap = FALSE
        PROVE  res.tex.res[i].image \in res.images
    BY <2>1, <2>3 DEF HeldImages
  <2>4. PICK S : S = {res.tex.res[i].image :
                        i \in {k \in Occupied(res.tex) : res.tex.res[k].swap = FALSE}}
    OBVIOUS
  <2>5. res.images \subseteq S
    BY <2>2, <2>4
  <2>6. S \subseteq res.images
    BY <2>3, <2>4
  <2>7. QED BY <2>4, <2>5, <2>6
<1>4. ASSUME ImageInv
      PROVE  res.shown = {res.tex.res[i].image :
                            i \in {k \in Occupied(res.tex) : res.tex.res[k].swap = TRUE}}
  <2>1. Sound(res) /\ HeldImages(res) /\ Linked(res, chain)
    BY <1>4 DEF ImageInv, ImageState, Sound
  <2>2. ASSUME NEW x \in res.shown
        PROVE  \E i \in Occupied(res.tex) : res.tex.res[i].swap = TRUE /\ res.tex.res[i].image = x
    <3>1. PICK j \in 1 .. Len(chain.image) : x = chain.vk[j]
      BY <2>1, <2>2 DEF Linked
    <3>2. HandlesOf(chain, j) /\ ChainImage(res, chain, j)
      BY <2>1, LinkedSlots, SoundPools
    <3>3. ChainFact(res, chain, j)
      BY <2>1, <3>2, ChainFacts
    <3>4. /\ chain.image[j].index \in Occupied(res.tex)
          /\ res.tex.res[chain.image[j].index] = [image |-> chain.vk[j], swap |-> TRUE]
      BY <3>3 DEF ChainFact
    <3>5. /\ res.tex.res[chain.image[j].index].swap = TRUE
          /\ res.tex.res[chain.image[j].index].image = x
      BY <3>1, <3>4
    <3>6. QED BY <3>4, <3>5
  <2>3. ASSUME NEW i \in Occupied(res.tex), res.tex.res[i].swap = TRUE
        PROVE  res.tex.res[i].image \in res.shown
    BY <2>1, <2>3 DEF HeldImages
  <2> DEFINE S == {res.tex.res[i].image :
                     i \in {k \in Occupied(res.tex) : res.tex.res[k].swap = TRUE}}
  <2>4. \A x : x \in S <=> (\E i \in Occupied(res.tex) :
                             res.tex.res[i].swap = TRUE /\ res.tex.res[i].image = x)
    OBVIOUS
  <2>5. res.shown \subseteq S
    BY <2>2, <2>4
  <2>6. S \subseteq res.shown
    BY <2>3, <2>4
  <2>7. QED BY <2>5, <2>6
<1>5. ASSUME ImageInv
      PROVE  DOMAIN res.views = {res.view.res[i] : i \in Occupied(res.view)}
  <2>1. HeldViews(res)
    BY <1>5 DEF ImageInv, ImageState, Sound
  <2>2. QED BY <2>1 DEF HeldViews
<1>6. (~ misused => ImageInv) => PoolsExact
  <2> SUFFICES ASSUME ~ misused, ImageInv PROVE PoolsExact
    BY DEF PoolsExact
  <2>1. PICK F : F = {t \in {res.tex.res[i] : i \in Occupied(res.tex)} : t.swap = FALSE}
    OBVIOUS
  <2>2. PICK T : T = {t \in {res.tex.res[i] : i \in Occupied(res.tex)} : t.swap = TRUE}
    OBVIOUS
  <2>3. res.images = {t.image : t \in F}
    BY <1>2, <1>3, <2>1
  <2>4. res.shown = {t.image : t \in T}
    BY <1>2, <1>4, <2>2
  <2>5. QED BY <1>1, <1>5, <2>1, <2>2, <2>3, <2>4, Zenon DEF PoolsExact
<1>7. QED BY <1>6, ImagesAlways, PTL

(* After any number of creations, resizes and failures of both, and of     *)
(* calls of the client in between, the swapchain's vectors name its own    *)
(* images, depth textures and views, or nothing.                           *)
THEOREM SwapchainCorrect == Spec => []SwapchainConsistent
<1> DEFINE At(j, t, d, iv, dv) ==
      /\ Names(res.tex, chain.image[j])
      /\ t.swap /\ t.image = chain.vk[j] /\ t.image \in res.shown
      /\ isValid(chain.depth[j]) =>
           Names(res.tex, chain.depth[j]) /\ ~ d.swap /\ d.image \in res.images
      /\ isValid(chain.imageView[j]) =>
           Names(res.view, chain.imageView[j]) /\ res.views[iv] = t.image
      /\ isValid(chain.depthView[j]) =>
           Names(res.view, chain.depthView[j]) /\ res.views[dv] = d.image
<1>1. ASSUME ImageInv, NEW j \in DOMAIN chain.image
      PROVE  At(j, Get(res.tex, chain.image[j]), Get(res.tex, chain.depth[j]),
                   Get(res.view, chain.imageView[j]), Get(res.view, chain.depthView[j]))
  <2> PICK t : t = Get(res.tex, chain.image[j])
    OBVIOUS
  <2> PICK d : d = Get(res.tex, chain.depth[j])
    OBVIOUS
  <2> PICK iv : iv = Get(res.view, chain.imageView[j])
    OBVIOUS
  <2> PICK dv : dv = Get(res.view, chain.depthView[j])
    OBVIOUS
  <2>1. j \in 1 .. Len(chain.image) /\ Sound(res) /\ Linked(res, chain)
    BY <1>1, ChainDomain DEF ImageInv, ImageState
  <2>2. HandlesOf(chain, j) /\ ChainImage(res, chain, j)
    BY <2>1, LinkedSlots, SoundPools
  <2>3. ChainFact(res, chain, j)
    BY <2>1, <2>2, ChainFacts
  <2>4. t = [image |-> chain.vk[j], swap |-> TRUE]
    BY <1>1, <2>2 DEF ChainImage
  <2>5. t.swap /\ t.image = chain.vk[j]
    BY <2>4
  <2>6. /\ chain.vk[j] \in res.shown
        /\ isValid(chain.depth[j]) => d.image \in res.images
    BY <1>1, <2>3 DEF ChainFact, Get
  <2>7. /\ Names(res.tex, chain.image[j])
        /\ isValid(chain.depth[j]) => Names(res.tex, chain.depth[j]) /\ ~ d.swap
        /\ isValid(chain.imageView[j]) =>
             Names(res.view, chain.imageView[j]) /\ res.views[iv] = chain.vk[j]
        /\ isValid(chain.depthView[j]) =>
             Names(res.view, chain.depthView[j]) /\ res.views[dv] = d.image
    BY <1>1, <2>2 DEF ChainImage
  <2>8. QED BY <2>5, <2>6, <2>7
<1>2. (~ misused => ImageInv) => SwapchainConsistent
  <2> SUFFICES ASSUME ~ misused, ImageInv PROVE SwapchainConsistent
    BY Zenon DEF SwapchainConsistent
  <2>1. QED BY <1>1, Zenon DEF SwapchainConsistent
<1>3. QED BY <1>2, ImagesAlways, PTL

-----------------------------------------------------------------------------
(* The initial data.                                                       *)

(* Aligning rounds up.                                                     *)
LEMMA AlignUpBounds ==
  ASSUME NEW n \in Nat
  PROVE  AlignUp(n) \in Nat /\ AlignUp(n) >= n
<1>1. UploadAlign \in Int /\ UploadAlign > 0
  BY UploaderAssumption
<1>2. ASSUME NEW m \in Int, NEW a \in Int, a > 0
      PROVE  m \div a \in Int /\ m < a * (m \div a) + a
  BY <1>2
<1> DEFINE q == (n + UploadAlign - 1) \div UploadAlign
<1>3. q \in Int /\ n + UploadAlign - 1 < UploadAlign * q + UploadAlign
  BY <1>1, <1>2
<1>4. AlignUp(n) = q * UploadAlign
  BY DEF AlignUp
<1> HIDE DEF q
<1>5. q * UploadAlign = UploadAlign * q /\ UploadAlign * q \in Int
  BY <1>1, <1>3
<1> QED
  BY <1>1, <1>3, <1>4, <1>5

(* Where pushData() writes.                                                *)
LEMMA Pushed ==
  ASSUME NEW u, UploaderOK(u), NEW size \in Nat, NEW off, off = PushOffset(u),
         NEW n, n = (off + size) % AddrMod
  PROVE  /\ off \in Nat /\ n \in Nat /\ Len(u.data) \in Nat
         /\ Fits(u, size) => n = off + size /\ Len(u.data) <= off
<1>1. AddrMod \in Int /\ AddrMod > 0
  BY UploaderAssumption
<1>2. ASSUME NEW a \in Int, NEW m \in Int, m > 0 PROVE a % m \in 0 .. m - 1
  BY <1>2
<1>3. ASSUME NEW a \in Int, NEW m \in Int, 0 <= a, a < m PROVE a % m = a
  BY <1>3
<1>4. Len(u.data) \in Nat /\ AlignUp(Len(u.data)) \in Nat /\ AlignUp(Len(u.data)) >= Len(u.data)
  BY AlignUpBounds DEF UploaderOK
<1>5. off \in Nat
  BY <1>1, <1>2, <1>4 DEF PushOffset
<1>6. n \in Nat
  BY <1>1, <1>2, <1>5
<1>7. ASSUME Fits(u, size) PROVE n = off + size /\ Len(u.data) <= off
  <2>1. off = AlignUp(Len(u.data)) /\ off + size < AddrMod
    BY <1>1, <1>3, <1>4, <1>7 DEF Fits, PushOffset
  <2>2. off + size \in Int /\ 0 <= off + size
    BY <1>5
  <2>3. n = off + size
    BY <1>1, <1>3, <2>1, <2>2
  <2>4. Len(u.data) <= off
    BY <1>4, <2>1
  <2>5. QED BY <2>3, <2>4
<1>8. QED BY <1>4, <1>5, <1>6, <1>7

(* What uploadTexture() leaves: below the limit of 32 bits the new bytes   *)
(* lie behind all the others.                                              *)
QueuedPost(u, q, dst, tag, up, fits) ==
  /\ UploaderOK(q) /\ Queued(q) = Queued(u) \cup {up}
  /\ up.dst = dst /\ up.tag = tag
  /\ fits => /\ Owns(q, up)
             /\ \A x \in TexUploads : Owns(u, x) => Owns(q, x)

(* uploadTexture() does leave that.                                        *)
LEMMA UploadQueued ==
  ASSUME NEW u, UploaderOK(u), NEW dst \in Images, NEW tag \in Handles,
         NEW size \in Nat \ {0}, NEW q, q = uploadTexture(u, dst, tag, size),
         NEW up, up = Upload(u, dst, tag, size)
  PROVE  QueuedPost(u, q, dst, tag, up, Fits(u, size))
<1> PICK off : off = PushOffset(u)
  OBVIOUS
<1> PICK n : n = (off + size) % AddrMod
  OBVIOUS
<1> PICK d : d = PushData(u, tag, size)
  OBVIOUS
<1>1. /\ off \in Nat /\ n \in Nat /\ Len(u.data) \in Nat
      /\ Fits(u, size) => n = off + size /\ Len(u.data) <= off
  BY Pushed
<1>2. up \in TexUploads /\ up.dst = dst /\ up.tag = tag /\ up.off = off /\ up.size = size
  BY <1>1 DEF Upload, TexUploads
<1>3. /\ u = [data |-> u.data, bufs |-> u.bufs, texs |-> u.texs]
      /\ u.data \in Seq(Handles \cup {Pad}) /\ u.bufs = <<>> /\ u.texs \in Seq(TexUploads)
  BY DEF UploaderOK
<1>4. d = [i \in 1 .. n |-> IF i > off THEN tag
                            ELSE IF i <= Len(u.data) THEN u.data[i] ELSE Pad]
  BY DEF PushData
<1>5. /\ q = [data |-> q.data, bufs |-> q.bufs, texs |-> q.texs]
      /\ q.texs = Append(u.texs, up) /\ q.bufs = <<>> /\ q.data = d
  <2>1. PICK b : b = Append(u.texs, up)
    OBVIOUS
  <2>2. q = [u EXCEPT !.texs = b, !.data = d]
    BY <2>1 DEF uploadTexture
  <2>3. QED BY <1>3, <2>1, <2>2
<1>6. q.data \in Seq(Handles \cup {Pad}) /\ Len(q.data) = n
  <2>1. PICK S : S = Handles \cup {Pad}
    OBVIOUS
  <2>2. \A i \in 1 .. n : d[i] \in S
    <3> SUFFICES ASSUME NEW i \in 1 .. n PROVE d[i] \in S
      OBVIOUS
    <3>1. CASE i > off
      BY <1>4, <2>1, <3>1
    <3>2. CASE ~ (i > off) /\ i <= Len(u.data)
      <4>1. u.data[i] \in S
        BY <1>1, <1>3, <2>1, <3>2
      <4>2. QED BY <1>4, <3>2, <4>1
    <3>3. CASE ~ (i > off) /\ ~ (i <= Len(u.data))
      BY <1>4, <2>1, <3>3
    <3>4. QED BY <3>1, <3>2, <3>3
  <2>3. d \in [1 .. n -> S]
    BY <1>4, <2>2
  <2>4. QED BY <1>1, <1>5, <2>1, <2>3
<1>7. /\ q.texs \in Seq(TexUploads)
      /\ DOMAIN q.texs = DOMAIN u.texs \cup {Len(u.texs) + 1}
      /\ \A i \in DOMAIN u.texs : q.texs[i] = u.texs[i]
      /\ q.texs[Len(u.texs) + 1] = up
  BY <1>2, <1>3, <1>5
<1>8. UploaderOK(q)
  BY <1>5, <1>6, <1>7 DEF UploaderOK
<1>9. Queued(q) = Queued(u) \cup {up}
  BY <1>3, <1>5, <1>7 DEF Queued
<1>10. ASSUME Fits(u, size)
       PROVE  /\ Owns(q, up)
              /\ \A x \in TexUploads : Owns(u, x) => Owns(q, x)
  <2>1. n = off + size /\ Len(u.data) <= off
    BY <1>1, <1>10
  <2>2. Owns(q, up)
    <3> SUFFICES ASSUME NEW i \in off + 1 .. off + size
                 PROVE  i <= Len(q.data) /\ q.data[i] = tag
      BY <1>2 DEF Owns
    <3>1. i \in 1 .. n /\ i > off
      BY <1>1, <2>1
    <3> QED
      BY <1>1, <1>4, <1>5, <1>6, <2>1, <3>1
  <2>3. ASSUME NEW x \in TexUploads, Owns(u, x) PROVE Owns(q, x)
    <3> SUFFICES ASSUME NEW i \in x.off + 1 .. x.off + x.size
                 PROVE  i <= Len(q.data) /\ q.data[i] = x.tag
      BY DEF Owns
    <3>1. i <= Len(u.data) /\ u.data[i] = x.tag
      BY <2>3 DEF Owns
    <3>2. x.off \in Nat /\ x.size \in Nat /\ i \in Nat /\ i >= 1
      BY DEF TexUploads
    <3>3. i \in 1 .. n /\ ~ (i > off)
      BY <1>1, <2>1, <3>1, <3>2
    <3> QED
      BY <1>1, <1>4, <1>5, <1>6, <3>1, <3>3
  <2>4. QED BY <2>2, <2>3
<1>11. QED BY <1>2, <1>8, <1>9, <1>10 DEF QueuedPost

(* What is queued is an upload.                                            *)
LEMMA QueuedUploads ==
  ASSUME NEW u, UploaderOK(u)
  PROVE  Queued(u) \subseteq TexUploads
<1>1. u.texs \in Seq(TexUploads) /\ u.bufs = <<>>
  BY DEF UploaderOK
<1>2. QED BY <1>1 DEF Queued

(* An empty uploader has nothing queued.                                   *)
LEMMA EmptyQueue ==
  /\ UploaderOK(EmptyUploader)
  /\ Queued(EmptyUploader) = {} /\ Targets(EmptyUploader) = {}
BY DEF EmptyUploader, UploaderOK, Queued, Targets

(* No handle is the mark of an image without data.                         *)
LEMMA NotNoData == NoData \notin Handles
BY TexturesAssumption, GenModAssumption DEF Handles, Gens

(* A program that gives no data has no image that is not blank.            *)
LEMMA NoDataYetOK ==
  ASSUME NoDataYet, ImageInv
  PROVE  DataInv
<1>1. /\ uploader = EmptyUploader
      /\ want = [i \in Images |-> NoData] /\ have = [i \in Images |-> Blank]
  BY DEF NoDataYet
<1>2. res.images \subseteq Images
  BY DEF ImageInv, ImageState, Small
<1>3. DataOK(res.images)
  BY <1>1, <1>2, EmptyQueue DEF DataOK, ImageReady
<1>4. QED BY <1>1, <1>3, EmptyQueue DEF DataInv, NoDataYet

(* Likewise after a step.                                                  *)
LEMMA NoDataYetOKNext ==
  ASSUME NoDataYet', ImageInv'
  PROVE  DataInv'
<1>1. /\ uploader' = EmptyUploader
      /\ want' = [i \in Images |-> NoData] /\ have' = [i \in Images |-> Blank]
  BY DEF NoDataYet
<1>2. res'.images \subseteq Images
  BY DEF ImageInv, ImageState, Small
<1>3. DataOK(res.images)'
  BY <1>1, <1>2, EmptyQueue DEF DataOK, ImageReady
<1>4. QED BY <1>1, <1>3, EmptyQueue DEF DataInv, NoDataYet

(* VKCreateTexture() without data.                                         *)
LEMMA CreateNoDataStep ==
  ASSUME ImageInv, DataInv, NEW v \in TexVars, NEW ok \in BOOLEAN, VKCreateTexture(v, ok),
         uses' = uses, ok \/ uses # "data"
  PROVE  DataInv'
<1> PICK d : d = CreateTexture(res, ok)
  OBVIOUS
<1> PICK n : n = NextImage(res)
  OBVIOUS
<1>1. /\ res' = d.res /\ Room(d.res) /\ uploader' = uploader
      /\ ok => want' = [want EXCEPT ![n] = NoData] /\ have' = [have EXCEPT ![n] = Blank]
      /\ ~ ok => want' = want /\ have' = have
  BY Zenon DEF VKCreateTexture
<1>2. ImageInv'
  BY CreateTextureStep
<1>3. CASE uses # "data"
  <2>1. NoDataYet
    BY <1>3 DEF DataInv
  <2>2. NoDataYet'
    BY <1>1, <2>1 DEF NoDataYet
  <2>3. QED BY <1>2, <2>2, NoDataYetOKNext
<1>4. CASE uses = "data"
  <2>1. /\ ok /\ want' = [want EXCEPT ![n] = NoData] /\ have' = [have EXCEPT ![n] = Blank]
    BY <1>1, <1>4
  <2>2. res'.images = res.images \cup {n} /\ n \notin res.images
    BY <1>1, <2>1, TextureCreated DEF ImageInv
  <2>3. /\ UploaderOK(uploader) /\ DataOK(res.images)
        /\ want \in [Images -> Handles \cup {NoData}] /\ have = [i \in Images |-> have[i]]
    BY DEF DataInv
  <2>4. n \in Images /\ res.images \subseteq Images
    BY <1>2, <2>2 DEF ImageInv, ImageState, Small
  <2>5. n \notin Targets(uploader)
    BY <2>2, <2>3 DEF DataOK
  <2>6. \A up \in Queued(uploader) : up.dst # n
    BY <2>5 DEF Targets
  <2>7. \A i \in Images \ {n} : want'[i] = want[i] /\ have'[i] = have[i]
    BY <2>1, <2>3
  <2>8. want'[n] = NoData /\ have'[n] = Blank
    BY <2>1, <2>3, <2>4
  <2>9. \A up \in Queued(uploader) : Owns(uploader, up) /\ want'[up.dst] = up.tag
    <3> SUFFICES ASSUME NEW up \in Queued(uploader)
                 PROVE  Owns(uploader, up) /\ want'[up.dst] = up.tag
      OBVIOUS
    <3>1. up.dst \in Images \ {n}
      BY <2>3, <2>6, QueuedUploads DEF TexUploads
    <3>2. QED BY <2>3, <2>7, <3>1 DEF DataOK
  <2>10. \A i \in res'.images : ImageReady(i, want'[i], have'[i], Targets(uploader))
    <3>1. ImageReady(n, want'[n], have'[n], Targets(uploader))
      BY <2>8 DEF ImageReady
    <3>2. ASSUME NEW i \in res.images
          PROVE  ImageReady(i, want'[i], have'[i], Targets(uploader))
      <4>1. i \in Images \ {n}
        BY <2>2, <2>4
      <4>2. QED BY <2>3, <2>7, <4>1 DEF DataOK
    <3>3. QED BY <2>2, <3>1, <3>2
  <2>11. DataOK(res.images)'
    BY <1>1, <2>2, <2>3, <2>9, <2>10 DEF DataOK
  <2>12. /\ want' \in [Images -> Handles \cup {NoData}] /\ have' = [i \in Images |-> have'[i]]
    BY <2>1, <2>3
  <2>13. QED BY <1>1, <1>4, <2>3, <2>11, <2>12 DEF DataInv
<1>5. QED BY <1>3, <1>4

(* VKCreateTexture() with data, that is queued.                            *)
LEMMA CreateDataStep ==
  ASSUME ImageInv, DataInv, NEW v \in TexVars, NEW size \in Sizes,
         VKCreateTextureData(v, size), uses = "data", uses' = uses, ~ misused'
  PROVE  DataInv'
<1> PICK ok \in BOOLEAN : ok = TRUE
  OBVIOUS
<1> PICK d : d = CreateTexture(res, ok)
  OBVIOUS
<1> PICK n : n = NextImage(res)
  OBVIOUS
<1> PICK h : h = d.handle
  OBVIOUS
<1>1. /\ res' = d.res /\ Room(d.res) /\ uploader' = uploadTexture(uploader, n, h, size)
      /\ want' = [want EXCEPT ![n] = h] /\ have' = [have EXCEPT ![n] = Blank]
      /\ Fits(uploader, size)
  BY Zenon DEF VKCreateTextureData
<1>2. ImageInv'
  BY CreateTextureDataStep
<1>3. /\ res'.images = res.images \cup {n} /\ n \notin res.images /\ h \in Handles
  BY <1>1, TextureCreated DEF ImageInv
<1>4. /\ UploaderOK(uploader) /\ DataOK(res.images)
      /\ want \in [Images -> Handles \cup {NoData}] /\ have = [i \in Images |-> have[i]]
  BY DEF DataInv
<1>5. n \in Images /\ res.images \subseteq Images
  BY <1>2, <1>3 DEF ImageInv, ImageState, Small
<1> PICK up : up = Upload(uploader, n, h, size)
  OBVIOUS
<1>6. /\ UploaderOK(uploader') /\ Queued(uploader') = Queued(uploader) \cup {up}
      /\ up.dst = n /\ up.tag = h /\ Owns(uploader', up)
      /\ \A x \in TexUploads : Owns(uploader, x) => Owns(uploader', x)
  <2>1. size \in Nat \ {0}
    BY TexturesAssumption
  <2>2. PICK u : u = uploader'
    OBVIOUS
  <2>3. QueuedPost(uploader, u, n, h, up, Fits(uploader, size))
    BY <1>1, <1>3, <1>4, <1>5, <2>1, <2>2, UploadQueued
  <2>4. QED BY <1>1, <2>2, <2>3 DEF QueuedPost
<1>7. Targets(uploader') = Targets(uploader) \cup {n}
  BY <1>6 DEF Targets
<1>8. \A i \in Images \ {n} : want'[i] = want[i] /\ have'[i] = have[i]
  BY <1>1, <1>4
<1>9. want'[n] = h /\ have'[n] = Blank
  BY <1>1, <1>4, <1>5
<1>10. \A x \in Queued(uploader') : Owns(uploader', x) /\ want'[x.dst] = x.tag
  <2>1. Owns(uploader', up) /\ want'[up.dst] = up.tag
    BY <1>6, <1>9
  <2>2. ASSUME NEW x \in Queued(uploader)
        PROVE  Owns(uploader', x) /\ want'[x.dst] = x.tag
    <3>1. x \in TexUploads /\ x.dst \in Targets(uploader)
      BY <1>4, QueuedUploads DEF Targets
    <3>2. x.dst \in Images \ {n}
      BY <1>3, <1>4, <1>5, <3>1 DEF DataOK
    <3>3. QED BY <1>4, <1>6, <1>8, <3>1, <3>2 DEF DataOK
  <2>3. QED BY <1>6, <2>1, <2>2
<1>11. \A i \in res'.images : ImageReady(i, want'[i], have'[i], Targets(uploader'))
  <2>1. ImageReady(n, want'[n], have'[n], Targets(uploader'))
    BY <1>7, <1>9 DEF ImageReady
  <2>2. ASSUME NEW i \in res.images
        PROVE  ImageReady(i, want'[i], have'[i], Targets(uploader'))
    <3>1. i \in Images \ {n}
      BY <1>3, <1>5
    <3>2. ImageReady(i, want[i], have[i], Targets(uploader))
      BY <1>4 DEF DataOK
    <3>3. QED BY <1>7, <1>8, <3>1, <3>2 DEF ImageReady
  <2>3. QED BY <1>3, <2>1, <2>2
<1>12. DataOK(res.images)'
  BY <1>3, <1>4, <1>7, <1>10, <1>11 DEF DataOK
<1>13. /\ want' \in [Images -> Handles \cup {NoData}] /\ have' = [i \in Images |-> have'[i]]
  BY <1>1, <1>3, <1>4
<1>14. QED BY <1>6, <1>12, <1>13 DEF DataInv

(* VKDestroyTexture() of an image for which nothing is queued.             *)
LEMMA DestroyDataStep ==
  ASSUME ImageInv, DataInv, NEW v \in TexVars, VKDestroyTexture(v), uses' = uses, ~ misused'
  PROVE  DataInv'
<1> PICK i : i = Get(res.tex, tex[v]).image
  OBVIOUS
<1>1. /\ IsAlive(res.tex, tex[v]) /\ res' = DestroyTexture(res, tex[v])
      /\ ~ IsFree(res.tex, tex[v]) /\ ~ OfChain(tex[v]) /\ i \notin Targets(uploader)
      /\ uploader' = uploader /\ want' = want /\ have' = have
  BY Zenon DEF VKDestroyTexture, dataVars
<1>2. \A j \in 1 .. Len(chain.image) : tex[v] # chain.image[j] /\ tex[v] # chain.depth[j]
  BY <1>1, ChainDomain DEF OfChain
<1>3. tex[v] \in Handles
  BY DEF ImageInv
<1>4. res'.images = res.images \ {i}
  BY <1>1, <1>2, <1>3, TextureDestroyed DEF ImageInv
<1>5. DataOK(res.images)'
  BY <1>1, <1>4 DEF DataInv, DataOK
<1>6. NoDataYet => NoDataYet'
  BY <1>1 DEF NoDataYet
<1>7. QED BY <1>1, <1>5, <1>6 DEF DataInv

(* A flush delivers to each target what it was created with.               *)
LEMMA FlushStep ==
  ASSUME ImageInv, DataInv, VKFlushUploads, uses = "data", uses' = uses
  PROVE  DataInv'
<1>1. PICK copied \in Copies(uploader) :
        have' = [i \in Images |->
                  IF i \in DOMAIN copied
                  THEN [data |-> copied[i], layout |-> LayoutFlushed]
                  ELSE have[i]]
  BY DEF VKFlushUploads
<1>2. uploader' = EmptyUploader /\ want' = want /\ res' = res
  BY DEF VKFlushUploads, Flushed, imageVars
<1>3. /\ DOMAIN copied = Targets(uploader)
      /\ \A o \in Targets(uploader) :
           \E up \in Queued(uploader) : up.dst = o /\ copied[o] = Delivered(uploader, up)
  BY DEF Copies
<1>4. /\ UploaderOK(uploader) /\ DataOK(res.images)
      /\ want \in [Images -> Handles \cup {NoData}] /\ have = [i \in Images |-> have[i]]
  BY DEF DataInv
<1>5. \A o \in Targets(uploader) : copied[o] = want[o] /\ want[o] # NoData
  <2> SUFFICES ASSUME NEW o \in Targets(uploader)
               PROVE  copied[o] = want[o] /\ want[o] # NoData
    OBVIOUS
  <2>1. PICK up \in Queued(uploader) : up.dst = o /\ copied[o] = Delivered(uploader, up)
    BY <1>3
  <2>2. Owns(uploader, up) /\ want[o] = up.tag
    BY <1>4, <2>1 DEF DataOK
  <2>3. copied[o] = up.tag
    BY <2>1, <2>2 DEF Owns, Delivered
  <2>4. up.tag \in Handles
    BY <1>4, QueuedUploads DEF TexUploads
  <2>5. QED BY <2>2, <2>3, <2>4, NotNoData
<1>6. res.images \subseteq Images
  BY DEF ImageInv, ImageState, Small
<1>7. ASSUME NEW i \in res.images PROVE ImageReady(i, want[i], have'[i], {})
  <2>1. ImageReady(i, want[i], have[i], Targets(uploader)) /\ i \in Images
    BY <1>4, <1>6 DEF DataOK
  <2>2. CASE i \in Targets(uploader)
    <3>1. have'[i] = [data |-> want[i], layout |-> "read"] /\ want[i] # NoData
      BY <1>1, <1>3, <1>5, <2>1, <2>2 DEF LayoutFlushed
    <3>2. QED BY <3>1 DEF ImageReady
  <2>3. CASE i \notin Targets(uploader)
    <3>1. have'[i] = have[i]
      BY <1>1, <1>3, <2>1, <2>3
    <3>2. QED BY <2>1, <2>3, <3>1 DEF ImageReady
  <2>4. QED BY <2>2, <2>3
<1>8. DataOK(res.images)'
  BY <1>2, <1>7, EmptyQueue DEF DataOK
<1>9. have' = [i \in Images |-> have'[i]]
  BY <1>1
<1>10. QED BY <1>2, <1>4, <1>8, <1>9, EmptyQueue DEF DataInv

(* Steps that leave the uploader and what the images hold alone.           *)
LEMMA DataUntouched ==
  ASSUME DataInv, UNCHANGED dataVars, uses' = uses, res'.images = res.images
  PROVE  DataInv'
<1>1. uploader' = uploader /\ want' = want /\ have' = have
  BY DEF dataVars
<1>2. QED BY <1>1 DEF DataInv, DataOK, NoDataYet

(* Steps of a program that gives no data.                                  *)
LEMMA NoDataStep ==
  ASSUME DataInv, ImageInv', uses # "data", uses' = uses, UNCHANGED dataVars
  PROVE  DataInv'
<1>1. NoDataYet
  BY DEF DataInv
<1>2. NoDataYet'
  BY <1>1 DEF NoDataYet, dataVars
<1>3. QED BY <1>2, NoDataYetOKNext

(* Every step that does not break a rule.                                  *)
LEMMA NextDataInv ==
  ASSUME ImageInv, DataInv, [Next]_vars, ~ misused'
  PROVE  DataInv'
<1>1. ImageInv'
  BY NextImageInv
<1>2. CASE UNCHANGED vars
  BY <1>2, DataUntouched DEF vars, imageVars
<1>3. CASE Next
  <2>1. uses' = uses
    BY <1>3 DEF Next
  <2>2. CASE TextureStep
    <3>1. UsedVars \subseteq TexVars /\ uses # "data"
      BY <2>2, TexturesAssumption DEF UsedVars, TextureStep
    <3>2. CASE \E v \in UsedVars : \E ok \in BOOLEAN : VKCreateTexture(v, ok)
      BY <2>1, <3>1, <3>2, CreateNoDataStep
    <3>3. CASE \E v \in UsedVars : VKDestroyTexture(v)
      BY <1>1, <2>1, <3>1, <3>3, NoDataStep DEF VKDestroyTexture
    <3>4. CASE \E w \in ViewVars : \E v \in UsedVars, ok \in BOOLEAN :
                 VKCreateTextureView(v, w, ok)
      BY <1>1, <2>1, <3>1, <3>4, NoDataStep DEF VKCreateTextureView
    <3>5. CASE \E w \in ViewVars : VKDestroyTextureView(w)
      BY <1>1, <2>1, <3>1, <3>5, NoDataStep DEF VKDestroyTextureView
    <3>6. QED BY <2>2, <3>2, <3>3, <3>4, <3>5 DEF TextureStep
  <2>3. CASE CopyStep
    BY <1>1, <2>1, <2>3, NoDataStep DEF CopyStep, CopyTexture
  <2>4. CASE SwapchainStep
    <3>1. uses # "data"
      BY <2>4 DEF SwapchainStep
    <3>2. UNCHANGED dataVars
      BY <2>4, Zenon
         DEF SwapchainStep, VKCreateSwapchain, Resize, VKDestroySwapchain, Replace,
             GetImage, GetImageView
    <3>3. QED BY <1>1, <2>1, <3>1, <3>2, NoDataStep
  <2>5. CASE DataStep
    <3>1. uses = "data"
      BY <2>5 DEF DataStep
    <3>2. CASE VKFlushUploads
      BY <2>1, <3>1, <3>2, FlushStep
    <3>3. CASE \E v \in TexVars : VKCreateTexture(v, TRUE)
      <4>1. \E v \in TexVars, ok \in BOOLEAN : VKCreateTexture(v, ok) /\ ok
        BY <3>3, Zenon
      <4>2. QED BY <2>1, <4>1, CreateNoDataStep
    <3>4. CASE \E v \in TexVars : \E size \in Sizes : VKCreateTextureData(v, size)
      BY <2>1, <3>1, <3>4, CreateDataStep
    <3>5. CASE \E v \in TexVars : VKDestroyTexture(v)
      BY <2>1, <3>5, DestroyDataStep
    <3>6. QED BY <2>5, <3>2, <3>3, <3>4, <3>5, Zenon DEF DataStep
  <2>6. CASE SamplerStep
    <3>1. uses # "data"
      BY <2>6 DEF SamplerStep
    <3>2. UNCHANGED dataVars
      BY <2>6, Zenon
         DEF SamplerStep, VKCreateSampler, VKCreateSamplerFails, VKDestroySampler, CopySampler
    <3>3. QED BY <1>1, <2>1, <3>1, <3>2, NoDataStep
  <2>7. CASE Shutdown
    <3>1. NoDataYet'
      BY <2>7 DEF Shutdown, NoDataYet
    <3>2. QED BY <1>1, <3>1, NoDataYetOKNext
  <2>8. QED BY <1>3, <2>2, <2>3, <2>4, <2>5, <2>6, <2>7 DEF Next
<1>4. QED BY <1>2, <1>3

(* Images and data together, until the client breaks a rule.               *)
LEMMA DataAlways == Spec => [](~ misused => ImageInv /\ DataInv)
<1>1. Init => (~ misused => ImageInv /\ DataInv)
  <2> SUFFICES ASSUME Init PROVE ImageInv /\ DataInv
    OBVIOUS
  <2>1. NoDataYet
    BY DEF Init, NoDataYet
  <2>2. QED BY <2>1, InitImageInv, NoDataYetOK
<1>2. (~ misused => ImageInv /\ DataInv) /\ [Next]_vars => (~ misused => ImageInv /\ DataInv)'
  <2> SUFFICES ASSUME ~ misused => ImageInv /\ DataInv, [Next]_vars, ~ misused'
               PROVE  ImageInv' /\ DataInv'
    OBVIOUS
  <2>1. ~ misused
    BY DEF Next, vars
  <2>2. ImageInv /\ DataInv
    BY <2>1
  <2>3. QED BY <2>2, NextImageInv, NextDataInv
<1>3. QED BY <1>1, <1>2, PTL DEF Spec

(* Initial data arrives: whatever is created, destroyed and flushed in     *)
(* between, an image with nothing queued holds what it was created with,   *)
(* readable by a shader, for every alignment and width of an offset.       *)
THEOREM DataCorrect == Spec => []TexturesReady
<1>1. (~ misused => ImageInv /\ DataInv) => TexturesReady
  BY Zenon DEF DataInv, DataOK, ImageReady, TexturesReady
<1>2. QED BY <1>1, DataAlways, PTL

-----------------------------------------------------------------------------
(* Types, which also the step that breaks a rule keeps.                    *)
ResTyped(r) ==
  /\ IsPool(r.tex, [image : Images, swap : BOOLEAN])
  /\ IsPool(r.view, 1 .. MaxViews)
  /\ r.images \subseteq Images /\ r.shown \subseteq Images
  /\ \A x \in DOMAIN r.views : x \in 1 .. MaxViews /\ r.views[x] \in Images

ImagesTyped == /\ ResTyped(res)
               /\ tex \in [TexVars -> Handles] /\ view \in [ViewVars -> Handles]

SamplersTyped == /\ IsPool(samPool, 1 .. MaxSamplers)
                 /\ sam \in [SamVars -> [handle : Handles, session : 1 .. Sessions]]

LayoutsTyped == /\ have = [i \in Images |-> have[i]]
                /\ \A i \in Images : have[i].layout \in {"undefined", "read"}

(* What a pool holds may be known better.                                  *)
LEMMA PoolOfLess ==
  ASSUME NEW R, NEW S, NEW p, IsPool(p, R), \A s \in Occupied(p) : p.res[s] \in S
  PROVE  IsPool(p, S)
<1>1. /\ p.size \in Nat \ {0} /\ p.res[0] = NullRes
      /\ p.res \in [0 .. p.size - 1 -> R \cup {NullRes}]
  BY DEF IsPool
<1>2. ASSUME NEW i \in 0 .. p.size - 1 PROVE p.res[i] \in S \cup {NullRes}
  <2>1. CASE i = 0
    BY <1>1, <2>1
  <2>2. CASE i # 0
    <3>1. i \in Slots(p)
      BY <1>1, <2>2 DEF Slots
    <3>2. QED BY <3>1 DEF Occupied
  <2>3. QED BY <2>1, <2>2
<1>3. p.res \in [0 .. p.size - 1 -> S \cup {NullRes}]
  BY <1>1, <1>2
<1>4. QED BY <1>3 DEF IsPool

(* free() of a slot that is free already keeps the types too.              *)
LEMMA FreedTyped ==
  ASSUME NEW R, NEW p, IsPool(p, R), NEW h, h.index \in Slots(p)
  PROVE  IsPool(Freed(p, h), R)
<1> PICK q : q = Freed(p, h)
  OBVIOUS
<1> PICK k : k = h.index
  OBVIOUS
<1>1. /\ p.size \in Nat \ {0} /\ p.res[0] = NullRes
      /\ p.res \in [0 .. p.size - 1 -> R \cup {NullRes}]
      /\ p.gen \in [0 .. p.size - 1 -> Gens]
      /\ p.free \in Seq(Slots(p)) /\ k \in Slots(p)
  BY DEF IsPool
<1>2. q = [size |-> p.size, res |-> [p.res EXCEPT ![k] = NullRes],
           gen |-> p.gen, free |-> Append(p.free, k)]
  BY DEF Freed
<1>3. /\ q.size = p.size /\ q.res = [p.res EXCEPT ![k] = NullRes]
      /\ q.gen = p.gen /\ q.free = Append(p.free, k) /\ Slots(q) = Slots(p)
      /\ q = [size |-> q.size, res |-> q.res, gen |-> q.gen, free |-> q.free]
  BY <1>2 DEF Slots
<1>4. q.res \in [0 .. q.size - 1 -> R \cup {NullRes}] /\ q.res[0] = NullRes
  <2>1. PICK S : S = R \cup {NullRes}
    OBVIOUS
  <2>2. p.res \in [0 .. p.size - 1 -> S] /\ NullRes \in S
    BY <1>1, <2>1
  <2>3. q.res \in [0 .. q.size - 1 -> S]
    BY <1>3, <2>2
  <2>4. k # 0 /\ 0 \in 0 .. p.size - 1
    BY <1>1 DEF Slots
  <2>5. q.res[0] = NullRes
    BY <1>1, <1>3, <2>4
  <2>6. QED BY <2>1, <2>3, <2>5
<1>5. q.free \in Seq(Slots(q))
  <2>1. PICK S : S = Slots(p)
    OBVIOUS
  <2>2. Append(p.free, k) \in Seq(S)
    BY <1>1, <2>1
  <2>3. QED BY <1>3, <2>1, <2>2
<1>6. QED BY <1>1, <1>3, <1>4, <1>5 DEF IsPool

(* What the invariant says of the images includes their types.             *)
LEMMA StateTyped ==
  ASSUME NEW r, NEW c, ImageState(r, c)
  PROVE  ResTyped(r)
<1>1. Sound(r) /\ Small(r)
  BY DEF ImageState
<1>2. IsPool(r.tex, TexRes) /\ IsPool(r.view, ViewRes)
  BY <1>1 DEF Sound, ImageType, PoolOK
<1>3. /\ r.images \subseteq Images /\ r.shown \subseteq Images
      /\ r.images \cup r.shown \subseteq Images /\ DOMAIN r.views \subseteq 1 .. MaxViews
  BY <1>1 DEF Small
<1>4. \A s \in Occupied(r.tex) : r.tex.res[s] \in [image : Images, swap : BOOLEAN]
  <2> SUFFICES ASSUME NEW s \in Occupied(r.tex), NEW x, x = r.tex.res[s]
               PROVE  x \in [image : Images, swap : BOOLEAN]
    OBVIOUS
  <2>1. x \in TexRes /\ x.image \in r.images \cup r.shown
    BY <1>1, HeldImage
  <2>2. QED BY <1>3, <2>1 DEF TexRes
<1>5. \A s \in Occupied(r.view) : r.view.res[s] \in 1 .. MaxViews
  BY <1>1, <1>3 DEF Sound, HeldViews
<1>6. IsPool(r.tex, [image : Images, swap : BOOLEAN])
  <2>1. PICK S : S = [image : Images, swap : BOOLEAN]
    OBVIOUS
  <2>2. IsPool(r.tex, S)
    BY <1>2, <1>4, <2>1, PoolOfLess
  <2>3. QED BY <2>1, <2>2
<1>7. IsPool(r.view, 1 .. MaxViews)
  BY <1>2, <1>5, PoolOfLess
<1>8. \A x \in DOMAIN r.views : r.views[x] \in Images
  <2>1. r.views \in [DOMAIN r.views -> Images \cup r.images \cup r.shown]
    BY <1>1 DEF Sound, ImageType
  <2>2. QED BY <1>3, <2>1
<1>9. QED BY <1>3, <1>6, <1>7, <1>8 DEF ResTyped

(* A fault changes nothing but the faults.                                 *)
SameButFaults(r, q) ==
  /\ q.tex = r.tex /\ q.view = r.view /\ q.images = r.images
  /\ q.shown = r.shown /\ q.views = r.views /\ IsImages(q)

(* Fault records what the driver objects to and leaves the rest.           *)
LEMMA FaultIs ==
  ASSUME NEW r, IsImages(r), NEW b \in BOOLEAN, NEW what, NEW q, q = Fault(r, b, what)
  PROVE  SameButFaults(r, q)
<1>1. CASE ~ b
  BY <1>1 DEF Fault, SameButFaults
<1>2. CASE b
  <2>1. PICK f : f = r.faults \cup {what}
    OBVIOUS
  <2>2. q = [r EXCEPT !.faults = f]
    BY <1>2, <2>1 DEF Fault
  <2>3. QED BY <2>2 DEF IsImages, SameButFaults
<1>3. QED BY <1>1, <1>2

(* VKDestroyTexture(), whatever the handle is of.                          *)
LEMMA DestroyedTyped ==
  ASSUME NEW r, NEW c, ImageState(r, c), NEW h \in Handles, IsAlive(r.tex, h),
         NEW q, q = DestroyTexture(r, h)
  PROVE  ResTyped(q)
<1> PICK i : i = Get(r.tex, h).image
  OBVIOUS
<1> PICK x : x = IF Get(r.tex, h) = NullRes \/ Get(r.tex, h).swap THEN r
                 ELSE destroyImage(r, i)
  OBVIOUS
<1>1. Sound(r) /\ IsImages(r) /\ ResTyped(r)
  BY StateTyped DEF ImageState, Sound, ImageType
<1>2. h.index \in Slots(r.tex)
  BY <1>1, DeadIsFree, SoundPools DEF PoolsOK
<1>3. q = FreeTexture(x, h)
  BY Zenon DEF DestroyTexture
<1>4. /\ x.tex = r.tex /\ x.view = r.view /\ x.images \subseteq r.images
      /\ x.shown = r.shown /\ x.views = r.views /\ IsImages(x)
  <2>1. CASE x = r
    BY <1>1, <2>1
  <2>2. CASE x = destroyImage(r, i)
    <3>1. PICK T : T = r.images \ {i}
      OBVIOUS
    <3>2. PICK y : y = [r EXCEPT !.images = T]
      OBVIOUS
    <3>3. PICK b \in BOOLEAN : b = (i \notin r.images)
      OBVIOUS
    <3>4. x = Fault(y, b, "the allocator does not own the image")
      BY <2>2, <3>1, <3>2, <3>3, Zenon DEF destroyImage
    <3>5. /\ y.tex = r.tex /\ y.view = r.view /\ y.images = T
          /\ y.shown = r.shown /\ y.views = r.views /\ IsImages(y)
      BY <1>1, <3>2 DEF IsImages
    <3>6. SameButFaults(y, x)
      BY <3>4, <3>5, FaultIs
    <3>7. QED BY <3>1, <3>5, <3>6 DEF SameButFaults
  <2>3. QED BY <2>1, <2>2
<1>5. PICK p : p = Freed(r.tex, h)
  OBVIOUS
<1>6. q = [x EXCEPT !.tex = p]
  BY <1>3, <1>4, <1>5 DEF FreeTexture
<1>7. /\ q.tex = p /\ q.view = r.view /\ q.images \subseteq r.images
      /\ q.shown = r.shown /\ q.views = r.views
  BY <1>4, <1>6 DEF IsImages
<1>8. IsPool(p, [image : Images, swap : BOOLEAN])
  <2>1. PICK S : S = [image : Images, swap : BOOLEAN]
    OBVIOUS
  <2>2. IsPool(r.tex, S)
    BY <1>1, <2>1 DEF ResTyped
  <2>3. IsPool(p, S)
    BY <1>2, <1>5, <2>2, FreedTyped
  <2>4. QED BY <2>1, <2>3
<1>9. QED BY <1>1, <1>7, <1>8 DEF ResTyped

(* VKDestroyTextureView(), likewise.                                       *)
LEMMA DestroyedViewTyped ==
  ASSUME NEW r, NEW c, ImageState(r, c), NEW h \in Handles, IsAlive(r.view, h),
         NEW q, q = DestroyTextureView(r, h)
  PROVE  ResTyped(q)
<1> PICK S : S = {Get(r.view, h)} \ {NullRes}
  OBVIOUS
<1> PICK x : x = DestroyVkImageViews(r, S)
  OBVIOUS
<1>1. Sound(r) /\ IsImages(r) /\ ResTyped(r)
  BY StateTyped DEF ImageState, Sound, ImageType
<1>2. h.index \in Slots(r.view)
  BY <1>1, DeadIsFree, SoundPools DEF PoolsOK
<1>3. PICK w : w = [y \in DOMAIN r.views \ S |-> r.views[y]]
  OBVIOUS
<1>4. PICK z : z = [r EXCEPT !.views = w]
  OBVIOUS
<1>5. PICK b \in BOOLEAN : b = (~ S \subseteq DOMAIN r.views)
  OBVIOUS
<1>6. x = Fault(z, b, "destroyed an image view twice")
  BY <1>3, <1>4, <1>5, Zenon DEF DestroyVkImageViews
<1>7. /\ z.tex = r.tex /\ z.view = r.view /\ z.images = r.images
      /\ z.shown = r.shown /\ z.views = w /\ IsImages(z)
  BY <1>1, <1>4 DEF IsImages
<1>8. /\ x.tex = r.tex /\ x.view = r.view /\ x.images = r.images
      /\ x.shown = r.shown /\ x.views = w /\ IsImages(x)
  <2>1. SameButFaults(z, x)
    BY <1>6, <1>7, FaultIs
  <2>2. QED BY <1>7, <2>1 DEF SameButFaults
<1>9. PICK p : p = Freed(r.view, h)
  OBVIOUS
<1>10. q = [x EXCEPT !.view = Freed(@, h)]
  BY Zenon DEF DestroyTextureView
<1>11. q = [x EXCEPT !.view = p]
  BY <1>8, <1>9, <1>10
<1>12. /\ q.tex = r.tex /\ q.view = p /\ q.images = r.images
       /\ q.shown = r.shown /\ q.views = w
  BY <1>8, <1>11 DEF IsImages
<1>13. IsPool(p, 1 .. MaxViews)
  BY <1>1, <1>2, <1>9, FreedTyped DEF ResTyped
<1>14. \A y \in DOMAIN w : y \in 1 .. MaxViews /\ w[y] \in Images
  BY <1>1, <1>3 DEF ResTyped
<1>15. QED BY <1>1, <1>12, <1>13, <1>14 DEF ResTyped

(* VKCreateTextureView() of a texture whose slot is free makes nothing.    *)
LEMMA NoViewTyped ==
  ASSUME NEW r, NEW c, ImageState(r, c), NEW h \in Handles, IsFree(r.tex, h),
         NEW ok \in BOOLEAN, NEW d, d = CreateTextureView(r, h, ok)
  PROVE  ResTyped(d.res) /\ d.handle \in Handles
<1>1. Sound(r) /\ IsImages(r) /\ ResTyped(r) /\ PoolOK(r.tex, TexRes)
  BY StateTyped, SoundPools DEF ImageState, Sound, ImageType
<1>2. IsAlive(r.tex, h) /\ Get(r.tex, h) = NullRes
  <2>1. IsAlive(r.tex, h) /\ \E i \in DOMAIN r.tex.free : r.tex.free[i] = h.index
    BY DEF IsFree
  <2>2. h.index \in Slots(r.tex) /\ DOMAIN r.tex.free = 1 .. Len(r.tex.free)
    BY <1>1, <2>1, DeadIsFree DEF PoolOK, IsPool
  <2>3. QED BY <1>1, <2>1, <2>2 DEF PoolOK, FreeListExact, Get
<1>3. PICK yes \in BOOLEAN : yes = TRUE
  OBVIOUS
<1>4. PICK f : f = Fault(r, yes, "view of no image")
  OBVIOUS
<1>5. ResTyped(f)
  <2>1. SameButFaults(r, f)
    BY <1>1, <1>4, FaultIs
  <2>2. QED BY <1>1, <2>1 DEF ResTyped, SameButFaults
<1>6. d = [res |-> r, handle |-> InvalidHandle] \/ d = [res |-> f, handle |-> InvalidHandle]
  BY <1>2, <1>3, <1>4, CreateTextureViewIs, Zenon
<1>7. QED BY <1>1, <1>5, <1>6, InvalidNamesNothing

-----------------------------------------------------------------------------
(* Samplers.                                                               *)

(* The bounds are numbers, and a sampler is not null.                      *)
LEMMA SamplerBounds ==
  /\ MaxSamplers \in Nat /\ Sessions \in Nat \ {0} /\ GenMod \in Nat /\ GenMod > 1
  /\ MaxSamplerGen \in Nat /\ MaxSamplerGen >= 1 /\ MaxSamplerGen < GenMod
  /\ \A x \in 1 .. MaxSamplers : x # NullRes
BY TexturesAssumption, GenModAssumption

(* The next generation of a slot, when it is within the bound.             *)
LEMMA NextSamplerGen ==
  ASSUME NEW g \in 1 .. MaxSamplerGen, (g + 1) % GenMod \in 1 .. MaxSamplerGen
  PROVE  (g + 1) % GenMod = g + 1
<1>1. g + 1 \in Int /\ g + 1 <= GenMod /\ g + 1 > 0 /\ GenMod > 0 /\ GenMod \in Int
  BY SamplerBounds
<1>2. ASSUME NEW a \in Int, NEW m \in Int, m > 0, a > 0, a <= m
      PROVE  IF a = m THEN a % m = 0 ELSE a % m = a
  BY <1>2
<1>3. QED BY <1>1, <1>2

(* allocate() on such a pool: a new slot, or one of a higher generation.   *)
LEMMA SamplerAllocated ==
  ASSUME NEW p, SamplerPool(p), NEW x \in 1 .. MaxSamplers, NEW q, q = Allocated(p, x),
         NEW h, h = NewHandle(p), h.gen \in 1 .. MaxSamplerGen
  PROVE  /\ SamplerPool(q) /\ h \in Handles
         /\ h.index \in Slots(q) \ Occupied(p)
         /\ Occupied(q) = Occupied(p) \cup {h.index}
         /\ q.res[h.index] = x /\ q.gen[h.index] = h.gen
         /\ p.size <= q.size
         /\ \A s \in Slots(p) : /\ s # h.index => q.res[s] = p.res[s]
                                /\ q.gen[s] >= p.gen[s]
                                /\ s # h.index => q.gen[s] = p.gen[s]
                                /\ s = h.index => q.gen[s] > p.gen[s]
<1>1. /\ p.size \in Nat \ {0}
      /\ p.res \in [0 .. p.size - 1 -> (1 .. MaxSamplers) \cup {NullRes}] /\ p.res[0] = NullRes
      /\ p.gen \in [0 .. p.size - 1 -> Gens]
      /\ p.free \in Seq(Slots(p)) /\ Len(p.free) \in Nat
      /\ \A s \in Slots(p) : p.gen[s] \in 1 .. MaxSamplerGen
      /\ \A i, j \in 1 .. Len(p.free) : p.free[i] = p.free[j] => i = j
      /\ \A i \in 1 .. Len(p.free) : p.res[p.free[i]] = NullRes
  BY DEF SamplerPool, IsPool, Young
<1>2. x # NullRes /\ Gens = 0 .. GenMod - 1 /\ GenMod \in Nat /\ GenMod > 1
  BY SamplerBounds DEF Gens
<1>3. CASE p.free = <<>>
  <2>1. /\ q = [size |-> q.size, res |-> q.res, gen |-> q.gen, free |-> q.free]
        /\ q.size = p.size + 1 /\ q.free = <<>>
        /\ q.res = [i \in 0 .. p.size |-> IF i = p.size THEN x ELSE p.res[i]]
        /\ q.gen = [i \in 0 .. p.size |-> IF i = p.size THEN 1 ELSE p.gen[i]]
    BY <1>3 DEF Allocated
  <2>2. h.index = p.size /\ h.gen = 1 /\ h = [index |-> p.size, gen |-> 1]
    BY <1>3 DEF NewHandle
  <2>3. Slots(q) = 1 .. p.size /\ Slots(p) = 1 .. p.size - 1
    BY <1>1, <2>1 DEF Slots
  <2>4. IsPool(q, 1 .. MaxSamplers)
    <3>1. q.res \in [0 .. q.size - 1 -> (1 .. MaxSamplers) \cup {NullRes}] /\ q.res[0] = NullRes
      BY <1>1, <2>1
    <3>2. q.gen \in [0 .. q.size - 1 -> Gens]
      BY <1>1, <1>2, <2>1
    <3>3. q.free \in Seq(Slots(q)) /\ q.size \in Nat \ {0}
      BY <1>1, <2>1
    <3>4. QED BY <2>1, <3>1, <3>2, <3>3 DEF IsPool
  <2>5. \A s \in Slots(p) : q.res[s] = p.res[s] /\ q.gen[s] = p.gen[s] /\ s # p.size
    BY <1>1, <2>1, <2>3
  <2>6. q.res[p.size] = x /\ q.gen[p.size] = 1
    BY <1>1, <2>1
  <2>7. Young(q, MaxSamplerGen)
    <3> SUFFICES ASSUME NEW s \in Slots(q) PROVE q.gen[s] \in 1 .. MaxSamplerGen
      BY DEF Young
    <3>1. CASE s = p.size
      BY <2>6, <3>1, SamplerBounds
    <3>2. CASE s \in Slots(p)
      BY <1>1, <2>5, <3>2
    <3>3. QED BY <1>1, <2>3, <3>1, <3>2
  <2>8. SamplerPool(q)
    BY <2>1, <2>4, <2>7 DEF SamplerPool
  <2>9. Occupied(q) = Occupied(p) \cup {p.size}
    <3>1. Slots(q) = Slots(p) \cup {p.size}
      BY <1>1, <2>3
    <3>2. QED BY <1>2, <2>5, <2>6, <3>1 DEF Occupied
  <2>10. h \in Handles
    <3>1. p.size \in Nat /\ 1 \in Gens /\ p.size # 0
      BY <1>1, <1>2
    <3>2. QED BY <2>2, <3>1 DEF Handles
  <2>11. \A s \in Slots(p) : p.gen[s] \in Int
    BY <1>1
  <2>12. h.index \in Slots(q) \ Occupied(p)
    BY <1>1, <2>2, <2>3 DEF Occupied
  <2>13. ASSUME NEW s \in Slots(p)
         PROVE  /\ q.res[s] = p.res[s] /\ q.gen[s] >= p.gen[s]
                /\ q.gen[s] = p.gen[s] /\ s # h.index
    BY <2>2, <2>5, <2>11
  <2>14. p.size <= q.size /\ q.res[h.index] = x /\ q.gen[h.index] = h.gen
    BY <1>1, <2>1, <2>2, <2>6
  <2>15. QED BY <2>2, <2>8, <2>9, <2>10, <2>12, <2>13, <2>14
<1>4. CASE p.free # <<>>
  <2> PICK t : t = PoppedSlot(p)
    OBVIOUS
  <2> PICK n \in Nat : n = Len(p.free)
    BY <1>1
  <2>1. n > 0 /\ t = p.free[n] /\ t \in Slots(p) /\ p.res[t] = NullRes
    <3>1. n > 0
      BY <1>1, <1>4
    <3>2. n \in 1 .. Len(p.free) /\ t = p.free[n]
      BY <3>1 DEF PoppedSlot
    <3>3. t \in Slots(p)
      BY <1>1, <3>2
    <3>4. QED BY <1>1, <3>1, <3>2, <3>3
  <2>2. /\ h = [index |-> t, gen |-> (p.gen[t] + 1) % GenMod]
        /\ h.index = t /\ h.gen = (p.gen[t] + 1) % GenMod
    BY <1>4 DEF NewHandle
  <2>3. p.gen[t] \in 1 .. MaxSamplerGen /\ h.gen = p.gen[t] + 1
    BY <1>1, <2>1, <2>2, NextSamplerGen
  <2>4. /\ q = [size |-> q.size, res |-> q.res, gen |-> q.gen, free |-> q.free]
        /\ q.size = p.size /\ q.free = SubSeq(p.free, 1, n - 1)
        /\ q.res = [p.res EXCEPT ![t] = x]
        /\ q.gen = [p.gen EXCEPT ![t] = (p.gen[t] + 1) % GenMod]
    BY <1>4 DEF Allocated
  <2>5. Slots(q) = Slots(p) /\ Slots(p) = 1 .. p.size - 1
    BY <2>4 DEF Slots
  <2>6. /\ q.res[t] = x /\ q.gen[t] = h.gen
        /\ \A s \in Slots(p) : s # t => q.res[s] = p.res[s] /\ q.gen[s] = p.gen[s]
    BY <1>1, <2>1, <2>2, <2>4, <2>5, SMTT(30)
  <2>7. /\ q.free \in Seq(Slots(q)) /\ Len(q.free) = n - 1
        /\ \A i \in 1 .. n - 1 : q.free[i] = p.free[i]
    <3>1. n - 1 \in 0 .. n /\ p.free \in Seq(Slots(p)) /\ n = Len(p.free)
      BY <1>1, <2>1
    <3>2. q.free = SubSeq(p.free, 1, n - 1) /\ Slots(q) = Slots(p)
      BY <2>4, <2>5
    <3>3. QED BY <3>1, <3>2
  <2>8. IsPool(q, 1 .. MaxSamplers)
    <3>1. q.res \in [0 .. q.size - 1 -> (1 .. MaxSamplers) \cup {NullRes}] /\ q.res[0] = NullRes
      BY <1>1, <2>1, <2>4, <2>5
    <3>2. h.gen \in Gens
        BY <1>2, SamplerBounds DEF Gens
    <3>3. q.gen \in [0 .. q.size - 1 -> Gens]
      BY <1>1, <2>2, <2>4, <3>2, ZenonT(60)
    <3>4. QED BY <1>1, <2>4, <2>7, <3>1, <3>3 DEF IsPool
  <2>9. Young(q, MaxSamplerGen)
    BY <1>1, <2>5, <2>6 DEF Young
  <2>10. SamplerPool(q)
    <3>1. ASSUME NEW i \in 1 .. Len(q.free), NEW j \in 1 .. Len(q.free), q.free[i] = q.free[j]
          PROVE  i = j
      <4>1. i \in 1 .. n - 1 /\ j \in 1 .. n - 1 /\ i \in 1 .. n /\ j \in 1 .. n
        BY <2>7
      <4>2. p.free[i] = p.free[j]
        BY <2>7, <3>1, <4>1
      <4>3. QED BY <1>1, <4>1, <4>2
    <3>2. ASSUME NEW i \in 1 .. Len(q.free) PROVE q.res[q.free[i]] = NullRes
      <4>1. i \in 1 .. n /\ i # n /\ q.free[i] = p.free[i] /\ n \in 1 .. n
        <5>1. i \in 1 .. n - 1 /\ n \in Nat
          BY <2>7
        <5>2. q.free[i] = p.free[i]
          BY <2>7, <5>1
        <5>3. QED BY <5>1, <5>2
      <4>2. p.free[i] # t /\ p.res[p.free[i]] = NullRes /\ p.free[i] \in Slots(p)
        BY <1>1, <2>1, <4>1
      <4>3. QED BY <2>6, <4>1, <4>2
    <3>3. QED BY <2>8, <2>9, <3>1, <3>2 DEF SamplerPool
  <2>11. Occupied(q) = Occupied(p) \cup {t} /\ t \notin Occupied(p)
    BY <1>2, <2>1, <2>5, <2>6 DEF Occupied
  <2>12. h \in Handles
    BY <1>2, <2>1, <2>2, <2>3, <2>5, SamplerBounds DEF Handles, Gens
  <2>13. ASSUME NEW s \in Slots(p)
         PROVE  /\ s # t => q.res[s] = p.res[s]
                /\ q.gen[s] >= p.gen[s]
                /\ s # t => q.gen[s] = p.gen[s]
                /\ s = t => q.gen[s] > p.gen[s]
    <3>1. p.gen[s] \in 1 .. MaxSamplerGen /\ MaxSamplerGen \in Nat
      BY <1>1, SamplerBounds
    <3>2. QED BY <2>3, <2>6, <3>1
  <2>14. p.size <= q.size /\ h.index \in Slots(q) \ Occupied(p)
    BY <1>1, <2>1, <2>2, <2>4, <2>5, <2>11
  <2>15. QED BY <2>2, <2>6, <2>10, <2>11, <2>12, <2>13, <2>14
<1>5. QED BY <1>3, <1>4

(* free() of a slot that is not on the free list; it may be null already.  *)
LEMMA SamplerFreed ==
  ASSUME NEW p, SamplerPool(p), NEW h \in Handles, IsAlive(p, h), ~ IsFree(p, h),
         NEW q, q = Freed(p, h)
  PROVE  /\ SamplerPool(q) /\ q.size = p.size /\ q.gen = p.gen
         /\ h.index \in Slots(p)
         /\ Occupied(q) = Occupied(p) \ {h.index}
         /\ \A s \in Occupied(q) : q.res[s] = p.res[s]
<1>1. /\ p.size \in Nat \ {0}
      /\ p.res \in [0 .. p.size - 1 -> (1 .. MaxSamplers) \cup {NullRes}] /\ p.res[0] = NullRes
      /\ p.gen \in [0 .. p.size - 1 -> Gens]
      /\ p.free \in Seq(Slots(p)) /\ Len(p.free) \in Nat
      /\ \A s \in Slots(p) : p.gen[s] \in 1 .. MaxSamplerGen
      /\ \A i, j \in 1 .. Len(p.free) : p.free[i] = p.free[j] => i = j
      /\ \A i \in 1 .. Len(p.free) : p.res[p.free[i]] = NullRes
  BY DEF SamplerPool, IsPool, Young
<1> PICK t : t = h.index
  OBVIOUS
<1>2. t \in Slots(p)
  <2>1. h \in [index : Nat, gen : Gens] /\ (h.index = 0 => h.gen = 0)
    BY DEF Handles
  <2>2. h = [index |-> h.index, gen |-> h.gen] /\ h.index \in Nat
    BY <2>1
  <2>3. QED BY <1>1, <2>1, <2>2 DEF IsAlive, isValid, InvalidHandle, Slots
<1>3. /\ q = [size |-> q.size, res |-> q.res, gen |-> q.gen, free |-> q.free]
      /\ q.size = p.size /\ q.gen = p.gen
      /\ q.res = [p.res EXCEPT ![t] = NullRes] /\ q.free = Append(p.free, t)
  BY DEF Freed
<1>4. Slots(q) = Slots(p) /\ Slots(p) = 1 .. p.size - 1
  BY <1>3 DEF Slots
<1>5. /\ q.res[t] = NullRes
      /\ \A s \in 0 .. p.size - 1 : s # t => q.res[s] = p.res[s]
  BY <1>1, <1>2, <1>3, <1>4
<1> PICK n \in Nat : n = Len(p.free)
  BY <1>1
<1>6. /\ q.free \in Seq(Slots(q)) /\ Len(q.free) = n + 1 /\ q.free[n + 1] = t
      /\ \A i \in 1 .. n : q.free[i] = p.free[i] /\ p.free[i] \in Slots(p)
  BY <1>1, <1>2, <1>3, <1>4, SMTT(30)
<1>7. \A i \in 1 .. n : p.free[i] # t
  BY <1>1 DEF IsFree
<1>8. IsPool(q, 1 .. MaxSamplers)
  <2>1. q.res \in [0 .. q.size - 1 -> (1 .. MaxSamplers) \cup {NullRes}] /\ q.res[0] = NullRes
    BY <1>1, <1>2, <1>3, <1>4
  <2>2. QED BY <1>1, <1>3, <1>6, <2>1 DEF IsPool
<1>9. SamplerPool(q)
  <2>1. ASSUME NEW i \in 1 .. n + 1, NEW j \in 1 .. n + 1, q.free[i] = q.free[j]
        PROVE  i = j
    <3>1. CASE i \in 1 .. n /\ j \in 1 .. n
      BY <1>1, <1>6, <2>1, <3>1
    <3>2. CASE i = n + 1 /\ j \in 1 .. n
      BY <1>6, <1>7, <2>1, <3>2
    <3>3. CASE i \in 1 .. n /\ j = n + 1
      BY <1>6, <1>7, <2>1, <3>3
    <3>4. QED BY <3>1, <3>2, <3>3
  <2>2. ASSUME NEW i \in 1 .. n + 1 PROVE q.res[q.free[i]] = NullRes
    <3>1. CASE i = n + 1
      BY <1>5, <1>6, <3>1
    <3>2. CASE i \in 1 .. n
      <4>1. p.free[i] \in 0 .. p.size - 1 /\ p.free[i] # t /\ q.free[i] = p.free[i]
        BY <1>1, <1>4, <1>6, <1>7, <3>2
      <4>2. p.res[p.free[i]] = NullRes
        BY <1>1, <3>2
      <4>3. QED BY <1>5, <4>1, <4>2
    <3>3. QED BY <3>1, <3>2
  <2>3. Young(q, MaxSamplerGen)
    BY <1>1, <1>3, <1>4 DEF Young
  <2>4. QED BY <1>6, <1>8, <2>1, <2>2, <2>3 DEF SamplerPool
<1>10. Occupied(q) = Occupied(p) \ {t} /\ \A s \in Occupied(q) : q.res[s] = p.res[s]
  BY <1>4, <1>5 DEF Occupied
<1>11. QED BY <1>2, <1>3, <1>9, <1>10

(* Nothing of the samplers changes.                                        *)
LEMMA SamplersUntouched ==
  ASSUME SamplerInv, ~ misused, UNCHANGED <<session, samplerVars>>
  PROVE  SamplerInv'
<1>1. samPool' = samPool /\ samplers' = samplers /\ sam' = sam /\ session' = session
  BY DEF samplerVars
<1>2. SamplerPool(samPool)' /\ SamplerHandles'
  BY <1>1 DEF SamplerInv, SamplerPool, SamplerHandles
<1>3. OldSamplersDead'
  BY <1>1 DEF SamplerInv, OldSamplersDead
<1>4. QED BY <1>2, <1>3 DEF SamplerInv

(* What the invariant says of a handle, and of the objects.                *)
LEMMA SamplerFacts ==
  ASSUME SamplerInv, ~ misused
  PROVE  /\ samPool.size \in Nat \ {0} /\ samPool.res \in [0 .. samPool.size - 1 -> (1 .. MaxSamplers) \cup {NullRes}]
         /\ \A s \in Slots(samPool) : samPool.gen[s] \in 1 .. MaxSamplerGen
         /\ session \in 1 .. Sessions
         /\ sam \in [SamVars -> [handle : Handles, session : 1 .. Sessions]]
         /\ \A v \in SamVars :
              /\ sam[v].handle \in Handles /\ sam[v].session \in 1 .. Sessions
              /\ sam[v].session <= session
              /\ sam[v].handle.index \in 0 .. samPool.size - 1
              /\ sam[v].handle.gen \in Nat
              /\ sam[v].handle.index = 0 => sam[v].handle = InvalidHandle
              /\ sam[v].handle.index # 0 =>
                   sam[v].handle.gen <= samPool.gen[sam[v].handle.index]
              /\ sam[v].session # session => ~ Names(samPool, sam[v].handle)
         /\ NoSharing(samPool)
         /\ samplers = {samPool.res[i] : i \in Occupied(samPool)}
<1>1. /\ samPool.size \in Nat \ {0} /\ samPool.res \in [0 .. samPool.size - 1 -> (1 .. MaxSamplers) \cup {NullRes}]
      /\ \A s \in Slots(samPool) : samPool.gen[s] \in 1 .. MaxSamplerGen
  BY DEF SamplerInv, SamplerPool, IsPool, Young
<1>2. /\ NoSharing(samPool) /\ samplers = {samPool.res[i] : i \in Occupied(samPool)}
      /\ \A v \in SamVars : sam[v].session # session => ~ Names(samPool, sam[v].handle)
  BY DEF SamplerInv, OldSamplersDead
<1>3. /\ session \in 1 .. Sessions
      /\ sam \in [SamVars -> [handle : Handles, session : 1 .. Sessions]]
  BY DEF SamplerInv, SamplerHandles
<1>4. ASSUME NEW v \in SamVars
      PROVE  /\ sam[v].handle \in Handles /\ sam[v].session \in 1 .. Sessions
             /\ sam[v].session <= session
             /\ sam[v].handle.index \in 0 .. samPool.size - 1
             /\ sam[v].handle.gen \in Nat
             /\ sam[v].handle.index = 0 => sam[v].handle = InvalidHandle
             /\ sam[v].handle.index # 0 =>
                  sam[v].handle.gen <= samPool.gen[sam[v].handle.index]
  <2> PICK h : h = sam[v].handle
    OBVIOUS
  <2>1. /\ sam[v].session <= session /\ h.index < samPool.size
        /\ h.index # 0 => h.gen <= samPool.gen[h.index]
    BY DEF SamplerInv, SamplerHandles
  <2>2. h \in Handles /\ sam[v].session \in 1 .. Sessions
    BY <1>3
  <2>3. h \in [index : Nat, gen : Gens] /\ (h.index = 0 => h.gen = 0)
    BY <2>2 DEF Handles
  <2>4. h = [index |-> h.index, gen |-> h.gen] /\ h.index \in Nat /\ h.gen \in Nat
    BY <2>3, GenModAssumption DEF Gens
  <2>5. h.index = 0 => h = InvalidHandle
    BY <2>3, <2>4 DEF InvalidHandle
  <2>6. h.index \in 0 .. samPool.size - 1
    BY <1>1, <2>1, <2>4
  <2>7. QED BY <2>1, <2>2, <2>4, <2>5, <2>6
<1>5. QED BY <1>1, <1>2, <1>3, <1>4

(* VKCreateSampler(): no handle names the slot before it is returned.      *)
LEMMA CreateSamplerStep ==
  ASSUME SamplerInv, ~ misused, NEW v \in SamVars, VKCreateSampler(v),
         session' = session
  PROVE  SamplerInv'
<1> PICK x : x = NextSampler
  OBVIOUS
<1> PICK p : p = samPool
  OBVIOUS
<1> PICK h : h = NewHandle(samPool)
  OBVIOUS
<1>1. /\ h.gen \in 1 .. MaxSamplerGen /\ samplers' = samplers \cup {x}
      /\ samPool' = Allocated(p, x) /\ misused' = misused
      /\ sam' = [sam EXCEPT ![v] = [handle |-> h, session |-> session]]
      /\ Cardinality(samplers) < MaxSamplers
  BY DEF VKCreateSampler
<1>2. SamplerPool(p) /\ h = NewHandle(p)
  BY DEF SamplerInv
<1>3. x \in 1 .. MaxSamplers /\ x \notin samplers
  <2>1. samplers \subseteq 1 .. MaxSamplers
    BY SamplerFacts DEF Occupied, Slots
  <2>2. IsFiniteSet(1 .. MaxSamplers)
    <3>1. 1 \in Int /\ MaxSamplers \in Int
      BY SamplerBounds
    <3>2. QED BY <3>1, FS_Interval
  <2>3. IsFiniteSet(samplers)
    BY <2>1, <2>2, FS_Subset
  <2>4. x \in 1 .. Cardinality(samplers) + 1 /\ x \notin samplers /\ Cardinality(samplers) \in Nat
    BY <2>3, LeastFreeIs, FS_CardinalityType DEF NextSampler
  <2>5. QED BY <1>1, <2>4, SamplerBounds
<1> PICK q : q = samPool'
  OBVIOUS
<1>4. /\ SamplerPool(q) /\ h \in Handles
      /\ h.index \in Slots(q) \ Occupied(p)
      /\ Occupied(q) = Occupied(p) \cup {h.index}
      /\ q.res[h.index] = x /\ q.gen[h.index] = h.gen
      /\ p.size <= q.size
      /\ \A s \in Slots(p) : /\ s # h.index => q.res[s] = p.res[s]
                             /\ q.gen[s] >= p.gen[s]
                             /\ s # h.index => q.gen[s] = p.gen[s]
                             /\ s = h.index => q.gen[s] > p.gen[s]
  BY <1>1, <1>2, <1>3, SamplerAllocated
<1>5. q.size \in Nat /\ Slots(q) = 1 .. q.size - 1 /\ Slots(p) = 1 .. p.size - 1
  BY <1>4 DEF SamplerPool, IsPool, Slots
<1>6. sam' \in [SamVars -> [handle : Handles, session : 1 .. Sessions]]
  BY <1>1, <1>4, SamplerFacts
<1>7. ASSUME NEW w \in SamVars
      PROVE  /\ sam'[w].session <= session
             /\ sam'[w].handle.index < q.size
             /\ sam'[w].handle.index # 0 => sam'[w].handle.gen <= q.gen[sam'[w].handle.index]
             /\ sam'[w].session # session => ~ Names(q, sam'[w].handle)
  <2>1. CASE w = v
    <3>1. sam'[w].session = session /\ sam'[w].handle = h
      BY <1>1, <2>1, SamplerFacts
    <3>2. session \in Nat /\ h.gen \in Nat
      BY <1>1, SamplerFacts
    <3>3. QED BY <1>4, <1>5, <3>1, <3>2
  <2>2. CASE w # v
    <3> PICK k : k = sam[w].handle
      OBVIOUS
    <3>1. sam'[w] = sam[w]
      BY <1>1, <2>2, SamplerFacts
    <3>2. /\ sam[w].session <= session
          /\ k.index \in 0 .. p.size - 1 /\ k.gen \in Nat /\ p.size \in Nat
          /\ k.index = 0 => k = InvalidHandle
          /\ k.index # 0 => k.gen <= p.gen[k.index]
          /\ sam[w].session # session => ~ Names(p, k)
      BY SamplerFacts
    <3>3. k.index < q.size
      BY <1>4, <1>5, <3>2
    <3>4. CASE k.index = 0
      BY <3>1, <3>2, <3>3, <3>4 DEF Names, IsAlive, isValid
    <3>5. CASE k.index # 0
      <4>1. k.index \in Slots(p) /\ p.gen[k.index] \in Nat
        BY <1>5, <3>2, <3>5, SamplerFacts
      <4>2. q.gen[k.index] >= p.gen[k.index] /\ q.gen[k.index] \in Nat
        <5>1. q.gen[k.index] \in 1 .. MaxSamplerGen
          BY <1>4, <1>5, <3>3, <4>1 DEF SamplerPool, Young
        <5>2. QED BY <1>4, <4>1, <5>1
      <4>3. k.gen <= q.gen[k.index]
        BY <3>2, <3>5, <4>1, <4>2
      <4>4. ASSUME sam[w].session # session PROVE ~ Names(q, k)
        <5>1. CASE k.index = h.index
          <6>1. q.gen[k.index] # k.gen
            BY <1>4, <3>2, <3>5, <4>1, <4>2, <5>1
          <6>2. QED BY <6>1 DEF Names, IsAlive
        <5>2. CASE k.index # h.index
          <6>1. q.res[k.index] = p.res[k.index] /\ q.gen[k.index] = p.gen[k.index]
            BY <1>4, <4>1, <5>2
          <6>2. k.index < p.size
            BY <3>2
          <6>3. QED BY <3>2, <4>4, <6>1, <6>2 DEF Names, IsAlive, Get
        <5>3. QED BY <5>1, <5>2
      <4>5. QED BY <3>1, <3>2, <3>3, <4>3, <4>4
    <3>6. QED BY <3>4, <3>5
  <2>3. QED BY <2>1, <2>2
<1>8. samplers' = {q.res[i] : i \in Occupied(q)} /\ NoSharing(q)
  <2>1. \A i \in Occupied(p) : q.res[i] = p.res[i] /\ p.res[i] \in samplers
    BY <1>4, SamplerFacts DEF Occupied
  <2>2. samplers = {p.res[i] : i \in Occupied(p)} /\ NoSharing(p)
    BY SamplerFacts
  <2>3. samplers' = {q.res[i] : i \in Occupied(q)}
    BY <1>1, <1>4, <2>1, <2>2
  <2>4. NoSharing(q)
    BY <1>3, <1>4, <2>1, <2>2 DEF NoSharing
  <2>5. QED BY <2>3, <2>4
<1>9. SamplerHandles'
  BY <1>6, <1>7, SamplerFacts DEF SamplerHandles
<1>10. OldSamplersDead'
  BY <1>7, <1>8 DEF OldSamplersDead
<1>11. QED BY <1>4, <1>9, <1>10 DEF SamplerInv

(* A variable takes an invalid handle of this session, or another's.       *)
LEMMA SamplerVariableStep ==
  ASSUME SamplerInv, ~ misused, NEW v \in SamVars, NEW x,
         sam' = [sam EXCEPT ![v] = x],
         \/ x = [handle |-> InvalidHandle, session |-> session]
         \/ x = [sam[v] EXCEPT !.handle = InvalidHandle]
         \/ \E w \in SamVars : x = sam[w],
         session' = session, samPool' = samPool, samplers' = samplers
  PROVE  SamplerInv'
<1>1. /\ InvalidHandle \in Handles /\ InvalidHandle.index = 0
      /\ ~ Names(samPool, InvalidHandle)
  BY SamplerBounds DEF Handles, InvalidHandle, Gens, Names, IsAlive, isValid
<1>2. /\ x \in [handle : Handles, session : 1 .. Sessions]
      /\ x.session <= session /\ x.handle.index < samPool.size
      /\ x.handle.index # 0 => x.handle.gen <= samPool.gen[x.handle.index]
      /\ x.session # session => ~ Names(samPool, x.handle)
  <2>1. CASE x = [handle |-> InvalidHandle, session |-> session]
    BY <1>1, <2>1, SamplerFacts
  <2>2. CASE x = [sam[v] EXCEPT !.handle = InvalidHandle]
    <3>1. sam[v] \in [handle : Handles, session : 1 .. Sessions] /\ sam[v].session <= session
      BY SamplerFacts
    <3>2. x.handle = InvalidHandle /\ x.session = sam[v].session
          /\ x \in [handle : Handles, session : 1 .. Sessions]
      BY <1>1, <2>2, <3>1
    <3>3. 0 < samPool.size
      BY SamplerFacts
    <3>4. QED BY <1>1, <3>1, <3>2, <3>3
  <2>3. CASE \E w \in SamVars : x = sam[w]
    <3>1. PICK w \in SamVars : x = sam[w]
      BY <2>3
    <3>2. x \in [handle : Handles, session : 1 .. Sessions]
      BY <3>1, SamplerFacts
    <3>3. x.handle.index \in 0 .. samPool.size - 1 /\ samPool.size \in Nat
      BY <3>1, SamplerFacts
    <3>4. QED BY <3>1, <3>2, <3>3, SamplerFacts
  <2>4. QED BY <2>1, <2>2, <2>3
<1>3. ASSUME NEW w \in SamVars
      PROVE  /\ sam'[w].session <= session
             /\ sam'[w].handle.index < samPool.size
             /\ sam'[w].handle.index # 0 =>
                  sam'[w].handle.gen <= samPool.gen[sam'[w].handle.index]
             /\ sam'[w].session # session => ~ Names(samPool, sam'[w].handle)
  <2>1. CASE w = v
    BY <1>2, <2>1, SamplerFacts
  <2>2. CASE w # v
    <3>1. sam'[w] = sam[w]
      BY <2>2, SamplerFacts
    <3>2. sam[w].handle.index \in 0 .. samPool.size - 1 /\ samPool.size \in Nat
      BY SamplerFacts
    <3>3. QED BY <3>1, <3>2, SamplerFacts
  <2>3. QED BY <2>1, <2>2
<1>4. SamplerHandles'
  BY <1>2, <1>3, SamplerFacts DEF SamplerHandles
<1>5. OldSamplersDead'
  BY <1>3, SamplerFacts DEF OldSamplersDead
<1>6. QED BY <1>4, <1>5 DEF SamplerInv

(* VKDestroySampler() of a handle that is not on the free list already.    *)
LEMMA DestroySamplerStep ==
  ASSUME SamplerInv, ~ misused, NEW v \in SamVars, VKDestroySampler(v),
         session' = session, ~ misused'
  PROVE  SamplerInv'
<1> PICK h : h = sam[v].handle
  OBVIOUS
<1> PICK p : p = samPool
  OBVIOUS
<1> PICK q : q = samPool'
  OBVIOUS
<1>1. /\ IsAlive(p, h) /\ ~ IsFree(p, h) /\ q = Freed(p, h)
      /\ samplers' = samplers \ {Get(p, h)}
      /\ sam' = [sam EXCEPT ![v].handle = InvalidHandle]
  BY DEF VKDestroySampler
<1>2. /\ SamplerPool(q) /\ q.size = p.size /\ q.gen = p.gen
      /\ h.index \in Slots(p)
      /\ Occupied(q) = Occupied(p) \ {h.index}
      /\ \A s \in Occupied(q) : q.res[s] = p.res[s]
  <2>1. SamplerPool(p) /\ h \in Handles
    BY SamplerFacts DEF SamplerInv
  <2>2. QED BY <1>1, <2>1, SamplerFreed
<1>3. NoSharing(q) /\ samplers' = {q.res[i] : i \in Occupied(q)}
  <2>1. NoSharing(p) /\ samplers = {p.res[i] : i \in Occupied(p)}
    BY SamplerFacts
  <2>2. NoSharing(q)
    BY <1>2, <2>1 DEF NoSharing
  <2>3. Get(p, h) = p.res[h.index]
    BY DEF Get
  <2>4. ASSUME NEW i \in Occupied(p) PROVE p.res[i] = Get(p, h) <=> i = h.index
    BY <1>2, <2>1, <2>3, <2>4 DEF NoSharing, Occupied
  <2>5. samplers' = {q.res[i] : i \in Occupied(q)}
    BY <1>1, <1>2, <2>1, <2>4
  <2>6. QED BY <2>2, <2>5
<1>4. \A k \in Handles : k.index \in 0 .. p.size - 1 /\ Names(q, k) => Names(p, k)
  <2> SUFFICES ASSUME NEW k \in Handles, k.index \in 0 .. p.size - 1, Names(q, k)
               PROVE  Names(p, k)
    OBVIOUS
  <2>1. isValid(k) /\ k.index < p.size /\ p.gen[k.index] = k.gen /\ q.res[k.index] # NullRes
    BY <1>2 DEF Names, IsAlive, Get
  <2>2. p.res[k.index] # NullRes
    <3>1. p.res \in [0 .. p.size - 1 -> (1 .. MaxSamplers) \cup {NullRes}]
      BY SamplerFacts
    <3>2. q.res = [p.res EXCEPT ![h.index] = NullRes]
      BY <1>1 DEF Freed
    <3>3. CASE k.index = h.index
      <4>1. h.index \in 0 .. p.size - 1
        BY <1>2, SamplerFacts DEF Slots
      <4>2. QED BY <2>1, <3>1, <3>2, <3>3, <4>1
    <3>4. CASE k.index # h.index
      <4>1. q.res[k.index] = p.res[k.index]
        BY <3>1, <3>2, <3>4
      <4>2. QED BY <2>1, <4>1
    <3>5. QED BY <3>3, <3>4
  <2>3. QED BY <2>1, <2>2 DEF Names, IsAlive, Get
<1>5. ASSUME NEW w \in SamVars
      PROVE  /\ sam'[w] \in [handle : Handles, session : 1 .. Sessions]
             /\ sam'[w].session <= session
             /\ sam'[w].handle.index < q.size
             /\ sam'[w].handle.index # 0 => sam'[w].handle.gen <= q.gen[sam'[w].handle.index]
             /\ sam'[w].session # session => ~ Names(q, sam'[w].handle)
  <2>1. /\ InvalidHandle \in Handles /\ InvalidHandle.index = 0
        /\ ~ Names(q, InvalidHandle)
    BY SamplerBounds DEF Handles, InvalidHandle, Gens, Names, IsAlive, isValid
  <2>2. sam[w] \in [handle : Handles, session : 1 .. Sessions] /\ sam[w].session <= session
    BY SamplerFacts
  <2>3. CASE w = v
    <3>1. sam'[w] = [sam[w] EXCEPT !.handle = InvalidHandle]
      BY <1>1, <2>3, SamplerFacts
    <3>2. /\ sam'[w].handle = InvalidHandle /\ sam'[w].session = sam[w].session
          /\ sam'[w] \in [handle : Handles, session : 1 .. Sessions]
      BY <2>1, <2>2, <3>1
    <3>3. 0 < q.size
      BY <1>2, SamplerFacts
    <3>4. QED BY <2>1, <2>2, <3>2, <3>3
  <2>4. CASE w # v
    <3>1. sam'[w] = sam[w]
      BY <1>1, <2>4, SamplerFacts
    <3>2. sam[w].handle.index \in 0 .. p.size - 1 /\ p.size \in Nat
      BY SamplerFacts
    <3>3. sam[w].handle.index < q.size
      BY <1>2, <3>2
    <3>4. sam[w].handle.index # 0 => sam[w].handle.gen <= q.gen[sam[w].handle.index]
      BY <1>2, SamplerFacts
    <3>5. sam[w].session # session => ~ Names(q, sam[w].handle)
      BY <1>4, <3>2, SamplerFacts
    <3>6. QED BY <2>2, <3>1, <3>3, <3>4, <3>5
  <2>5. QED BY <2>3, <2>4
<1>6. sam' \in [SamVars -> [handle : Handles, session : 1 .. Sessions]]
  <2>1. sam' = [w \in SamVars |-> sam'[w]]
    BY <1>1, SamplerFacts
  <2>2. \A w \in SamVars : sam'[w] \in [handle : Handles, session : 1 .. Sessions]
    BY <1>5
  <2>3. QED BY <2>1, <2>2
<1>7. SamplerHandles'
  BY <1>5, <1>6, SamplerFacts DEF SamplerHandles
<1>8. OldSamplersDead'
  BY <1>3, <1>5 DEF OldSamplersDead
<1>9. QED BY <1>2, <1>7, <1>8 DEF SamplerInv

(* Shutdown() leaves the slots, and no sampler in them.                    *)
LEMMA ShutdownSamplerStep ==
  ASSUME SamplerInv, ~ misused, Shutdown
  PROVE  SamplerInv'
<1> PICK p : p = samPool
  OBVIOUS
<1> PICK q : q = samPool'
  OBVIOUS
<1>1. /\ session < Sessions /\ session' = session + 1 /\ q = SamplersFreed(p)
      /\ samplers' = samplers \ {p.res[i] : i \in Visited(p)}
      /\ sam' = sam
  BY DEF Shutdown
<1>2. /\ p = [size |-> p.size, res |-> p.res, gen |-> p.gen, free |-> p.free]
      /\ p.res \in [0 .. p.size - 1 -> (1 .. MaxSamplers) \cup {NullRes}] /\ p.res[0] = NullRes
      /\ p.size \in Nat \ {0} /\ SamplerPool(p)
  BY DEF SamplerInv, SamplerPool, IsPool
<1>3. /\ q = [size |-> q.size, res |-> q.res, gen |-> q.gen, free |-> q.free]
      /\ q.size = p.size /\ q.gen = p.gen /\ q.free = p.free
      /\ q.res = [i \in 0 .. p.size - 1 |-> IF i \in Visited(p) THEN NullRes ELSE p.res[i]]
  BY <1>1, <1>2 DEF SamplersFreed
<1>4. Visited(p) = Slots(p)
  BY <1>2, SamplerFacts DEF Visited
<1>5. /\ Slots(q) = Slots(p) /\ Slots(p) = 1 .. p.size - 1
      /\ \A i \in 0 .. p.size - 1 : q.res[i] = NullRes
  <2>1. Slots(q) = Slots(p) /\ Slots(p) = 1 .. p.size - 1
    BY <1>3 DEF Slots
  <2>2. QED BY <1>2, <1>3, <1>4, <2>1
<1>6. SamplerPool(q)
  <2>1. IsPool(q, 1 .. MaxSamplers)
    <3>1. q.res \in [0 .. q.size - 1 -> (1 .. MaxSamplers) \cup {NullRes}] /\ q.res[0] = NullRes
      BY <1>2, <1>3, <1>5
    <3>2. p.gen \in [0 .. p.size - 1 -> Gens] /\ p.free \in Seq(Slots(p))
      BY <1>2 DEF SamplerPool, IsPool
    <3>3. QED BY <1>2, <1>3, <1>5, <3>1, <3>2 DEF IsPool
  <2>2. p.free \in Seq(Slots(p))
    BY <1>2 DEF SamplerPool, IsPool
  <2>3. \A i \in 1 .. Len(q.free) : q.res[q.free[i]] = NullRes
    <3>1. \A i \in 1 .. Len(p.free) : p.free[i] \in Slots(p)
      BY <2>2
    <3>2. \A i \in Slots(p) : q.res[i] = NullRes
      BY <1>2, <1>5
    <3>3. QED BY <1>3, <3>1, <3>2
  <2>4. Young(q, MaxSamplerGen)
    BY <1>2, <1>3, <1>5 DEF SamplerPool, Young
  <2>5. QED BY <1>2, <1>3, <2>1, <2>3, <2>4 DEF SamplerPool
<1>7. Occupied(q) = {}
  BY <1>5 DEF Occupied
<1>8. samplers' = {}
  BY <1>1, <1>4, SamplerFacts DEF Occupied
<1>9. ASSUME NEW w \in SamVars
      PROVE  /\ sam[w].session <= session + 1 /\ ~ Names(q, sam[w].handle)
             /\ sam[w].handle.index < q.size
             /\ sam[w].handle.index # 0 => sam[w].handle.gen <= q.gen[sam[w].handle.index]
  <2>1. /\ sam[w].session \in 1 .. Sessions /\ sam[w].session <= session /\ session \in Nat
        /\ sam[w].handle.index \in 0 .. p.size - 1
    BY SamplerFacts, SamplerBounds
  <2>2. q.res[sam[w].handle.index] = NullRes
    BY <1>5, <2>1
  <2>3. sam[w].handle.index < q.size
    BY <1>2, <1>3, <2>1
  <2>4. QED BY <1>3, <2>1, <2>2, <2>3, SamplerFacts DEF Names, Get
<1>10. SamplerHandles'
  BY <1>1, <1>9, SamplerFacts, SamplerBounds DEF SamplerHandles
<1>11. OldSamplersDead'
  BY <1>1, <1>7, <1>8, <1>9 DEF OldSamplersDead, NoSharing
<1>12. QED BY <1>6, <1>10, <1>11 DEF SamplerInv

(* Every step preserves the invariant of the samplers.                     *)
LEMMA NextSamplerInv ==
  ASSUME SamplerInv, ~ misused, Next, ~ misused'
  PROVE  SamplerInv'
<1>1. CASE Shutdown
  BY <1>1, ShutdownSamplerStep
<1>2. CASE UNCHANGED session /\ SamplerStep
  <2>1. PICK v \in SamVars : \/ VKCreateSampler(v)
                             \/ VKCreateSamplerFails(v)
                             \/ VKDestroySampler(v)
                             \/ \E w \in SamVars : CopySampler(v, w)
    BY <1>2 DEF SamplerStep
  <2>2. CASE VKCreateSampler(v)
    BY <1>2, <2>2, CreateSamplerStep
  <2>3. CASE VKCreateSamplerFails(v)
    <3> PICK x : x = [handle |-> InvalidHandle, session |-> session]
      OBVIOUS
    <3>1. /\ sam' = [sam EXCEPT ![v] = x]
          /\ samPool' = samPool /\ samplers' = samplers
      BY <2>3 DEF VKCreateSamplerFails
    <3>2. QED BY <1>2, <3>1, SamplerVariableStep
  <2>4. CASE VKDestroySampler(v)
    BY <1>2, <2>4, DestroySamplerStep
  <2>5. ASSUME NEW w \in SamVars, CopySampler(v, w) PROVE SamplerInv'
    <3> PICK x : x = sam[v]
      OBVIOUS
    <3>1. /\ sam' = [sam EXCEPT ![w] = x]
          /\ samPool' = samPool /\ samplers' = samplers
      BY <2>5 DEF CopySampler
    <3>2. QED BY <1>2, <3>1, SamplerVariableStep
  <2>6. QED BY <2>1, <2>2, <2>3, <2>4, <2>5
<1>3. CASE UNCHANGED session /\ (TextureStep \/ CopyStep \/ SwapchainStep \/ DataStep)
  <2>1. UNCHANGED samplerVars
    <3>1. CASE TextureStep
      BY <3>1 DEF TextureStep, VKCreateTexture, VKDestroyTexture, VKCreateTextureView,
                  VKDestroyTextureView
    <3>2. CASE CopyStep
      BY <3>2 DEF CopyStep, CopyTexture
    <3>3. CASE SwapchainStep
      BY <3>3 DEF SwapchainStep, VKCreateSwapchain, Resize, VKDestroySwapchain, Replace,
                  GetImage, GetImageView
    <3>4. CASE DataStep
      BY <3>4 DEF DataStep, VKCreateTexture, VKCreateTextureData, VKDestroyTexture,
                  VKFlushUploads
    <3>5. QED BY <1>3, <3>1, <3>2, <3>3, <3>4
  <2>2. QED BY <1>3, <2>1, SamplersUntouched
<1>4. QED BY <1>1, <1>2, <1>3 DEF Next

(* Init() finds the pool empty.                                            *)
LEMMA InitSamplerInv == Init => SamplerInv
<1> SUFFICES ASSUME Init PROVE SamplerInv
  OBVIOUS
<1>1. /\ session = 1 /\ samPool = EmptyPool /\ samplers = {}
      /\ sam = [v \in SamVars |-> [handle |-> InvalidHandle, session |-> 1]]
  BY DEF Init
<1>2. /\ PoolOK(EmptyPool, 1 .. MaxSamplers) /\ Occupied(EmptyPool) = {}
      /\ EmptyPool.size = 1 /\ EmptyPool.free = <<>> /\ Slots(EmptyPool) = {}
  BY EmptyPoolOK DEF EmptyPool, Slots
<1>3. SamplerPool(samPool)
  BY <1>1, <1>2 DEF SamplerPool, PoolOK, Young
<1>4. InvalidHandle \in Handles /\ InvalidHandle.index = 0
  BY SamplerBounds DEF Handles, InvalidHandle, Gens
<1>5. SamplerHandles
  BY <1>1, <1>2, <1>4, SamplerBounds DEF SamplerHandles
<1>6. OldSamplersDead
  BY <1>1, <1>2 DEF OldSamplersDead, NoSharing
<1>7. QED BY <1>3, <1>5, <1>6 DEF SamplerInv

(* A sampler handle of a session that is over names no sampler of a later  *)
(* one, and every sampler is in one slot (VKCreateSampler,                 *)
(* VKDestroySampler, freeAllVulkanResources, VK_Texture.cpp).              *)
THEOREM SamplersCorrect == Spec => []OldSamplersDead
<1> DEFINE I == ~ misused => SamplerInv
<1>1. Init => I
  BY InitSamplerInv
<1>2. I /\ [Next]_vars => I'
  <2> SUFFICES ASSUME I, [Next]_vars, ~ misused' PROVE SamplerInv'
    OBVIOUS
  <2>1. CASE Next
    BY <2>1, NextSamplerInv DEF Next
  <2>2. CASE UNCHANGED vars
    <3>1. ~ misused /\ UNCHANGED <<session, samplerVars>>
      BY <2>2 DEF vars
    <3>2. QED BY <3>1, SamplersUntouched
  <2>3. QED BY <2>1, <2>2
<1>3. I => OldSamplersDead
  BY DEF SamplerInv, OldSamplersDead
<1> HIDE DEF I
<1>4. QED BY <1>1, <1>2, <1>3, PTL DEF Spec

-----------------------------------------------------------------------------
(* Types, in every state.                                                  *)
Typed == ImagesTyped /\ SamplersTyped /\ LayoutsTyped

(* The inductive invariant: the parts above until the client breaks a      *)
(* rule, and the types.                                                    *)
IInv == Typed /\ (~ misused => ImageInv /\ DataInv /\ SamplerInv)

(* What the parts say includes the types.                                  *)
LEMMA ImagesTypedIs == ImageInv => ImagesTyped
BY StateTyped DEF ImageInv, ImagesTyped

(* The same for the samplers.                                              *)
LEMMA SamplersTypedIs == SamplerInv => SamplersTyped
BY DEF SamplerInv, SamplerPool, SamplerHandles, SamplersTyped

(* Only a few calls break a rule.                                          *)
LEMMA MisuseSteps ==
  ASSUME Next, misused'
  PROVE  \/ \E v \in TexVars : VKDestroyTexture(v) \/ \E size \in Sizes : VKCreateTextureData(v, size)
         \/ \E w \in ViewVars : \/ VKDestroyTextureView(w)
                                \/ \E v \in TexVars, ok \in BOOLEAN : VKCreateTextureView(v, w, ok)
         \/ \E v \in SamVars : VKDestroySampler(v)
<1>1. ~ misused /\ UsedVars \subseteq TexVars /\ SwapVars \subseteq TexVars
  BY TexturesAssumption DEF Next, UsedVars
<1>2. ~ Shutdown /\ ~ CopyStep
  BY <1>1, Zenon DEF Shutdown, CopyStep, CopyTexture
<1>3. ~ SwapchainStep
  BY <1>1, Zenon DEF SwapchainStep, VKCreateSwapchain, Resize, VKDestroySwapchain, Replace,
                     GetImage, GetImageView
<1>4. CASE SamplerStep
  BY <1>1, <1>4, Zenon DEF SamplerStep, VKCreateSampler, VKCreateSamplerFails, CopySampler
<1>5. CASE DataStep
  BY <1>1, <1>5, Zenon DEF DataStep, VKCreateTexture, VKFlushUploads
<1>6. CASE TextureStep
  <2>1. ASSUME NEW v \in UsedVars, NEW ok \in BOOLEAN PROVE ~ VKCreateTexture(v, ok)
    BY <1>1, Zenon DEF VKCreateTexture
  <2>2. QED BY <1>1, <1>6, <2>1 DEF TextureStep
<1>7. QED BY <1>2, <1>3, <1>4, <1>5, <1>6 DEF Next

(* The images keep their types in any step.                                *)
LEMMA NextImagesTyped ==
  ASSUME ImageInv, Next
  PROVE  ImagesTyped'
<1> USE TexturesAssumption
<1>1. CASE ~ misused'
  <2>1. ImageInv'
    BY <1>1, NextImageInv
  <2>2. ImageInv' => ImagesTyped'
    BY StateTyped DEF ImageInv, ImagesTyped
  <2>3. QED BY <2>1, <2>2
<1>2. ASSUME NEW v \in TexVars, VKDestroyTexture(v) PROVE ImagesTyped'
  <2>1. /\ IsAlive(res.tex, tex[v]) /\ res' = DestroyTexture(res, tex[v])
        /\ tex' = [tex EXCEPT ![v] = InvalidHandle] /\ view' = view
    BY <1>2, Zenon DEF VKDestroyTexture
  <2>2. tex[v] \in Handles /\ InvalidHandle \in Handles
    BY InvalidNamesNothing DEF ImageInv
  <2>3. ResTyped(res')
    BY <2>1, <2>2, DestroyedTyped DEF ImageInv
  <2>4. QED BY <2>1, <2>2, <2>3 DEF ImageInv, ImagesTyped
<1>3. ASSUME NEW w \in ViewVars, VKDestroyTextureView(w) PROVE ImagesTyped'
  <2>1. /\ IsAlive(res.view, view[w]) /\ res' = DestroyTextureView(res, view[w])
        /\ view' = [view EXCEPT ![w] = InvalidHandle] /\ tex' = tex
    BY <1>3, Zenon DEF VKDestroyTextureView
  <2>2. view[w] \in Handles /\ InvalidHandle \in Handles
    BY InvalidNamesNothing DEF ImageInv
  <2>3. ResTyped(res')
    BY <2>1, <2>2, DestroyedViewTyped DEF ImageInv
  <2>4. QED BY <2>1, <2>2, <2>3 DEF ImageInv, ImagesTyped
<1>4. ASSUME NEW w \in ViewVars, NEW v \in TexVars, NEW ok \in BOOLEAN,
             VKCreateTextureView(v, w, ok)
      PROVE  ImagesTyped'
  <2> PICK d : d = CreateTextureView(res, tex[v], ok)
    OBVIOUS
  <2>1. /\ res' = d.res /\ Room(d.res) /\ view' = [view EXCEPT ![w] = d.handle] /\ tex' = tex
    BY <1>4, Zenon DEF VKCreateTextureView
  <2>2. tex[v] \in Handles
    BY DEF ImageInv
  <2>3. ResTyped(d.res) /\ d.handle \in Handles
    <3>1. CASE IsFree(res.tex, tex[v])
      BY <2>2, <3>1, NoViewTyped DEF ImageInv
    <3>2. CASE ~ IsFree(res.tex, tex[v])
      <4>1. ImageState(d.res, chain) /\ d.handle \in Handles
        BY <2>1, <2>2, <3>2, ViewCreated DEF ImageInv
      <4>2. QED BY <4>1, StateTyped
    <3>3. QED BY <3>1, <3>2
  <2>4. QED BY <2>1, <2>3 DEF ImageInv, ImagesTyped
<1>5. ASSUME NEW v \in TexVars, NEW size \in Sizes, VKCreateTextureData(v, size)
      PROVE  ImagesTyped'
  <2>1. ImageInv'
    BY <1>5, CreateTextureDataStep
  <2>2. QED BY <2>1, StateTyped DEF ImageInv, ImagesTyped
<1>6. ASSUME NEW v \in SamVars, VKDestroySampler(v) PROVE ImagesTyped'
  <2>1. ImageInv'
    BY <1>6, ImagesUntouched DEF VKDestroySampler
  <2>2. QED BY <2>1, StateTyped DEF ImageInv, ImagesTyped
<1>7. QED BY <1>1, <1>2, <1>3, <1>4, <1>5, <1>6, MisuseSteps

(* So do the samplers.                                                     *)
LEMMA NextSamplersTyped ==
  ASSUME SamplerInv, Next
  PROVE  SamplersTyped'
<1>1. CASE ~ misused'
  <2>1. SamplerInv'
    BY <1>1, NextSamplerInv DEF Next
  <2>2. QED BY <2>1 DEF SamplerInv, SamplerPool, SamplerHandles, SamplersTyped
<1>2. ASSUME NEW v \in SamVars, VKDestroySampler(v) PROVE SamplersTyped'
  <2> PICK h : h = sam[v].handle
    OBVIOUS
  <2>1. /\ IsAlive(samPool, h) /\ samPool' = Freed(samPool, h)
        /\ sam' = [sam EXCEPT ![v].handle = InvalidHandle]
    BY <1>2 DEF VKDestroySampler
  <2>2. /\ IsPool(samPool, 1 .. MaxSamplers)
        /\ sam \in [SamVars -> [handle : Handles, session : 1 .. Sessions]]
    BY DEF SamplerInv, SamplerPool, SamplerHandles
  <2>3. h \in Handles /\ InvalidHandle \in Handles
    BY <2>2, InvalidNamesNothing
  <2>4. h.index \in Slots(samPool)
    <3>1. isValid(h) /\ h.index < samPool.size /\ h.index \in Nat /\ h.index # 0
      BY <2>1, <2>3, NoSlotZero DEF IsAlive, Handles, isValid, InvalidHandle
    <3>2. samPool.size \in Nat
      BY <2>2 DEF IsPool
    <3>3. QED BY <3>1, <3>2 DEF Slots
  <2>5. IsPool(samPool', 1 .. MaxSamplers)
    BY <2>1, <2>2, <2>4, FreedTyped
  <2>6. sam' \in [SamVars -> [handle : Handles, session : 1 .. Sessions]]
    BY <2>1, <2>2, <2>3
  <2>7. QED BY <2>5, <2>6 DEF SamplersTyped
<1>3. CASE UNCHANGED samplerVars
  BY <1>3 DEF samplerVars, SamplerInv, SamplerPool, SamplerHandles, SamplersTyped
<1>4. QED
  BY <1>1, <1>2, <1>3, MisuseSteps, Zenon
     DEF VKDestroyTexture, VKCreateTextureData, VKDestroyTextureView, VKCreateTextureView

(* And the layouts.                                                        *)
LEMMA NextLayoutsTyped ==
  ASSUME LayoutsTyped, Next
  PROVE  LayoutsTyped'
<1>1. have = [i \in Images |-> have[i]] /\ \A i \in Images : have[i].layout \in {"undefined", "read"}
  BY DEF LayoutsTyped
<1>2. CASE have' = have
  BY <1>2 DEF LayoutsTyped
<1>3. ASSUME NEW n, have' = [have EXCEPT ![n] = Blank] PROVE LayoutsTyped'
  <2>1. Blank.layout = "undefined"
    BY DEF Blank
  <2>2. have' = [i \in Images |-> have'[i]]
    BY <1>1, <1>3
  <2>3. \A i \in Images : have'[i] = have[i] \/ have'[i] = Blank
    BY <1>1, <1>3
  <2>4. QED BY <1>1, <2>1, <2>2, <2>3 DEF LayoutsTyped
<1>4. CASE have' = [i \in Images |-> Blank]
  BY <1>4 DEF LayoutsTyped, Blank
<1>5. CASE VKFlushUploads
  <2>1. PICK copied : have' = [i \in Images |->
                  IF i \in DOMAIN copied
                  THEN [data |-> copied[i], layout |-> "read"] ELSE have[i]]
    BY <1>5 DEF VKFlushUploads, LayoutFlushed
  <2>2. \A i \in Images : have'[i].layout \in {"undefined", "read"}
    BY <1>1, <2>1
  <2>3. QED BY <2>1, <2>2 DEF LayoutsTyped
<1>6. ASSUME NEW v, NEW ok \in BOOLEAN, VKCreateTexture(v, ok)
      PROVE  have' = have \/ \E n : have' = [have EXCEPT ![n] = Blank]
  BY <1>6, Zenon DEF VKCreateTexture
<1>7. ASSUME NEW v, NEW size, VKCreateTextureData(v, size)
      PROVE  \E n : have' = [have EXCEPT ![n] = Blank]
  BY <1>7, Zenon DEF VKCreateTextureData
<1>8. CASE TextureStep
  <2>1. have' = have \/ \E n : have' = [have EXCEPT ![n] = Blank]
    BY <1>6, <1>8, Zenon
       DEF TextureStep, VKDestroyTexture, VKCreateTextureView, VKDestroyTextureView, dataVars
  <2>2. QED BY <1>2, <1>3, <2>1
<1>9. CASE DataStep
  <2>1. VKFlushUploads \/ have' = have \/ \E n : have' = [have EXCEPT ![n] = Blank]
    <3>1. \A v : VKCreateTexture(v, TRUE) =>
             have' = have \/ \E n : have' = [have EXCEPT ![n] = Blank]
      BY <1>6, Zenon
    <3>2. QED BY <1>7, <1>9, <3>1, Zenon DEF DataStep, VKDestroyTexture, dataVars
  <2>2. QED BY <1>2, <1>3, <1>5, <2>1
<1>10. CASE CopyStep \/ SwapchainStep \/ SamplerStep
  <2>1. have' = have
    BY <1>10, Zenon
       DEF CopyStep, CopyTexture, SwapchainStep, VKCreateSwapchain, Resize, VKDestroySwapchain,
           Replace, GetImage, GetImageView, SamplerStep, VKCreateSampler, VKCreateSamplerFails,
           VKDestroySampler, CopySampler, dataVars
  <2>2. QED BY <1>2, <2>1
<1>11. CASE Shutdown
  BY <1>4, <1>11 DEF Shutdown
<1>12. QED BY <1>8, <1>9, <1>10, <1>11 DEF Next

(* The invariant is inductive.                                             *)
LEMMA InitIInv == Init => IInv
<1> SUFFICES ASSUME Init PROVE IInv
  OBVIOUS
<1>1. NoDataYet
  BY DEF Init, NoDataYet
<1>2. ImageInv /\ DataInv /\ SamplerInv
  BY <1>1, InitImageInv, NoDataYetOK, InitSamplerInv
<1>3. LayoutsTyped
  BY <1>1 DEF NoDataYet, LayoutsTyped, Blank
<1>4. QED BY <1>2, <1>3, ImagesTypedIs, SamplersTypedIs DEF IInv, Typed

(* And every step keeps it, the one that breaks a rule included.           *)
LEMMA NextIInv == IInv /\ [Next]_vars => IInv'
<1> SUFFICES ASSUME IInv, [Next]_vars PROVE IInv'
  OBVIOUS
<1>1. CASE UNCHANGED vars
  <2>1. Typed'
    BY <1>1 DEF IInv, vars, imageVars, dataVars, samplerVars, Typed, ImagesTyped,
                SamplersTyped, LayoutsTyped
  <2>2. ASSUME ~ misused' PROVE ImageInv' /\ DataInv' /\ SamplerInv'
    <3>1. ~ misused /\ UNCHANGED <<session, samplerVars>>
      BY <1>1, <2>2 DEF vars
    <3>2. ImageInv /\ DataInv /\ SamplerInv
      BY <3>1 DEF IInv
    <3>3. QED BY <2>2, <3>1, <3>2, NextImageInv, NextDataInv, SamplersUntouched
  <2>3. QED BY <2>1, <2>2 DEF IInv
<1>2. CASE Next
  <2>1. ~ misused /\ ImageInv /\ DataInv /\ SamplerInv /\ LayoutsTyped
    BY <1>2 DEF Next, IInv, Typed
  <2>2. Typed'
    BY <1>2, <2>1, NextImagesTyped, NextSamplersTyped, NextLayoutsTyped DEF Typed
  <2>3. ~ misused' => ImageInv' /\ DataInv' /\ SamplerInv'
    BY <1>2, <2>1, NextImageInv, NextDataInv, NextSamplerInv
  <2>4. QED BY <2>2, <2>3 DEF IInv
<1>3. QED BY <1>1, <1>2

(* Textures, views, samplers, the swapchain's handles and the layouts keep *)
(* their types, also in the step that breaks a rule.                       *)
THEOREM TypeCorrect == Spec => []TypeOK
<1>1. Handles \subseteq [index : Nat, gen : Gens]
  BY DEF Handles
<1>2. IInv => TypeOK
  <2> SUFFICES ASSUME IInv PROVE TypeOK
    OBVIOUS
  <2>1. ImagesTyped /\ SamplersTyped /\ LayoutsTyped
    BY DEF IInv, Typed
  <2>2. /\ tex \in [TexVars -> [index : Nat, gen : Gens]]
        /\ view \in [ViewVars -> [index : Nat, gen : Gens]]
    BY <1>1, <2>1 DEF ImagesTyped
  <2>3. sam \in [SamVars -> [handle : [index : Nat, gen : Gens], session : 1 .. Sessions]]
    BY <1>1, <2>1 DEF SamplersTyped
  <2>4. QED BY <2>1, <2>2, <2>3
            DEF ImagesTyped, ResTyped, SamplersTyped, LayoutsTyped, TypeOK
<1>3. QED BY <1>2, InitIInv, NextIInv, PTL DEF Spec
==============================================================================
