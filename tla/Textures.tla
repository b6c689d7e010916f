------------------------------ MODULE Textures ------------------------------
(***************************************************************************)
(* A client of textures, views, samplers and the swapchain: it creates and *)
(* destroys, copies handles, takes the swapchain's own, resizes, shuts the *)
(* library down and starts it again.  ImageResources has what each call    *)
(* does to the pools; the uploads of initial data are LoadUploader's.      *)
(*                                                                         *)
(* The client may break the rules the library does not check; the step is  *)
(* noted in misused and the last one that is modelled.                     *)
(***************************************************************************)
EXTENDS ImageResources, LoadUploader

CONSTANTS
  TexVars,       \* the client's TextureHandle variables
  SwapVars,      \* those a program with a swapchain uses
  ViewVars,      \* its TextureViewHandle variables
  SamVars,       \* its SamplerHandle variables
  Programs,      \* what a program uses: "copies" of texture handles, the
                 \* "swapchain", initial "data" or "samplers"
  Sizes,         \* the sizes of initial data
  OutcomeSeqs,   \* how the creation of a swapchain may go, image by image
  NoData,        \* the contents of an image nobody wrote to
  Sessions,      \* bound: Init() .. Shutdown() sessions
  MaxImages,     \* bound: VkImages at a time
  MaxViews,      \* bound: views at a time
  MaxSamplers,   \* bound: samplers at a time
  MaxGen,        \* bound: generations of a texture or view slot
  MaxSamplerGen  \* bound: generations of a sampler slot

ASSUME TexturesAssumption ==
  /\ Sizes \subseteq Nat \ {0}
  /\ OutcomeSeqs \subseteq Seq(Outcomes) \ {<<>>}
  /\ Sessions \in Nat \ {0}
  /\ {MaxImages, MaxViews, MaxSamplers} \subseteq Nat
  /\ {MaxGen, MaxSamplerGen} \subseteq 1 .. GenMod - 1
  /\ SwapVars \subseteq TexVars
  /\ NullRes \notin Nat \cup [image : Nat, swap : BOOLEAN]
  /\ NoData \notin [index : Nat, gen : Nat]

VARIABLES
  uses,          \* what this program uses
  session,
  res,           \* the texture and view pools and the driver's images
  chain,         \* ctx.swapchain
  tex,           \* per texture variable: the handle in it
  view,          \* per view variable: the handle in it
  uploader,      \* ctx.loadTimeStagingUploader
  want,          \* history: the data each VkImage was created with
  have,          \* what each VkImage holds, and its layout
  samPool,       \* g_SamplerPool
  samplers,      \* VkSamplers alive
  sam,           \* per sampler variable: the handle and its session
  misused        \* history: whether the client broke a rule

imageVars   == <<res, chain, tex, view>>
dataVars    == <<uploader, want, have>>
samplerVars == <<samPool, samplers, sam>>
vars == <<uses, session, imageVars, dataVars, samplerVars, misused>>

Images == 1 .. MaxImages

Blank == [data |-> NoData, layout |-> "undefined"]

Init ==
  /\ uses \in Programs
  /\ session = 1
  /\ res = NoImages
  /\ chain = NoChain
  /\ tex = [v \in TexVars |-> InvalidHandle]
  /\ view = [v \in ViewVars |-> InvalidHandle]
  /\ uploader = EmptyUploader
  /\ want = [i \in Images |-> NoData]
  /\ have = [i \in Images |-> Blank]
  /\ samPool = EmptyPool
  /\ samplers = {}
  /\ sam = [v \in SamVars |-> [handle |-> InvalidHandle, session |-> 1]]
  /\ misused = FALSE

(* The slot of h is free already, and its generation does not tell.        *)
IsFree(p, h) == IsAlive(p, h) /\ \E i \in DOMAIN p.free : p.free[i] = h.index

(* The bounds.                                                             *)
Room(r) == /\ Cardinality(r.images \cup r.shown) <= MaxImages
           /\ Cardinality(DOMAIN r.views) <= MaxViews
           /\ \A i \in Slots(r.tex) : r.tex.gen[i] \in 1 .. MaxGen
           /\ \A i \in Slots(r.view) : r.view.gen[i] \in 1 .. MaxGen

-----------------------------------------------------------------------------
(* Textures.                                                               *)

(* A variable is not overwritten while it is the only way to a texture.    *)
LastHandle(v) == /\ Names(res.tex, tex[v])
                 /\ ~ Get(res.tex, tex[v]).swap
                 /\ \A w \in TexVars \ {v} : tex[w] # tex[v]

Spare(v) == ~ LastHandle(v)

VKCreateTexture(v, ok) ==
  LET new == CreateTexture(res, ok)
  IN  /\ Spare(v)
      /\ res' = new.res
      /\ Room(res')
      /\ tex' = [tex EXCEPT ![v] = new.handle]
      /\ want' = IF ok THEN [want EXCEPT ![NextImage(res)] = NoData] ELSE want
      /\ have' = IF ok THEN [have EXCEPT ![NextImage(res)] = Blank] ELSE have
      /\ UNCHANGED <<chain, view, uploader, samplerVars, misused>>

(* With initial data, all of it for mip level 0 of the raw VkImage.        *)
VKCreateTextureData(v, size) ==
  LET new == CreateTexture(res, TRUE)
      i   == NextImage(res)
  IN  /\ Spare(v)
      /\ res' = new.res
      /\ Room(res')
      /\ tex' = [tex EXCEPT ![v] = new.handle]
      /\ uploader' = uploadTexture(uploader, i, new.handle, size)
      /\ want' = [want EXCEPT ![i] = new.handle]
      /\ have' = [have EXCEPT ![i] = Blank]
      /\ misused' = ~ Fits(uploader, size)
      /\ UNCHANGED <<chain, view, samplerVars>>

OfChain(h) ==
  \E i \in DOMAIN chain.image : h \in {chain.image[i], chain.depth[i]}

(* The rules: a handle is destroyed once, unless its slot was given out    *)
(* again; the swapchain's are left to it; queued data is flushed first.    *)
VKDestroyTexture(v) ==
  /\ IsAlive(res.tex, tex[v])
  /\ res' = DestroyTexture(res, tex[v])
  /\ misused' = \/ IsFree(res.tex, tex[v])
                \/ OfChain(tex[v])
                \/ Get(res.tex, tex[v]).image \in Targets(uploader)
  /\ tex' = [tex EXCEPT ![v] = InvalidHandle]
  /\ UNCHANGED <<chain, view, dataVars, samplerVars>>

CopyTexture(v, w) ==
  /\ Spare(w)
  /\ tex' = [tex EXCEPT ![w] = tex[v]]
  /\ UNCHANGED <<res, chain, view, dataVars, samplerVars, misused>>

GetImage(v, i) ==
  /\ Spare(v)
  /\ tex' = [tex EXCEPT ![v] = chain.image[i]]
  /\ UNCHANGED <<res, chain, view, dataVars, samplerVars, misused>>

-----------------------------------------------------------------------------
(* Views.  One of a texture whose slot is free is a view of no image.      *)

VKCreateTextureView(v, w, ok) ==
  LET new == CreateTextureView(res, tex[v], ok)
  IN  /\ ~ Names(res.view, view[w])
      /\ res' = new.res
      /\ Room(res')
      /\ view' = [view EXCEPT ![w] = new.handle]
      /\ misused' = IsFree(res.tex, tex[v])
      /\ UNCHANGED <<chain, tex, dataVars, samplerVars>>

VKDestroyTextureView(w) ==
  /\ IsAlive(res.view, view[w])
  /\ res' = DestroyTextureView(res, view[w])
  /\ misused' = \/ IsFree(res.view, view[w])
                \/ \E i \in DOMAIN chain.image :
                     view[w] \in {chain.imageView[i], chain.depthView[i]}
  /\ view' = [view EXCEPT ![w] = InvalidHandle]
  /\ UNCHANGED <<chain, tex, dataVars, samplerVars>>

GetImageView(w, i) ==
  /\ ~ Names(res.view, view[w])
  /\ view' = [view EXCEPT ![w] = chain.imageView[i]]
  /\ UNCHANGED <<res, chain, tex, dataVars, samplerVars, misused>>

-----------------------------------------------------------------------------
(* The swapchain.  ctx.swapchain exists from Init() to Shutdown(); what is *)
(* created and destroyed is its VkSwapchainKHR and all that belongs to it. *)
(* The client creates one when there is none and resizes one there is.     *)

Replace(made) ==
  /\ res' = made.res
  /\ Room(res')
  /\ chain' = made.chain
  /\ UNCHANGED <<tex, view, dataVars, samplerVars, misused>>

VKCreateSwapchain(outcomes) ==
  /\ chain = NoChain
  /\ Replace(createSwapchain(res, outcomes))

Resize(outcomes) ==
  /\ chain # NoChain
  /\ Replace(createSwapchain(destroySwapchain(res, chain).res, outcomes))

VKDestroySwapchain ==
  /\ chain.image # <<>>
  /\ Replace(destroySwapchain(res, chain))

-----------------------------------------------------------------------------
(* VKFlushUploads(): one submission, waited for, in which every target is  *)
(* brought from an undefined layout to that of a copy and then of a read.  *)
(* Bug variant: the second barrier is missing.                             *)
LayoutOfCopy == "copied to"
LayoutFlushed == "read"

VKFlushUploads ==
  /\ ~ NothingQueued(uploader)
  /\ \E copied \in Copies(uploader) :
       have' = [i \in Images |->
                  IF i \in DOMAIN copied
                  THEN [data |-> copied[i], layout |-> LayoutFlushed]
                  ELSE have[i]]
  /\ uploader' = Flushed(uploader)
  /\ UNCHANGED <<imageVars, want, samplerVars, misused>>

-----------------------------------------------------------------------------
(* Samplers.                                                               *)

NextSampler == LeastFree(samplers)

LastSampler(v) == /\ Names(samPool, sam[v].handle)
                  /\ \A w \in SamVars \ {v} : sam[w].handle # sam[v].handle

VKCreateSampler(v) ==
  /\ ~ LastSampler(v)
  /\ Cardinality(samplers) < MaxSamplers
  /\ NewHandle(samPool).gen \in 1 .. MaxSamplerGen
  /\ samplers' = samplers \cup {NextSampler}
  /\ samPool' = Allocated(samPool, NextSampler)
  /\ sam' = [sam EXCEPT ![v] = [handle |-> NewHandle(samPool), session |-> session]]
  /\ UNCHANGED <<imageVars, dataVars, misused>>

VKCreateSamplerFails(v) ==
  /\ ~ LastSampler(v)
  /\ sam' = [sam EXCEPT ![v] = [handle |-> InvalidHandle, session |-> session]]
  /\ UNCHANGED <<imageVars, dataVars, samPool, samplers, misused>>

VKDestroySampler(v) ==
  /\ IsAlive(samPool, sam[v].handle)
  /\ samplers' = samplers \ {Get(samPool, sam[v].handle)}
  /\ samPool' = Freed(samPool, sam[v].handle)
  /\ misused' = IsFree(samPool, sam[v].handle)
  /\ sam' = [sam EXCEPT ![v].handle = InvalidHandle]
  /\ UNCHANGED <<imageVars, dataVars>>

CopySampler(v, w) ==
  /\ ~ LastSampler(w)
  /\ sam' = [sam EXCEPT ![w] = sam[v]]
  /\ UNCHANGED <<imageVars, dataVars, samPool, samplers, misused>>

-----------------------------------------------------------------------------
(* Shutdown() and the next Init().  Of g_SamplerPool the VkSamplers are    *)
(* destroyed and nothing else: slots, generations and free list stay.  Bug *)
(* variant: it is cleared like the others.                                 *)
SamplersCleared(p) == EmptyPool
SamplersFreed(p) ==
  [p EXCEPT !.res = [i \in DOMAIN @ |-> IF i \in Visited(p) THEN NullRes ELSE @[i]]]

Shutdown ==
  /\ session < Sessions
  /\ session' = session + 1
  /\ res' = FreeAll(res, chain)
  /\ chain' = NoChain
  /\ uploader' = EmptyUploader
  /\ samPool' = SamplersFreed(samPool)
  /\ samplers' = samplers \ {samPool.res[i] : i \in Visited(samPool)}
  /\ want' = [i \in Images |-> NoData]
  /\ have' = [i \in Images |-> Blank]
  /\ UNCHANGED <<tex, view, sam, misused>>

-----------------------------------------------------------------------------
UsedVars == IF uses = "swapchain" THEN SwapVars ELSE TexVars

TextureStep ==
  /\ uses \in {"copies", "swapchain"}
  /\ \/ \E v \in UsedVars : \/ \E ok \in BOOLEAN : VKCreateTexture(v, ok)
                            \/ VKDestroyTexture(v)
     \/ \E w \in ViewVars : \/ \E v \in UsedVars, ok \in BOOLEAN :
                                 VKCreateTextureView(v, w, ok)
                            \/ VKDestroyTextureView(w)

CopyStep ==
  /\ uses = "copies"
  /\ \E v, w \in TexVars : CopyTexture(v, w)

SwapchainStep ==
  /\ uses = "swapchain"
  /\ \/ \E outcomes \in OutcomeSeqs : VKCreateSwapchain(outcomes) \/ Resize(outcomes)
     \/ VKDestroySwapchain
     \/ \E i \in DOMAIN chain.image : \/ \E v \in SwapVars : GetImage(v, i)
                                       \/ \E w \in ViewVars : GetImageView(w, i)

DataStep ==
  /\ uses = "data"
  /\ \/ \E v \in TexVars : \/ VKCreateTexture(v, TRUE)
                           \/ \E size \in Sizes : VKCreateTextureData(v, size)
                           \/ VKDestroyTexture(v)
     \/ VKFlushUploads

SamplerStep ==
  /\ uses = "samplers"
  /\ \E v \in SamVars : \/ VKCreateSampler(v)
                        \/ VKCreateSamplerFails(v)
                        \/ VKDestroySampler(v)
                        \/ \E w \in SamVars : CopySampler(v, w)

Next == /\ ~ misused
        /\ UNCHANGED uses
        /\ \/ /\ UNCHANGED session
              /\ TextureStep \/ CopyStep \/ SwapchainStep \/ DataStep \/ SamplerStep
           \/ Shutdown

Spec == Init /\ [][Next]_vars

-----------------------------------------------------------------------------
(* The pools hold textures, views and samplers, the variables handles of   *)
(* the generations there are; no image is left in the layout of a copy.    *)
TypeOK ==
  /\ IsPool(res.tex, [image : Images, swap : BOOLEAN])
  /\ IsPool(res.view, 1 .. MaxViews)
  /\ IsPool(samPool, 1 .. MaxSamplers)
  /\ res.images \subseteq Images /\ res.shown \subseteq Images
  /\ \A x \in DOMAIN res.views : x \in 1 .. MaxViews /\ res.views[x] \in Images
  /\ tex \in [TexVars -> [index : Nat, gen : Gens]]
  /\ view \in [ViewVars -> [index : Nat, gen : Gens]]
  /\ sam \in [SamVars -> [handle : [index : Nat, gen : Gens],
                          session : 1 .. Sessions]]
  /\ \A i \in Images : have[i].layout \in {"undefined", "read"}

(* No order of calls makes the library destroy an image that is not the    *)
(* allocator's (one of the swapchain's, or one destroyed before), destroy  *)
(* a view twice, or trip an assertion of free().                           *)
DriverCallsSound == ~ misused => res.faults = {}

(* The swapchain's vectors, the pools and the driver agree: each occupied  *)
(* slot holds an object of its own that is alive, each object is in a slot,*)
(* and a slot without one is on the free list once, through resizes that   *)
(* share the pools with the client's textures.                             *)
PoolsExact ==
  ~ misused =>
    LET held(swap) == {t \in {res.tex.res[i] : i \in Occupied(res.tex)} :
                         t.swap = swap}
    IN  /\ FreeListExact(res.tex) /\ NoSharing(res.tex)
        /\ FreeListExact(res.view) /\ NoSharing(res.view)
        /\ res.images = {t.image : t \in held(FALSE)}
        /\ res.shown = {t.image : t \in held(TRUE)}
        /\ DOMAIN res.views = {res.view.res[i] : i \in Occupied(res.view)}

(* Every handle the swapchain gives out resolves to what its index means:  *)
(* GetImage(i) to the i-th image of the VkSwapchainKHR there is now,       *)
(* GetDepth(i) to a depth image of the allocator's, the views to views of  *)
(* these; or, of what could not be created, to nothing.                    *)
SwapchainConsistent ==
  ~ misused =>
    \A i \in DOMAIN chain.image :
      LET t  == Get(res.tex, chain.image[i])
          d  == Get(res.tex, chain.depth[i])
          iv == Get(res.view, chain.imageView[i])
          dv == Get(res.view, chain.depthView[i])
      IN  /\ Names(res.tex, chain.image[i])
          /\ t.swap /\ t.image = chain.vk[i] /\ t.image \in res.shown
          /\ isValid(chain.depth[i]) =>
               Names(res.tex, chain.depth[i]) /\ ~ d.swap /\ d.image \in res.images
          /\ isValid(chain.imageView[i]) =>
               Names(res.view, chain.imageView[i]) /\ res.views[iv] = t.image
          /\ isValid(chain.depthView[i]) =>
               Names(res.view, chain.depthView[i]) /\ res.views[dv] = d.image

(* A sampler handle of a session that is over never names a sampler of a   *)
(* later one (a texture or buffer handle may), and the slots a shutdown    *)
(* leaves behind are not given out by accident.                            *)
OldSamplersDead ==
  ~ misused =>
    /\ \A v \in SamVars :
         sam[v].session # session => ~ Names(samPool, sam[v].handle)
    /\ NoSharing(samPool)
    /\ samplers = {samPool.res[i] : i \in Occupied(samPool)}

(* A texture holds the data it was created with, in the layout a shader    *)
(* reads it in, as soon as nothing is queued for its image; a texture      *)
(* without data is not written to.                                         *)
TexturesReady ==
  ~ misused =>
    \A i \in res.images :
      IF want[i] = NoData \/ i \in Targets(uploader)
      THEN have[i] = Blank
      ELSE have[i] = [data |-> want[i], layout |-> "read"]
=============================================================================
