--------------------------- MODULE ImageResources ---------------------------
(***************************************************************************)
(* Textures and texture views (src/Vulkan/VK_Texture.cpp), and the ones a  *)
(* swapchain keeps for its images (src/Vulkan/VK_Swapchain.cpp): operators *)
(* on a record r of the two pools they share and of what the driver has.   *)
(*                                                                         *)
(*   tex     g_TexturePool, of [image, swap]: a VkImage, isSwapchainImage  *)
(*   view    g_TextureViewPool, of VkImageViews                            *)
(*   images  VkImages the memory allocator created and has not destroyed   *)
(*   shown   VkImages of the VkSwapchainKHR, which come and go with it     *)
(*   views   VkImageViews alive: view -> the image it was made for         *)
(*   faults  calls the driver, the allocator or an assertion rejects       *)
(*                                                                         *)
(* Driver objects are numbers, and a new one takes the least that is free: *)
(* names are reused as soon as they can be.                                *)
(***************************************************************************)
EXTENDS Pool, FiniteSets

NoImages == [tex |-> EmptyPool, view |-> EmptyPool, images |-> {}, shown |-> {},
             views |-> [x \in {} |-> 0], faults |-> {}]

LeastFree(S) == CHOOSE n \in 1 .. Cardinality(S) + 1 :
                  n \notin S /\ \A m \in 1 .. n - 1 : m \in S

NextImage(r) == LeastFree(r.images \cup r.shown)
NextView(r) == LeastFree(DOMAIN r.views)

Names(p, h) == IsAlive(p, h) /\ Get(p, h) # NullRes

Fault(r, cond, what) == IF cond THEN [r EXCEPT !.faults = @ \cup {what}] ELSE r

(* The outcome of a call that returns a handle.                            *)
Returns(r, h) == [res |-> r, handle |-> h]

-----------------------------------------------------------------------------
(* VKCreateTexture(); ok is the answer of the allocator.                   *)
CreateTexture(r, ok) ==
  IF ~ ok THEN Returns(r, InvalidHandle)
  ELSE Returns([r EXCEPT !.images = @ \cup {NextImage(r)},
                         !.tex = Allocated(@, [image |-> NextImage(r),
                                               swap  |-> FALSE])],
               NewHandle(r.tex))

destroyImage(r, image) ==
  Fault([r EXCEPT !.images = @ \ {image}],
        image \notin r.images, "the allocator does not own the image")

FreeTexture(r, h) ==
  IF IsAlive(r.tex, h) THEN [r EXCEPT !.tex = Freed(@, h)]
                       ELSE Fault(r, TRUE, "free of a dead handle")

(* VKDestroyTexture(): the handle need only be alive.                      *)
DestroyTexture(r, h) ==
  IF ~ IsAlive(r.tex, h) THEN r
  ELSE FreeTexture(IF Get(r.tex, h) = NullRes \/ Get(r.tex, h).swap THEN r
                   ELSE destroyImage(r, Get(r.tex, h).image), h)

(* VKCreateTextureView(); ok is the answer of the driver.                  *)
CreateTextureView(r, h, ok) ==
  IF ~ ok \/ ~ IsAlive(r.tex, h) THEN Returns(r, InvalidHandle)
  ELSE IF Get(r.tex, h) = NullRes
  THEN Returns(Fault(r, TRUE, "view of no image"), InvalidHandle)
  ELSE Returns([r EXCEPT !.views = [x \in DOMAIN @ \cup {NextView(r)} |->
                                      IF x = NextView(r)
                                      THEN Get(r.tex, h).image ELSE @[x]],
                         !.view = Allocated(@, NextView(r))],
               NewHandle(r.view))

DestroyVkImageViews(r, S) ==
  Fault([r EXCEPT !.views = [x \in DOMAIN @ \ S |-> @[x]]],
        ~ S \subseteq DOMAIN r.views, "destroyed an image view twice")

(* VKDestroyTextureView(): as for textures.                                *)
DestroyTextureView(r, h) ==
  IF ~ IsAlive(r.view, h) THEN r
  ELSE LET d == DestroyVkImageViews(r, {Get(r.view, h)} \ {NullRes})
       IN  [d EXCEPT !.view = Freed(@, h)]

-----------------------------------------------------------------------------
(* The part of a VulkanSwapchain that concerns images: the VkImages and a  *)
(* texture, a depth texture and a view of each, by index.                  *)
NoChain == [vk |-> <<>>, image |-> <<>>, depth |-> <<>>,
            imageView |-> <<>>, depthView |-> <<>>]

(* The images of a new VkSwapchainKHR of n images.                         *)
Shown(r, n) ==
  LET first[k \in 0 .. n] ==
        IF k = 0 THEN <<>>
        ELSE Append(first[k - 1],
                    LeastFree(r.images \cup {first[k - 1][j] : j \in 1 .. k - 1}))
  IN  first

NewShown(r, n) == Shown(r, n)[n]

(* One iteration of createSwapchain()'s loop.  A depth texture that cannot *)
(* be had leaves two invalid handles and is not noticed, nor is a view.    *)
AddImage(s, vk, outcome) ==
  LET r  == [s.res EXCEPT !.tex = Allocated(@, [image |-> vk, swap |-> TRUE])]
      ih == NewHandle(s.res.tex)
      d  == CreateTexture(r, outcome # "no depth")
      dv == CreateTextureView(d.res, d.handle, outcome # "no views")
      iv == CreateTextureView(dv.res, ih, outcome # "no views")
  IN  [res   |-> iv.res,
       chain |-> [vk        |-> Append(s.chain.vk, vk),
                  image     |-> Append(s.chain.image, ih),
                  depth     |-> Append(s.chain.depth, d.handle),
                  imageView |-> Append(s.chain.imageView, iv.handle),
                  depthView |-> Append(s.chain.depthView, dv.handle)]]

Outcomes == {"made", "no depth", "no views"}

(* createSwapchain(): the driver makes as many images as it likes.  The    *)
(* loop, by the number of its iterations done, and what is left at its end.*)
AddImages(r, vk, outcomes) ==
  LET after[n \in 0 .. Len(outcomes)] ==
        IF n = 0 THEN [res   |-> [r EXCEPT !.shown = {vk[i] : i \in DOMAIN vk}],
                       chain |-> NoChain]
        ELSE AddImage(after[n - 1], vk[n], outcomes[n])
  IN  after

createSwapchain(r, outcomes) ==
  AddImages(r, NewShown(r, Len(outcomes)), outcomes)[Len(outcomes)]

RemoveImage(r, chain, i) ==
  FreeTexture(
    DestroyTexture(
      DestroyTextureView(
        DestroyTextureView(r, chain.imageView[i]), chain.depthView[i]),
      chain.depth[i]),
    chain.image[i])

(* The loop of destroySwapchain(), as above.                               *)
RemoveSome(r, chain) ==
  LET after[n \in 0 .. Len(chain.image)] ==
        IF n = 0 THEN r ELSE RemoveImage(after[n - 1], chain, n)
  IN  after

RemoveImages(r, chain) == RemoveSome(r, chain)[Len(chain.image)]

(* destroySwapchain().  Bug variant: the vectors are not cleared.  Of the  *)
(* handles in them those that were passed by reference are invalid.        *)
destroySwapchainKeep(r, chain) ==
  LET gone == [i \in DOMAIN chain.image |-> InvalidHandle]
  IN  [res   |-> [RemoveImages(r, chain) EXCEPT !.shown = {}],
       chain |-> [chain EXCEPT !.depth = gone, !.imageView = gone,
                               !.depthView = gone]]

destroySwapchain(r, chain) ==
  [res |-> [RemoveImages(r, chain) EXCEPT !.shown = {}], chain |-> NoChain]

-----------------------------------------------------------------------------
(* freeAllVulkanResources() for the two pools: every view and every image  *)
(* they hold, of whatever kind, is destroyed, then both are cleared.       *)
FreePools(r) ==
  LET held == {r.tex.res[i] : i \in Visited(r.tex)} \ {NullRes}
      seen == {r.view.res[i] : i \in Visited(r.view)} \ {NullRes}
      v    == DestroyVkImageViews(r, seen)
      all  == {t.image : t \in held}
  IN  Fault([v EXCEPT !.images = @ \ all, !.tex = EmptyPool, !.view = EmptyPool],
            ~ all \subseteq r.images, "the allocator does not own the image")

(* Bug variant: the swapchain goes after the pools.                        *)
FreeAllSwapchainLast(r, chain) ==
  destroySwapchain(FreePools(r), chain).res

FreeAll(r, chain) == FreePools(destroySwapchain(r, chain).res)
=============================================================================
