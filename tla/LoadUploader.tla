---------------------------- MODULE LoadUploader ----------------------------
(***************************************************************************)
(* VulkanLoadTimeStagingUploader (src/Vulkan/VK_Staging.cpp:565): initial  *)
(* data of buffers and textures is copied to one CPU-side array at once    *)
(* and to the device by a later flush(), in a single submission.           *)
(*                                                                         *)
(* As Pool, the module has no variables: an uploader is a record and each  *)
(* method an operator.  Bytes are modelled by their owner: the tag of the  *)
(* upload that wrote them last.  An upload names its target by the raw     *)
(* VkBuffer or VkImage, whatever becomes of that object before the flush.  *)
(***************************************************************************)
EXTENDS Integers, Sequences

CONSTANTS
  UploadAlign,   \* the alignment of pushData: 256 bytes in the code
  AddrMod,       \* the number of values of an offset: 2^32 in the code
  Pad,           \* what the bytes between two uploads hold
  Garbage        \* what an upload delivers that has lost its bytes

ASSUME UploaderAssumption ==
  /\ UploadAlign \in Nat \ {0}
  /\ AddrMod \in Nat \ {0}
  /\ AddrMod % UploadAlign = 0

(* The constructor, and the state a flush leaves.                          *)
EmptyUploader == [data |-> <<>>, bufs |-> <<>>, texs |-> <<>>]

AlignUp(n) == ((n + UploadAlign - 1) \div UploadAlign) * UploadAlign

(* Bug variant: the mask without the addition rounds down.                 *)
PushOffsetDown(u) == ((Len(u.data) \div UploadAlign) * UploadAlign) % AddrMod

(* pushData(): the offset is cut to 32 bits, and so is the new length.     *)
PushOffset(u) == AlignUp(Len(u.data)) % AddrMod

PushData(u, tag, size) ==
  LET off == PushOffset(u)
  IN  [i \in 1 .. (off + size) % AddrMod |->
         IF i > off THEN tag
         ELSE IF i <= Len(u.data) THEN u.data[i] ELSE Pad]

(* Whether one more upload keeps the queued data below 2^32 bytes.         *)
Fits(u, size) == AlignUp(Len(u.data)) + size < AddrMod

Upload(u, dst, tag, size) ==
  [dst |-> dst, tag |-> tag, off |-> PushOffset(u), size |-> size]

uploadBuffer(u, dst, tag, size) ==
  [u EXCEPT !.bufs = Append(@, Upload(u, dst, tag, size)),
            !.data = PushData(u, tag, size)]

uploadTexture(u, dst, tag, size) ==
  [u EXCEPT !.texs = Append(@, Upload(u, dst, tag, size)),
            !.data = PushData(u, tag, size)]

(* flush() returns at once on two empty queues.  Bug variant: on one.      *)
NothingQueuedEither(u) == u.bufs = <<>> \/ u.texs = <<>>
NothingQueued(u) == u.bufs = <<>> /\ u.texs = <<>>

(* What the copy of one upload delivers: the bytes its range has now.      *)
Delivered(u, up) ==
  IF \A i \in up.off + 1 .. up.off + up.size :
       i <= Len(u.data) /\ u.data[i] = up.tag
  THEN up.tag
  ELSE Garbage

Queued(u) == {u.bufs[i] : i \in DOMAIN u.bufs} \cup
             {u.texs[i] : i \in DOMAIN u.texs}

Targets(u) == {up.dst : up \in Queued(u)}

(* The contents of the targets after the flush.  There is no barrier       *)
(* between the copies: of two to one target either may be the last.        *)
Copies(u) ==
  {f \in [Targets(u) -> {Delivered(u, up) : up \in Queued(u)}] :
     \A o \in Targets(u) :
       \E up \in Queued(u) : up.dst = o /\ f[o] = Delivered(u, up)}

(* Bug variant: the data is cleared and the queues are not.                *)
FlushedDataOnly(u) == [u EXCEPT !.data = <<>>]
Flushed(u) == EmptyUploader
=============================================================================
