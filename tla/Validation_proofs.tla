-------------------------- MODULE Validation_proofs --------------------------
(***************************************************************************)
(* The validation layer answers right, for every number of threads,        *)
(* objects and lists, every choice of categories and every program.        *)
(*                                                                         *)
(* Each table of the layer agrees with the program about everything no     *)
(* call is about to change; while a thread is in a call that changes       *)
(* something, the table still holds the old truth about it.  Nothing is    *)
(* claimed of a table once the program made a mistake, unless all          *)
(* categories are on and the mistake is one that the functions look for.   *)
(*                                                                         *)
(* What they look for is not what the rules of the API ask (Follows): they *)
(* add an offset and a size in as many bits as each has, and an indexed    *)
(* draw may have no instances.  Seems is the rules as the functions see    *)
(* them, and SeemsRight says that only the overlooked mistakes pass them.  *)
(***************************************************************************)
EXTENDS Validation, WellFoundedInduction, TLAPS

States == {"INITIAL", "RECORDING", "EXECUTABLE", "SUBMITTED"}

InfoType == [state : States, inPass : BOOLEAN, inRendering : BOOLEAN,
             pipeline : BOOLEAN, vertex : BOOLEAN, index : BOOLEAN]

Entries == [op : DOMAIN Gate, list : Lists \cup {None}, obj : Objects \cup {None},
            dst : Buffers \cup {None}, ok : BOOLEAN, args : Seq(Nat),
            handles : Seq(Objects)]

TablesType ==
  [buffers : SUBSET Buffers, bufferMapped : SUBSET Buffers,
   textures : SUBSET Textures, viewHandles : [Textures -> SUBSET Views],
   views : SUBSET Views, pipelines : SUBSET Pipelines,
   registered : SUBSET Lists, lists : [Lists -> InfoType]]

Life == {"new", "alive", "dead"}

Types ==
  /\ enabled \in SUBSET Categories
  /\ holder \in Threads \cup {None} /\ thrown \in SUBSET Threads
  /\ counted \in BOOLEAN
  /\ tables \in TablesType
  /\ at \in [Threads -> {Idle} \cup Entries]
  /\ desc \in [Buffers -> [usage : BOOLEAN, gpuOnly : BOOLEAN]]
  /\ status \in [Things -> Life]
  /\ mapped \in SUBSET Buffers
  /\ rec \in [Lists -> InfoType]
  /\ mistaken \in Threads \cup {None}
  /\ overlooked \in BOOLEAN

(* The arguments of a call of thread t.                                    *)
TextureOps == {"RegisterTexture", "UnregisterTexture", "ValidateTexture"}
ViewOps == {"RegisterTextureView", "UnregisterTextureView",
            "ValidateTextureView"}
PipelineOps == {"RegisterPipeline", "UnregisterPipeline", "ValidatePipeline"}
SetBufferOps == {"ValidateSetVertexBuffer", "ValidateSetIndexBuffer"}
RecordOps == ListOps \cup DrawOps \cup SetBufferOps
               \cup {"RegisterCommandList", "ValidateSetPipeline"}

ObjectCall(c, ops, K) == c.op \in ops /\ c.list = None /\ c.obj \in K

ListCall(t, c) == c.op \in RecordOps /\ c.list \in Lists /\ Owner[c.list] = t

Shape(t, c) ==
  \/ ObjectCall(c, {"RegisterBuffer"} \cup BufferOps, Buffers) /\ c.dst = None
  \/ ObjectCall(c, TextureOps, Textures) /\ c.dst = None
  \/ ObjectCall(c, ViewOps, Views) /\ c.dst = None
  \/ ObjectCall(c, PipelineOps, Pipelines) /\ c.dst = None
  \/ ObjectCall(c, {"ValidateBufferCopy"}, Buffers) /\ c.dst \in Buffers
  \/ ObjectCall(c, {"ValidateBufferWrite"}, Buffers) /\ c.dst = None
  \/ /\ ListCall(t, c) /\ c.dst = None
     /\ \/ /\ c.op \in ListOps \cup DrawOps \cup {"RegisterCommandList"}
           /\ c.obj = None
        \/ c.op = "ValidateSetPipeline" /\ c.obj \in Pipelines
        \/ c.op \in SetBufferOps /\ c.obj \in Buffers
  \/ c.op \in DescOps /\ c.list = None /\ c.obj = None /\ c.dst = None

(* The handles a call has left to check: one that checks nothing but a     *)
(* handle ends with it.                                                    *)
Alone == {"ValidateBuffer", "ValidateTexture", "ValidateTextureView",
          "ValidatePipeline"}

HandlesLeft(c) ==
  \/ c.handles = Handles(c)
  \/ c.op \notin Alone /\ c.handles = <<>>
  \/ c.op = "ValidateBufferCopy" /\ c.handles = <<c.dst>>

CallsWellFormed ==
  \A t \in Threads : at[t] # Idle =>
    Shape(t, at[t]) /\ HandlesLeft(at[t]) /\ Gate[at[t].op] \in enabled

(* Nobody is in a call that changes what another thread's call uses.       *)
Apart(A) ==
  \A t, u \in Threads : t # u => Changes(A[t]) \cap Uses(A[u]) \subseteq {None}

(* What the layer does not watch it knows nothing of.                      *)
OffIsEmpty ==
  /\ "RESOURCE" \notin enabled =>
       tables.buffers = {} /\ tables.textures = {} /\ tables.views = {}
  /\ "MEMORY" \notin enabled => tables.bufferMapped = {}
  /\ "PIPELINE" \notin enabled => tables.pipelines = {}
  /\ "COMMAND_LIST" \notin enabled => tables.registered = {}

(* Mapped buffers are alive, and so is the texture of a view that is.      *)
ProgramSane ==
  /\ \A b \in mapped : Alive(b)
  /\ \A v \in Views : /\ Alive(v) => Alive(Parent[v])
                      /\ status[v] # "new" => status[Parent[v]] # "new"

-----------------------------------------------------------------------------
(* What the layer tests of the arguments, and whether a call seems right   *)
(* to it.                                                                  *)
Tested(c) ==
  /\ c.op \in ArgumentOps \cup DescOps => c.ok
  /\ c.op \in DrawOps => c.args[1] # 0
  /\ c.op = "ValidateDrawCall" => c.args[2] # 0
  /\ c.op = "ValidateBufferWrite" =>
       ~ OutOfBounds(c.args[1], c.args[2], Values32)
  /\ c.op = "ValidateBufferCopy" =>
       ~ OutOfBounds(c.args[1], c.args[3], Values64)
       /\ ~ OutOfBounds(c.args[2], c.args[3], Values64)

Seems(c) == InOrder(c) /\ Tested(c)

(* Nothing escapes the layer.                                              *)
AllOn == enabled = Categories /\ ~ overlooked

-----------------------------------------------------------------------------
(* Calls under way that are no mistake, m being the thread that made one.  *)
Doing(A, m, u, ops) == A[u] # Idle /\ u # m /\ A[u].op \in ops

(* What stays true of the program as long as one is in the call.           *)
CallFacts(c, S, M) ==
  /\ c.op \in Creating => S[Thing(c)] = "alive"
  /\ c.op \in Destroying => S[Thing(c)] = "dead"
  /\ c.op = "RegisterTexture" => \A v \in Views : Parent[v] = c.obj => S[v] = "new"
  /\ c.op = "UnregisterTexture" =>
       \A v \in Views : Parent[v] = c.obj => S[v] # "alive"
  /\ c.op = "RegisterTextureView" => S[Parent[c.obj]] = "alive"
  /\ c.op \in {"RegisterBuffer", "UnregisterBuffer", "OnBufferUnmap"} =>
       c.obj \notin M
  /\ c.op = "OnBufferMap" => c.obj \in M /\ ~ desc[c.obj].gpuOnly
  /\ c.op \in {"OnBufferMap", "OnBufferUnmap", "ValidateBufferCopy",
               "ValidateBufferWrite", "ValidateSetPipeline"}
              \cup SetBufferOps \cup Alone => S[c.obj] = "alive"
  /\ c.op \in {"ValidateBufferCopy"} \cup SetBufferOps => desc[c.obj].usage
  /\ c.op = "ValidateBufferCopy" => S[c.dst] = "alive" /\ desc[c.dst].usage
  /\ c.op = "ValidateBufferWrite" => ~ desc[c.obj].gpuOnly
  /\ c.op \in RecordOps \ {"UnregisterCommandList"} => S[c.list] = "alive"
  /\ Tested(c)

FactsHold(A, m, S, M) ==
  \A u \in Threads : A[u] # Idle /\ u # m => CallFacts(A[u], S, M)

(* A table T of things of kind K, kept by the functions reg and unreg:     *)
(* right about what neither is about to work on.                           *)
Settled(A, m, ops, o) == \A u \in Threads : Doing(A, m, u, ops) => Thing(A[u]) # o

Kept(A, m, S, K, T, reg, unreg) ==
  /\ \A o \in K : Settled(A, m, {reg, unreg}, o) => (o \in T <=> S[o] = "alive")
  /\ \A u \in Threads : Doing(A, m, u, {unreg}) => Thing(A[u]) \in T

(* The buffers that are mapped, M of the program and B of the layer.       *)
MapOps == {"RegisterBuffer", "UnregisterBuffer", "OnBufferMap", "OnBufferUnmap"}

MapsKept(A, m, M, B) ==
  /\ \A b \in Buffers : Settled(A, m, MapOps, b) => (b \in B <=> b \in M)
  /\ \A u \in Threads :
       /\ Doing(A, m, u, {"UnregisterBuffer", "OnBufferMap"}) => A[u].obj \notin B
       /\ Doing(A, m, u, {"OnBufferUnmap"}) => A[u].obj \in B

(* The views a texture is said to have: all of them, and others that are   *)
(* destroyed.                                                              *)
ViewsKnown(S, H) ==
  \A x \in Textures : \A v \in H[x] : Parent[v] = x /\ S[v] # "new"

ViewsKept(A, m, S, H) ==
  \A v \in Views : S[v] = "alive" /\ Settled(A, m, {"RegisterTextureView"}, v)
                     => v \in H[Parent[v]]

(* What the layer knows of a list whose true state is r.                   *)
Match(i, r) ==
  /\ i.state = r.state
  /\ IF "RENDER_PASS" \in enabled
     THEN i.inPass = r.inPass /\ i.inRendering = r.inRendering
     ELSE ~ i.inPass /\ ~ i.inRendering
  /\ "PIPELINE" \in enabled => i.pipeline = r.pipeline
  /\ "STATE" \in enabled => i.vertex = r.vertex /\ i.index = r.index

(* The rules about a list in state r, other than that it is alive.         *)
Rule(r, op) ==
  LET inside == r.inPass \/ r.inRendering
  IN
  /\ op = "UnregisterCommandList" => ~ inside
  /\ op = "OnCommandListBegin" => r.state \in {"INITIAL", "EXECUTABLE"}
  /\ op = "OnCommandListSubmit" => r.state = "EXECUTABLE"
  /\ op \in {"OnCommandListEnd", "ValidateBeginRenderPass",
             "ValidateBeginRendering"} => r.state = "RECORDING" /\ ~ inside
  /\ op \in {"ValidateDrawCall", "ValidateDrawIndexed"} =>
       r.state = "RECORDING" /\ inside /\ r.pipeline /\ r.vertex
  /\ op = "ValidateDrawIndexed" => r.index
  /\ op = "ValidateEndRenderPass" => r.state = "RECORDING" /\ r.inPass
  /\ op = "ValidateEndRendering" => r.state = "RECORDING" /\ r.inRendering
  /\ op \in {"ValidateSetPipeline"} \cup SetBufferOps => r.state = "RECORDING"

(* A list one is at work on: the layer has its state of before the call.   *)
Before(i, r, op) ==
  \E old \in InfoType : Match(i, old) /\ Rule(old, op) /\ r = Recorded(old, op)

ListKept(A, m, R, I, l) ==
  IF Doing(A, m, Owner[l], RecordOps) /\ A[Owner[l]].list = l
  THEN Before(I[l], R[l], A[Owner[l]].op) ELSE Match(I[l], R[l])

-----------------------------------------------------------------------------
(* The tables are claimed to be right.                                     *)
Watched == (TablesKept /\ mistaken = None) \/ AllOn

TablesRight ==
  Watched =>
  /\ "RESOURCE" \in enabled =>
       /\ Kept(at, mistaken, status, Buffers, tables.buffers,
               "RegisterBuffer", "UnregisterBuffer")
       /\ Kept(at, mistaken, status, Textures, tables.textures,
               "RegisterTexture", "UnregisterTexture")
       /\ Kept(at, mistaken, status, Views, tables.views,
               "RegisterTextureView", "UnregisterTextureView")
       /\ ViewsKept(at, mistaken, status, tables.viewHandles)
  /\ "PIPELINE" \in enabled =>
       Kept(at, mistaken, status, Pipelines, tables.pipelines,
            "RegisterPipeline", "UnregisterPipeline")
  /\ "COMMAND_LIST" \in enabled =>
       /\ Kept(at, mistaken, status, Lists, tables.registered,
               "RegisterCommandList", "UnregisterCommandList")
       /\ \A l \in Lists : ListKept(at, mistaken, rec, tables.lists, l)
  /\ {"RESOURCE", "MEMORY"} \subseteq enabled =>
       MapsKept(at, mistaken, mapped, tables.bufferMapped)

(* The mistake, every category being on: the thread is still in the call,  *)
(* and the handles that passed were those of live objects; or it has been  *)
(* reported.                                                               *)
HandlesPassed(c) ==
  \/ c.handles = Handles(c)
  \/ c.op \notin Alone /\ c.handles = <<>>
     /\ \A i \in 1 .. Len(Handles(c)) : Alive(Handles(c)[i])
  \/ c.op = "ValidateBufferCopy" /\ c.handles = <<c.dst>> /\ Alive(c.obj)

MistakeCaught ==
  AllOn /\ mistaken # None =>
    \/ counted
    \/ at[mistaken] # Idle /\ ~ Seems(at[mistaken])
       /\ HandlesPassed(at[mistaken])

(* A counted report ends the program's calls: it is of the mistake.  And   *)
(* to create a thing is none.                                              *)
MistakeLimits ==
  /\ counted => mistaken # None /\ at[mistaken] = Idle
  /\ mistaken # None => at[mistaken].op \notin Creating
  /\ overlooked => mistaken # None

(* The inductive invariant.                                                *)
IInv == /\ Types /\ TypeOK /\ CallsWellFormed /\ Apart(at) /\ OffIsEmpty
        /\ ProgramSane /\ FactsHold(at, mistaken, status, mapped)
        /\ ViewsKnown(status, tables.viewHandles) /\ TablesRight
        /\ MistakeCaught /\ MistakeLimits /\ NoFalseReports

-----------------------------------------------------------------------------
(* The same calls of the functions ops are under way.                      *)
SameDoing(A, m, A2, m2, ops) ==
  \A u \in Threads :
    /\ Doing(A2, m2, u, ops) => Doing(A, m, u, ops)
    /\ Doing(A, m, u, ops) =>
         /\ Doing(A2, m2, u, ops)
         /\ A2[u].op = A[u].op /\ A2[u].obj = A[u].obj /\ A2[u].list = A[u].list

(* The things settled are the same then.                                   *)
LEMMA SameSettled ==
  ASSUME NEW A, NEW m, NEW A2, NEW m2, NEW ops, SameDoing(A, m, A2, m2, ops), NEW o
  PROVE  Settled(A2, m2, ops, o) <=> Settled(A, m, ops, o)
BY DEF SameDoing, Settled, Thing

(* They are under way of fewer functions, too.                             *)
LEMMA SameFewer ==
  ASSUME NEW A, NEW m, NEW A2, NEW m2, NEW ops, SameDoing(A, m, A2, m2, ops),
         NEW some \in SUBSET ops
  PROVE  SameDoing(A, m, A2, m2, some)
BY DEF SameDoing, Doing

(* And a table stays as right as it was.                                   *)
LEMMA KeptSame ==
  ASSUME NEW A, NEW m, NEW S, NEW A2, NEW m2, NEW S2, NEW K, NEW T,
         NEW reg, NEW unreg, Kept(A, m, S, K, T, reg, unreg),
         SameDoing(A, m, A2, m2, {reg, unreg}),
         \A o \in K : S2[o] = "alive" <=> S[o] = "alive"
  PROVE  Kept(A2, m2, S2, K, T, reg, unreg)
<1>1. ASSUME NEW o \in K, Settled(A2, m2, {reg, unreg}, o)
      PROVE  o \in T <=> S2[o] = "alive"
  <2>1. Settled(A, m, {reg, unreg}, o)
    BY <1>1, SameSettled
  <2>2. QED BY <2>1 DEF Kept
<1>2. ASSUME NEW u \in Threads, Doing(A2, m2, u, {unreg})
      PROVE  Thing(A2[u]) \in T
  <2>1. Doing(A, m, u, {unreg}) /\ Thing(A2[u]) = Thing(A[u])
    BY <1>2 DEF SameDoing, Doing, Thing
  <2>2. QED BY <2>1 DEF Kept
<1>3. QED BY <1>1, <1>2 DEF Kept

(* A thread that enters or leaves a function changes the rest of nothing.  *)
LEMMA SameButOne ==
  ASSUME NEW A, DOMAIN A = Threads, NEW t \in Threads, NEW x, NEW A2,
         A2 = [A EXCEPT ![t] = x], NEW m, NEW m2, m2 = m \/ (m = None /\ m2 = t),
         NEW ops, ~ Doing(A, m, t, ops), ~ Doing(A2, m2, t, ops)
  PROVE  SameDoing(A, m, A2, m2, ops)
<1>1. ASSUME NEW u \in Threads, u # t
      PROVE  A2[u] = A[u] /\ (u # m2 <=> u # m)
  BY <1>1, ValidationAssumption
<1>2. QED BY <1>1 DEF SameDoing, Doing

(* A call registers or unregisters: what it works on is no longer settled, *)
(* and the table has the old truth.                                        *)
LEMMA KeptStart ==
  ASSUME NEW A, DOMAIN A = Threads, NEW t \in Threads, A[t] = Idle, NEW e, e # Idle,
         NEW A2, A2 = [A EXCEPT ![t] = e], NEW m, m # t,
         NEW K, NEW S, DOMAIN S = Things, K \subseteq Things, NEW S2, NEW T,
         NEW reg, NEW unreg, reg # unreg, Kept(A, m, S, K, T, reg, unreg),
         e.op \in {reg, unreg}, NEW o \in K, o = Thing(e),
         Settled(A, m, {reg, unreg}, o), e.op = unreg => S[o] = "alive",
         \A p \in K \ {o} : S2[p] = S[p]
  PROVE  Kept(A2, m, S2, K, T, reg, unreg)
<1>1. A2[t] = e /\ \A u \in Threads \ {t} : A2[u] = A[u]
  OBVIOUS
<1>2. Doing(A2, m, t, {reg, unreg})
  BY <1>1 DEF Doing
<1>3. ASSUME NEW p \in K, Settled(A2, m, {reg, unreg}, p)
      PROVE  p \in T <=> S2[p] = "alive"
  <2>1. p # o
    BY <1>1, <1>2, <1>3 DEF Settled
  <2>2. Settled(A, m, {reg, unreg}, p)
    BY <1>1, <1>3 DEF Settled, Doing
  <2>3. QED BY <2>1, <2>2 DEF Kept
<1>4. ASSUME NEW u \in Threads, Doing(A2, m, u, {unreg})
      PROVE  Thing(A2[u]) \in T
  <2>1. CASE u = t
    BY <1>1, <1>4, <2>1 DEF Kept, Doing
  <2>2. CASE u # t
    BY <1>1, <1>4, <2>2 DEF Kept, Doing
  <2>3. QED BY <2>1, <2>2
<1>5. QED BY <1>3, <1>4 DEF Kept

(* It returns: the table has caught up.                                    *)
LEMMA KeptEnd ==
  ASSUME NEW A, DOMAIN A = Threads, NEW t \in Threads, NEW m,
         NEW S, NEW K, NEW T, NEW T2, NEW reg, NEW unreg, reg # unreg,
         Kept(A, m, S, K, T, reg, unreg), Doing(A, m, t, {reg, unreg}),
         A[t].op = reg => T2 = T \cup {Thing(A[t])} /\ S[Thing(A[t])] = "alive",
         A[t].op = unreg => T2 = T \ {Thing(A[t])} /\ S[Thing(A[t])] # "alive",
         \A u \in Threads \ {t} :
           Doing(A, m, u, {reg, unreg}) => Thing(A[u]) # Thing(A[t])
  PROVE  Kept([A EXCEPT ![t] = Idle], m, S, K, T2, reg, unreg)
<1> PICK A2 : A2 = [A EXCEPT ![t] = Idle]
  OBVIOUS
<1> PICK o : o = Thing(A[t])
  OBVIOUS
<1>1. A2[t] = Idle /\ \A u \in Threads \ {t} : A2[u] = A[u]
  OBVIOUS
<1>2. A[t].op \in {reg, unreg}
  BY DEF Doing
<1>3. ASSUME NEW p \in K, Settled(A2, m, {reg, unreg}, p)
      PROVE  p \in T2 <=> S[p] = "alive"
  <2>1. CASE p = o
    BY <1>2, <2>1
  <2>2. CASE p # o
    <3>1. Settled(A, m, {reg, unreg}, p)
      BY <1>1, <1>3, <2>2 DEF Settled, Doing
    <3>2. QED BY <1>2, <2>2, <3>1 DEF Kept
  <2>3. QED BY <2>1, <2>2
<1>4. ASSUME NEW u \in Threads, Doing(A2, m, u, {unreg})
      PROVE  Thing(A2[u]) \in T2
  <2>1. u # t /\ A2[u] = A[u] /\ Doing(A, m, u, {unreg})
    BY <1>1, <1>4 DEF Doing
  <2>2. Thing(A[u]) \in T /\ Thing(A[u]) # o
    BY <2>1 DEF Kept, Doing
  <2>3. QED BY <1>2, <2>1, <2>2
<1>5. QED BY <1>3, <1>4 DEF Kept

-----------------------------------------------------------------------------
(* Calls.                                                                  *)

(* Things of one kind are none of another.                                 *)
LEMMA KindsApart ==
  /\ \A o \in Buffers : o \notin Textures /\ o \notin Views /\ o \notin Pipelines
                        /\ o \notin Lists /\ o # None
  /\ \A o \in Textures : o \notin Views /\ o \notin Pipelines /\ o \notin Lists
                         /\ o # None
  /\ \A o \in Views : o \notin Pipelines /\ o \notin Lists /\ o # None
  /\ \A o \in Pipelines : o \notin Lists /\ o # None
  /\ \A o \in Lists : o # None
BY ValidationAssumption DEF Things, Objects

(* The categories of the functions that keep tables.                       *)
LEMMA GateIs ==
  /\ \A op \in {"RegisterBuffer", "UnregisterBuffer", "RegisterTexture",
                "UnregisterTexture", "RegisterTextureView",
                "UnregisterTextureView"} : Gate[op] = "RESOURCE"
  /\ \A op \in {"OnBufferMap", "OnBufferUnmap"} : Gate[op] = "MEMORY"
  /\ \A op \in {"RegisterPipeline", "UnregisterPipeline",
                "ValidateSetPipeline"} : Gate[op] = "PIPELINE"
  /\ \A op \in {"RegisterCommandList", "UnregisterCommandList",
                "OnCommandListBegin", "OnCommandListEnd", "OnCommandListSubmit",
                "OnCommandListReset", "ValidateDrawCall", "ValidateDrawIndexed"} :
       Gate[op] = "COMMAND_LIST"
  /\ \A op \in {"ValidateBeginRenderPass", "ValidateEndRenderPass",
                "ValidateBeginRendering", "ValidateEndRendering"} :
       Gate[op] = "RENDER_PASS"
  /\ \A op \in SetBufferOps : Gate[op] = "STATE"
BY DEF Gate, SetBufferOps

(* The operations of the calls.                                            *)
LEMMA ShapeOps ==
  ASSUME NEW t, NEW c, Shape(t, c)
  PROVE  c.op \in DOMAIN Gate /\ c.op # "none"
BY DEF Shape, ObjectCall, ListCall, Gate, BufferOps, TextureOps, ViewOps,
       PipelineOps, RecordOps, ListOps, DrawOps, SetBufferOps, DescOps

(* The arguments that are numbers, and those that cannot be wrong.         *)
Numbers(c) ==
  /\ c.ok \in BOOLEAN /\ (c.op \notin ArgumentOps \cup DescOps => c.ok)
  /\ c.args \in Seq(Nat)
  /\ c.op \in DrawOps => c.args[1] \in Nat /\ c.args[2] \in Nat
  /\ c.op = "ValidateBufferWrite" =>
       c.args[1] \in 0 .. Values32 - 1 /\ c.args[2] \in 0 .. Values32 - 1
  /\ c.op = "ValidateBufferCopy" =>
       /\ c.args[1] \in 0 .. Values64 - 1 /\ c.args[2] \in 0 .. Values64 - 1
       /\ c.args[3] \in 0 .. Values64 - 1

(* A call without numbers.                                                 *)
LEMMA NoNumbers ==
  ASSUME NEW c,
         c.ok = TRUE \/ (c.ok \in BOOLEAN /\ c.op \in ArgumentOps \cup DescOps),
         c.args = <<>>,
         c.op \notin DrawOps \cup {"ValidateBufferWrite", "ValidateBufferCopy"}
  PROVE  Numbers(c)
<1>1. c.ok \in BOOLEAN /\ (c.op \notin ArgumentOps \cup DescOps => c.ok)
  BY Zenon
<1>2. QED BY <1>1 DEF Numbers

(* The numbers have their widths.                                          *)
LEMMA Widths ==
  /\ UInt32 \subseteq 0 .. Values32 - 1
  /\ UInt64 \subseteq 0 .. Values64 - 1
<1>1. Values32 \in Nat /\ Values64 \in Nat /\ Offsets \subseteq Nat
  BY ValidationAssumption
<1>2. ASSUME NEW i \in UInt32 PROVE i \in 0 .. Values32 - 1
  BY <1>1, <1>2 DEF UInt32
<1>3. ASSUME NEW i \in UInt64 PROVE i \in 0 .. Values64 - 1
  BY <1>1, <1>3 DEF UInt64
<1>4. QED BY <1>2, <1>3

(* Whoever calls has made the arguments well.                              *)
LEMMA CallShape ==
  ASSUME NEW t \in Threads, NEW c \in Calls(t)
  PROVE  Shape(t, c) /\ Numbers(c)
<1> DEFINE mine == {l \in Lists : Owner[l] = t}
           C1 == {Call(op, None, o, None, TRUE) :
                    op \in {"RegisterBuffer"} \cup BufferOps, o \in Buffers}
           C2 == {Call(op, None, o, None, TRUE) :
                    op \in {"RegisterTexture", "UnregisterTexture",
                            "ValidateTexture"},
                    o \in Textures}
           C3 == {Call(op, None, o, None, TRUE) :
                    op \in {"RegisterTextureView", "UnregisterTextureView",
                            "ValidateTextureView"},
                    o \in Views}
           C4 == {Call(op, None, o, None, TRUE) :
                    op \in {"RegisterPipeline", "UnregisterPipeline",
                            "ValidatePipeline"},
                    o \in Pipelines}
           C5 == {Call(op, l, None, None, ok) :
                    op \in ArgumentOps, l \in mine, ok \in BOOLEAN}
           C6 == {Call(op, l, None, None, TRUE) :
                    op \in {"RegisterCommandList"} \cup ListOps, l \in mine}
           C7 == {Call("ValidateSetPipeline", l, p, None, TRUE) :
                    l \in mine, p \in Pipelines}
           C8 == {Call(op, l, b, None, TRUE) :
                    op \in {"ValidateSetVertexBuffer", "ValidateSetIndexBuffer"},
                    l \in mine, b \in Buffers}
           C9 == {CallWith(op, l, None, None, n) :
                    op \in DrawOps, l \in mine, n \in (0 .. 1) \X (0 .. 1)}
           C10 == {CallWith("ValidateBufferCopy", None, b, d, n) :
                     b \in Buffers, d \in Buffers,
                     n \in UInt64 \X UInt64 \X UInt64}
           C11 == {CallWith("ValidateBufferWrite", None, b, None, n) :
                     b \in Buffers, n \in UInt32 \X UInt32}
           C12 == {Call(op, None, None, None, ok) :
                     op \in DescOps, ok \in BOOLEAN}
<1> USE DEF Call
<1>1. CASE c \in C1
  <2>1. Shape(t, c)
    BY <1>1 DEF Shape, ObjectCall
  <2>2. /\ c.ok = TRUE /\ c.args = <<>>
        /\ c.op \in {"RegisterBuffer"} \cup BufferOps
    BY <1>1
  <2>3. c.op \notin DrawOps \cup {"ValidateBufferWrite", "ValidateBufferCopy"}
    BY <2>2 DEF DrawOps, BufferOps
  <2>4. Numbers(c)
    BY <2>2, <2>3, NoNumbers
  <2>5. QED BY <2>1, <2>4
<1>2. CASE c \in C2
  <2>1. Shape(t, c)
    BY <1>2 DEF Shape, ObjectCall, TextureOps
  <2>2. /\ c.ok = TRUE /\ c.args = <<>>
        /\ c.op \in {"RegisterTexture", "UnregisterTexture", "ValidateTexture"}
    BY <1>2
  <2>3. c.op \notin DrawOps \cup {"ValidateBufferWrite", "ValidateBufferCopy"}
    BY <2>2 DEF DrawOps
  <2>4. Numbers(c)
    BY <2>2, <2>3, NoNumbers
  <2>5. QED BY <2>1, <2>4
<1>3. CASE c \in C3
  <2>1. Shape(t, c)
    BY <1>3 DEF Shape, ObjectCall, ViewOps
  <2>2. /\ c.ok = TRUE /\ c.args = <<>>
        /\ c.op \in {"RegisterTextureView", "UnregisterTextureView",
                    "ValidateTextureView"}
    BY <1>3
  <2>3. c.op \notin DrawOps \cup {"ValidateBufferWrite", "ValidateBufferCopy"}
    BY <2>2 DEF DrawOps
  <2>4. Numbers(c)
    BY <2>2, <2>3, NoNumbers
  <2>5. QED BY <2>1, <2>4
<1>4. CASE c \in C4
  <2>1. Shape(t, c)
    BY <1>4 DEF Shape, ObjectCall, PipelineOps
  <2>2. /\ c.ok = TRUE /\ c.args = <<>>
        /\ c.op \in {"RegisterPipeline", "UnregisterPipeline", "ValidatePipeline"}
    BY <1>4
  <2>3. c.op \notin DrawOps \cup {"ValidateBufferWrite", "ValidateBufferCopy"}
    BY <2>2 DEF DrawOps
  <2>4. Numbers(c)
    BY <2>2, <2>3, NoNumbers
  <2>5. QED BY <2>1, <2>4
<1>5. CASE c \in C5
  <2>1. Shape(t, c)
    BY <1>5 DEF Shape, ListCall, ArgumentOps, RecordOps, ListOps, DrawOps
  <2>2. c.ok \in BOOLEAN /\ c.op \in ArgumentOps /\ c.args = <<>>
    BY <1>5
  <2>3. c.op \notin DrawOps \cup {"ValidateBufferWrite", "ValidateBufferCopy"}
    BY <2>2 DEF ArgumentOps, DrawOps
  <2>4. Numbers(c)
    BY <2>2, <2>3, NoNumbers
  <2>5. QED BY <2>1, <2>4
<1>6. CASE c \in C6
  <2>1. Shape(t, c)
    BY <1>6 DEF Shape, ListCall, RecordOps
  <2>2. /\ c.ok = TRUE /\ c.args = <<>>
        /\ c.op \in {"RegisterCommandList"} \cup ListOps
    BY <1>6
  <2>3. c.op \notin DrawOps \cup {"ValidateBufferWrite", "ValidateBufferCopy"}
    BY <2>2 DEF DrawOps, ListOps
  <2>4. Numbers(c)
    BY <2>2, <2>3, NoNumbers
  <2>5. QED BY <2>1, <2>4
<1>7. CASE c \in C7
  <2>1. Shape(t, c)
    BY <1>7 DEF Shape, ListCall, RecordOps
  <2>2. c.ok = TRUE /\ c.args = <<>>
    BY <1>7
  <2>3. c.op \notin DrawOps \cup {"ValidateBufferWrite", "ValidateBufferCopy"}
    BY <1>7 DEF DrawOps
  <2>4. Numbers(c)
    BY <2>2, <2>3, NoNumbers
  <2>5. QED BY <2>1, <2>4
<1>8. CASE c \in C8
  <2>1. Shape(t, c)
    BY <1>8 DEF Shape, ListCall, RecordOps, SetBufferOps
  <2>2. /\ c.ok = TRUE /\ c.args = <<>>
        /\ c.op \in {"ValidateSetVertexBuffer", "ValidateSetIndexBuffer"}
    BY <1>8
  <2>3. c.op \notin DrawOps \cup {"ValidateBufferWrite", "ValidateBufferCopy"}
    BY <2>2 DEF DrawOps
  <2>4. Numbers(c)
    BY <2>2, <2>3, NoNumbers
  <2>5. QED BY <2>1, <2>4
<1>9. CASE c \in C9
  <2>1. PICK op \in DrawOps, l \in mine, n \in (0 .. 1) \X (0 .. 1) :
          c = CallWith(op, l, None, None, n)
    BY <1>9
  <2>2. /\ c.op = op /\ c.list = l /\ c.obj = None /\ c.dst = None /\ c.ok = TRUE
        /\ c.args = n
    BY <2>1 DEF CallWith
  <2>3. Shape(t, c)
    BY <2>2 DEF Shape, ListCall, RecordOps
  <2>4. PICK i \in 0 .. 1, j \in 0 .. 1 : n = <<i, j>>
    BY <2>1
  <2>8. n[1] \in Nat /\ n[2] \in Nat /\ n \in Seq(Nat)
    <3>1. i \in Nat /\ j \in Nat
      BY <2>4
    <3>2. QED BY <2>4, <3>1
  <2>5. op \notin {"ValidateBufferWrite", "ValidateBufferCopy"}
    BY <2>1 DEF DrawOps
  <2>6. QED BY <2>2, <2>3, <2>5, <2>8 DEF Numbers
<1>10. CASE c \in C10
  <2>1. PICK b \in Buffers, d \in Buffers, n \in UInt64 \X UInt64 \X UInt64 :
          c = CallWith("ValidateBufferCopy", None, b, d, n)
    BY <1>10
  <2>2. /\ c.op = "ValidateBufferCopy" /\ c.list = None /\ c.obj = b /\ c.dst = d
        /\ c.ok = TRUE /\ c.args = n
    BY <2>1 DEF CallWith
  <2>3. Shape(t, c)
    BY <2>2 DEF Shape, ObjectCall
  <2>5. PICK i \in UInt64, j \in UInt64, k \in UInt64 : n = <<i, j, k>>
    BY <2>1
  <2>6. /\ n[1] \in 0 .. Values64 - 1 /\ n[2] \in 0 .. Values64 - 1
        /\ n[3] \in 0 .. Values64 - 1 /\ n \in Seq(Nat)
    <3>1. {i, j, k} \subseteq 0 .. Values64 - 1
      BY <2>5, Widths
    <3>2. QED BY <2>5, <3>1
  <2>7. c.op \notin DrawOps /\ c.op # "ValidateBufferWrite"
    BY <2>2 DEF DrawOps
  <2>8. c.ok \in BOOLEAN /\ (c.op \notin ArgumentOps \cup DescOps => c.ok)
    BY <2>2, Zenon
  <2>9. QED BY <2>2, <2>3, <2>6, <2>7, <2>8 DEF Numbers
<1>11. CASE c \in C11
  <2>1. PICK b \in Buffers, n \in UInt32 \X UInt32 :
          c = CallWith("ValidateBufferWrite", None, b, None, n)
    BY <1>11
  <2>2. /\ c.op = "ValidateBufferWrite" /\ c.list = None /\ c.obj = b /\ c.dst = None
        /\ c.ok = TRUE /\ c.args = n
    BY <2>1 DEF CallWith
  <2>3. Shape(t, c)
    BY <2>2 DEF Shape, ObjectCall
  <2>5. PICK i \in UInt32, j \in UInt32 : n = <<i, j>>
    BY <2>1
  <2>6. /\ n[1] \in 0 .. Values32 - 1 /\ n[2] \in 0 .. Values32 - 1
        /\ n \in Seq(Nat)
    <3>1. {i, j} \subseteq 0 .. Values32 - 1
      BY <2>5, Widths
    <3>2. QED BY <2>5, <3>1
  <2>7. c.op \notin DrawOps /\ c.op # "ValidateBufferCopy"
    BY <2>2 DEF DrawOps
  <2>8. c.ok \in BOOLEAN /\ (c.op \notin ArgumentOps \cup DescOps => c.ok)
    BY <2>2, Zenon
  <2>9. QED BY <2>2, <2>3, <2>6, <2>7, <2>8 DEF Numbers
<1>12. CASE c \in C12
  <2>1. Shape(t, c)
    BY <1>12 DEF Shape
  <2>2. c.ok \in BOOLEAN /\ c.op \in DescOps /\ c.args = <<>>
    BY <1>12
  <2>3. c.op \notin DrawOps \cup {"ValidateBufferWrite", "ValidateBufferCopy"}
    BY <2>2 DEF DescOps, DrawOps
  <2>4. Numbers(c)
    BY <2>2, <2>3, NoNumbers
  <2>5. QED BY <2>1, <2>4
<1> HIDE DEF Call
<1>13. c \in ObjectCalls \cup ListCalls(mine) \cup NumberCalls(mine) \cup DescCalls
  BY DEF Calls
<1>14. ObjectCalls = C1 \cup C2 \cup C3 \cup C4
  BY DEF ObjectCalls, On
<1>15. ListCalls(mine) = C5 \cup C6 \cup C7 \cup C8
  BY DEF ListCalls
<1>16. NumberCalls(mine) = C9 \cup C10 \cup C11
  BY DEF NumberCalls
<1>17. DescCalls = C12
  BY DEF DescCalls
<1> HIDE DEF C1, C2, C3, C4, C5, C6, C7, C8, C9, C10, C11, C12
<1>18. QED
  BY <1>1, <1>2, <1>3, <1>4, <1>5, <1>6, <1>7, <1>8, <1>9, <1>10, <1>11, <1>12,
     <1>13, <1>14, <1>15, <1>16, <1>17

(* A sum that does not fit comes round once.                               *)
LEMMA SumOf ==
  ASSUME NEW n \in Nat \ {0}, NEW i \in 0 .. n - 1, NEW j \in 0 .. n - 1
  PROVE  (i + j) % n = IF i + j < n THEN i + j ELSE i + j - n
<1>1. ASSUME NEW q \in {0, 1}, NEW m \in 0 .. n - 1 PROVE (q * n + m) % n = m
  BY <1>1
<1>2. CASE i + j < n
  BY <1>1, <1>2
<1>3. CASE i + j >= n
  BY <1>1, <1>3
<1>4. QED BY <1>2, <1>3

(* The layer's test of a sum: it passes what is in bounds, and what is not *)
(* only if it comes round.                                                 *)
LEMMA BoundsTest ==
  ASSUME NEW n \in Nat \ {0}, NEW i \in 0 .. n - 1, NEW j \in 0 .. n - 1
  PROVE  /\ i + j <= BufferSize => ~ OutOfBounds(i, j, n)
         /\ ~ OutOfBounds(i, j, n) => i + j <= BufferSize \/ ComesRound(i, j, n)
<1>1. (i + j) % n = IF i + j < n THEN i + j ELSE i + j - n
  BY SumOf
<1>2. BufferSize \in Nat
  BY ValidationAssumption
<1>3. QED BY <1>1, <1>2 DEF OutOfBounds, ComesRound

(* What follows the rules seems right, and what seems right and does not   *)
(* is overlooked.                                                          *)
LEMMA SeemsRight ==
  ASSUME NEW t \in Threads, NEW c \in Calls(t)
  PROVE  /\ Follows(c) => Seems(c)
         /\ Seems(c) => Follows(c) \/ Overlooked(c)
<1>1. Numbers(c) /\ Values32 \in Nat \ {0} /\ Values64 \in Nat \ {0}
  BY CallShape, ValidationAssumption
<1>2. CASE c.op \in DrawOps
  <2>1. c.args[1] \in Nat /\ c.args[2] \in Nat /\ c.ok
    BY <1>1, <1>2 DEF Numbers, DrawOps, ArgumentOps, DescOps
  <2>2. c.op \in {"ValidateDrawCall", "ValidateDrawIndexed"}
    BY <1>2 DEF DrawOps
  <2>3. Follows(c) => Seems(c)
    BY <2>1, <2>2 DEF Follows, RightArguments, Seems, Tested, ArgumentOps, DescOps,
                      DrawOps
  <2>4. ASSUME Seems(c), ~ RightArguments(c)
        PROVE  Overlooked(c)
    <3>1. c.args[1] > 0 /\ InOrder(c)
      BY <1>2, <2>1, <2>4 DEF Seems, Tested
    <3>2. c.op = "ValidateDrawIndexed"
      BY <2>1, <2>2, <2>4, <3>1 DEF Seems, Tested, RightArguments
    <3>3. QED BY <2>4, <3>1, <3>2 DEF Overlooked
  <2>5. QED BY <2>3, <2>4 DEF Follows, Seems
<1>3. CASE c.op = "ValidateBufferWrite"
  <2>1. /\ c.args[1] \in 0 .. Values32 - 1 /\ c.args[2] \in 0 .. Values32 - 1
        /\ c.ok /\ c.op \notin ArgumentOps \cup DescOps \cup DrawOps
    BY <1>1, <1>3 DEF Numbers, DrawOps, ArgumentOps, DescOps
  <2>2. /\ RightArguments(c) <=> c.args[1] + c.args[2] <= BufferSize
        /\ Tested(c) <=> ~ OutOfBounds(c.args[1], c.args[2], Values32)
    BY <1>3, <2>1 DEF RightArguments, Tested
  <2>3. ~ OutOfBounds(c.args[1], c.args[2], Values32) /\ ~ RightArguments(c)
          => ComesRound(c.args[1], c.args[2], Values32)
    BY <1>1, <2>1, <2>2, BoundsTest
  <2>4. RightArguments(c) => Tested(c)
    BY <1>1, <2>1, <2>2, BoundsTest
  <2>5. QED BY <1>3, <2>2, <2>3, <2>4 DEF Follows, Seems, Overlooked
<1>4. CASE c.op = "ValidateBufferCopy"
  <2>1. /\ \A i \in 1 .. 3 : c.args[i] \in 0 .. Values64 - 1
        /\ c.ok /\ c.op \notin ArgumentOps \cup DescOps \cup DrawOps
    BY <1>1, <1>4 DEF Numbers, DrawOps, ArgumentOps, DescOps
  <2>2. /\ RightArguments(c) <=>
             \A i \in 1 .. 2 : c.args[i] + c.args[3] <= BufferSize
        /\ Tested(c) <=> \A i \in 1 .. 2 : ~ OutOfBounds(c.args[i], c.args[3], Values64)
    BY <1>4, <2>1 DEF RightArguments, Tested
  <2>3. ASSUME NEW i \in 1 .. 2
        PROVE  /\ c.args[i] + c.args[3] <= BufferSize
                    => ~ OutOfBounds(c.args[i], c.args[3], Values64)
               /\ ~ OutOfBounds(c.args[i], c.args[3], Values64) =>
                    \/ c.args[i] + c.args[3] <= BufferSize
                    \/ ComesRound(c.args[i], c.args[3], Values64)
    BY <1>1, <2>1, BoundsTest
  <2>4. RightArguments(c) => Tested(c)
    BY <2>2, <2>3
  <2>5. QED BY <1>4, <2>2, <2>3, <2>4 DEF Follows, Seems, Overlooked
<1>5. CASE c.op \notin DrawOps \cup {"ValidateBufferWrite", "ValidateBufferCopy"}
  <2>1. RightArguments(c) <=> c.ok
    BY <1>5 DEF RightArguments
  <2>2. Tested(c) <=> c.ok
    BY <1>1, <1>5 DEF Tested, Numbers, DrawOps
  <2>3. QED BY <2>1, <2>2 DEF Follows, Seems
<1>6. QED BY <1>2, <1>3, <1>4, <1>5

(* What a call creates or destroys it is known to change.                  *)
LEMMA ThingChanged ==
  ASSUME NEW t, NEW c, Shape(t, c), c # Idle
  PROVE  /\ c.op \in Creating \cup Destroying \cup MapOps =>
              Thing(c) \in Changes(c) /\ Thing(c) \in Things
         /\ c.op \in MapOps => Thing(c) = c.obj /\ c.obj \in Buffers
         /\ Changes(c) \subseteq Uses(c)
<1>1. c.obj \in Objects \cup {None} /\ c.list \in Lists \cup {None}
      /\ (c.op \in Creating \cup Destroying \cup MapOps =>
            c.obj \in Objects \/ c.list \in Lists)
      /\ (c.op \in MapOps => c.obj \in Buffers)
  BY DEF Shape, ObjectCall, ListCall, Objects, BufferOps, TextureOps, ViewOps,
         PipelineOps, RecordOps, ListOps, DrawOps, SetBufferOps, DescOps, Creating,
         Destroying, MapOps
<1>2. None \notin Things
  BY ValidationAssumption
<1>3. QED
  BY <1>1, <1>2 DEF Thing, Changes, Uses, Things, Objects, MapOps, Creating,
                    Destroying

(* K is the kind of what reg creates and unreg destroys.                   *)
KindOf(K, reg, unreg) ==
  /\ K \subseteq Things /\ reg \in Creating /\ unreg \in Destroying
  /\ \A t, c : Shape(t, c) =>
       /\ c.op \in {reg, unreg} => Thing(c) \in K
       /\ c.op \in (Creating \cup Destroying) \ {reg, unreg} => Thing(c) \notin K

(* There are five such kinds.                                              *)
LEMMA Kinds ==
  /\ KindOf(Buffers, "RegisterBuffer", "UnregisterBuffer")
  /\ KindOf(Textures, "RegisterTexture", "UnregisterTexture")
  /\ KindOf(Views, "RegisterTextureView", "UnregisterTextureView")
  /\ KindOf(Pipelines, "RegisterPipeline", "UnregisterPipeline")
  /\ KindOf(Lists, "RegisterCommandList", "UnregisterCommandList")
<1>1. ASSUME NEW t, NEW c, Shape(t, c)
      PROVE  /\ c.op \in {"RegisterBuffer", "UnregisterBuffer"} => Thing(c) \in Buffers
             /\ c.op \in {"RegisterTexture", "UnregisterTexture"} => Thing(c) \in Textures
             /\ c.op \in {"RegisterTextureView", "UnregisterTextureView"} =>
                  Thing(c) \in Views
             /\ c.op \in {"RegisterPipeline", "UnregisterPipeline"} =>
                  Thing(c) \in Pipelines
             /\ c.op \in {"RegisterCommandList", "UnregisterCommandList"} =>
                  Thing(c) \in Lists
  BY <1>1, KindsApart
     DEF Shape, ObjectCall, ListCall, BufferOps, TextureOps, ViewOps, PipelineOps,
         RecordOps, ListOps, DrawOps, SetBufferOps, DescOps, Thing
<1>2. /\ Creating = {"RegisterBuffer", "RegisterTexture", "RegisterTextureView",
                     "RegisterPipeline", "RegisterCommandList"}
      /\ Destroying = {"UnregisterBuffer", "UnregisterTexture",
                       "UnregisterTextureView", "UnregisterPipeline",
                       "UnregisterCommandList"}
  BY DEF Creating, Destroying
<1>3. /\ Buffers \subseteq Things /\ Textures \subseteq Things /\ Views \subseteq Things
      /\ Pipelines \subseteq Things /\ Lists \subseteq Things
  BY DEF Things, Objects
<1>4. KindOf(Buffers, "RegisterBuffer", "UnregisterBuffer")
  BY <1>1, <1>2, <1>3, KindsApart DEF KindOf
<1>5. KindOf(Textures, "RegisterTexture", "UnregisterTexture")
  BY <1>1, <1>2, <1>3, KindsApart DEF KindOf
<1>6. KindOf(Views, "RegisterTextureView", "UnregisterTextureView")
  BY <1>1, <1>2, <1>3, KindsApart DEF KindOf
<1>7. KindOf(Pipelines, "RegisterPipeline", "UnregisterPipeline")
  BY <1>1, <1>2, <1>3, KindsApart DEF KindOf
<1>8. KindOf(Lists, "RegisterCommandList", "UnregisterCommandList")
  BY <1>1, <1>2, <1>3, KindsApart DEF KindOf
<1>9. QED BY <1>4, <1>5, <1>6, <1>7, <1>8

-----------------------------------------------------------------------------
(* The program's steps.                                                    *)

(* The entry e a thread has on the call c: none, the category being off,   *)
(* or the call with its handles.                                           *)
Entry(c, e) ==
  IF Gate[c.op] \in enabled
  THEN /\ e # Idle /\ e \in Entries /\ e.handles = Handles(c)
       /\ e.op = c.op /\ e.list = c.list /\ e.obj = c.obj /\ e.dst = c.dst
       /\ e.ok = c.ok /\ e.args = c.args
  ELSE e = Idle

(* The handles of a call are of objects.                                   *)
LEMMA HandlesType ==
  ASSUME NEW t, NEW c, Shape(t, c)
  PROVE  Handles(c) \in Seq(Objects)
<1>1. c.op \in {"ValidateBuffer", "ValidateTexture", "ValidateTextureView",
                "ValidatePipeline", "ValidateSetPipeline",
                "ValidateSetVertexBuffer", "ValidateSetIndexBuffer",
                "ValidateBufferWrite", "ValidateBufferCopy"} => c.obj \in Objects
  BY DEF Shape, ObjectCall, ListCall, Objects, BufferOps, TextureOps, ViewOps,
         PipelineOps, RecordOps, ListOps, DrawOps, SetBufferOps, DescOps
<1>2. c.op = "ValidateBufferCopy" => c.dst \in Objects
  BY DEF Shape, ObjectCall, ListCall, Objects, BufferOps, TextureOps, ViewOps,
         PipelineOps, RecordOps, ListOps, DrawOps, SetBufferOps, DescOps
<1>3. QED BY <1>1, <1>2 DEF Handles

(* What a call leaves in the table of calls when it begins.                *)
LEMMA EnterIs ==
  ASSUME Types, NEW t \in Threads, NEW c, Shape(t, c), Numbers(c), Enter(t, c)
  PROVE  /\ at' = [at EXCEPT ![t] = at'[t]]
         /\ at' \in [Threads -> {Idle} \cup Entries]
         /\ Entry(c, at'[t])
<1> PICK e : e = [op |-> c.op, list |-> c.list, obj |-> c.obj, dst |-> c.dst,
                  ok |-> c.ok, args |-> c.args, handles |-> Handles(c)]
  OBVIOUS
<1>1. DOMAIN at = Threads /\ at \in [Threads -> {Idle} \cup Entries]
  BY DEF Types
<1>2. c.op \in DOMAIN Gate /\ c.op # "none"
  BY ShapeOps
<1>3. e \in Entries
  <2>1. c.list \in Lists \cup {None} /\ c.obj \in Objects \cup {None}
        /\ c.dst \in Buffers \cup {None}
    BY DEF Shape, ObjectCall, ListCall, Objects
  <2>2. c.ok \in BOOLEAN /\ c.args \in Seq(Nat)
    BY DEF Numbers
  <2>3. QED BY <1>2, <2>1, <2>2, HandlesType DEF Entries
<1>4. e # Idle
  <2>1. e.op # "none" /\ Idle.op = "none"
    BY <1>2 DEF Idle
  <2>2. QED BY <2>1
<1>5. CASE Gate[c.op] \in enabled
  <2>1. at' = [at EXCEPT ![t] = e]
    BY <1>5 DEF Enter
  <2>2. QED BY <1>1, <1>3, <1>4, <1>5, <2>1 DEF Entry
<1>6. CASE Gate[c.op] \notin enabled
  <2>1. at' = [at EXCEPT ![t] = Idle]
    BY <1>6 DEF Enter
  <2>2. QED BY <1>1, <1>6, <2>1 DEF Entry
<1>7. QED BY <1>5, <1>6

(* An entry is as well formed as the call, and in conflict with no others. *)
LEMMA EntryShape ==
  ASSUME NEW t, NEW c, Shape(t, c), NEW e, Entry(c, e), e # Idle
  PROVE  /\ Shape(t, e) /\ HandlesLeft(e) /\ Gate[e.op] \in enabled
         /\ Thing(e) = Thing(c) /\ Handles(e) = Handles(c)
         /\ c # Idle /\ Changes(e) = Changes(c) /\ Uses(e) = Uses(c)
<1>1. /\ e.op = c.op /\ e.list = c.list /\ e.obj = c.obj /\ e.dst = c.dst
      /\ e.handles = Handles(c) /\ Gate[c.op] \in enabled
  BY DEF Entry
<1>2. Shape(t, e)
  BY <1>1 DEF Shape, ObjectCall, ListCall
<1>3. Handles(e) = Handles(c)
  BY <1>1 DEF Handles
<1>4. c # Idle
  BY ShapeOps DEF Idle
<1>5. Changes(e) = Changes(c) /\ Uses(e) = Uses(c) /\ Thing(e) = Thing(c)
  BY <1>1, <1>4 DEF Changes, Uses, Thing
<1>6. QED BY <1>1, <1>2, <1>3, <1>4, <1>5 DEF HandlesLeft

(* The calls stay well formed and apart.                                   *)
LEMMA StartCalls ==
  ASSUME IInv, NEW t \in Threads, NEW c \in Calls(t), Calling(t, c), Enter(t, c),
         UNCHANGED layerVars
  PROVE  CallsWellFormed' /\ Apart(at')
<1>1. Shape(t, c) /\ Numbers(c)
  BY CallShape
<1>2. /\ at' = [at EXCEPT ![t] = at'[t]] /\ Entry(c, at'[t])
      /\ DOMAIN at = Threads
  BY <1>1, EnterIs DEF IInv, Types
<1> PICK e : e = at'[t]
  OBVIOUS
<1>3. \A u \in Threads \ {t} : at'[u] = at[u]
  BY <1>2
<1>4. CallsWellFormed'
  <2>1. ASSUME NEW u \in Threads, at'[u] # Idle
        PROVE  Shape(u, at'[u]) /\ HandlesLeft(at'[u]) /\ Gate[at'[u].op] \in enabled
    <3>1. CASE u = t
      BY <1>1, <1>2, <2>1, <3>1, EntryShape
    <3>2. CASE u # t
      BY <1>3, <2>1, <3>2 DEF IInv, CallsWellFormed
    <3>3. QED BY <3>1, <3>2
  <2>2. enabled' = enabled
    BY DEF layerVars
  <2>3. QED BY <2>1, <2>2 DEF CallsWellFormed
<1>5. ASSUME NEW u \in Threads \ {t}
      PROVE  /\ Changes(e) \cap Uses(at[u]) \subseteq {None}
             /\ Uses(e) \cap Changes(at[u]) \subseteq {None}
  <2>1. CASE e = Idle
    BY <2>1 DEF Changes, Uses
  <2>2. CASE e # Idle
    BY <1>1, <1>2, <1>5, <2>2, EntryShape DEF Calling, Synchronised
  <2>3. QED BY <2>1, <2>2
<1>6. Apart(at')
  <2>1. ASSUME NEW u \in Threads, NEW w \in Threads, u # w
        PROVE  Changes(at'[u]) \cap Uses(at'[w]) \subseteq {None}
    <3>1. CASE u = t
      BY <1>3, <1>5, <2>1, <3>1
    <3>2. CASE w = t
      BY <1>3, <1>5, <2>1, <3>2
    <3>3. CASE u # t /\ w # t
      BY <1>3, <2>1, <3>3 DEF IInv, Apart
    <3>4. QED BY <3>1, <3>2, <3>3
  <2>2. QED BY <2>1 DEF Apart
<1>7. QED BY <1>4, <1>6

(* What is known of a list stays a description of one.                     *)
LEMMA RecordedType ==
  ASSUME NEW r \in InfoType, NEW op
  PROVE  Recorded(r, op) \in InfoType
<1>1. FreshInfo \in InfoType /\ [FreshInfo EXCEPT !.state = "RECORDING"] \in InfoType
  BY DEF FreshInfo, InfoType, States
<1>2. /\ [r EXCEPT !.state = "EXECUTABLE"] \in InfoType
      /\ [r EXCEPT !.state = "SUBMITTED"] \in InfoType
      /\ [r EXCEPT !.inPass = TRUE] \in InfoType
      /\ [r EXCEPT !.inPass = FALSE] \in InfoType
      /\ [r EXCEPT !.inRendering = TRUE] \in InfoType
      /\ [r EXCEPT !.inRendering = FALSE] \in InfoType
      /\ [r EXCEPT !.pipeline = TRUE] \in InfoType
      /\ [r EXCEPT !.vertex = TRUE] \in InfoType
      /\ [r EXCEPT !.index = TRUE] \in InfoType
  BY DEF InfoType, States
<1>3. QED BY <1>1, <1>2 DEF Recorded

(* What a call that follows the rules does to the program's own state.     *)
LEMMA ObeyIs ==
  ASSUME IInv, NEW t \in Threads, NEW c \in Calls(t), Obey(t, c)
  PROVE  /\ Shape(t, c) /\ Numbers(c) /\ mistaken = None /\ mistaken' = None
         /\ at[t] = Idle /\ Synchronised(t, c) /\ Seems(c)
         /\ DOMAIN at = Threads /\ at' = [at EXCEPT ![t] = at'[t]]
         /\ at' \in [Threads -> {Idle} \cup Entries]
         /\ Entry(c, at'[t]) /\ \A u \in Threads \ {t} : at'[u] = at[u]
         /\ enabled' = enabled /\ holder' = holder /\ thrown' = thrown
         /\ counted' = counted /\ tables' = tables /\ desc' = desc
         /\ overlooked' = overlooked
         /\ c.op \in Creating =>
              status' = [status EXCEPT ![Thing(c)] = "alive"]
              /\ status[Thing(c)] = "new"
         /\ c.op = "RegisterTextureView" => Alive(Parent[c.obj])
         /\ c.op \in Destroying => status' = [status EXCEPT ![Thing(c)] = "dead"]
                                   /\ status[Thing(c)] = "alive"
         /\ c.op \notin Creating \cup Destroying => status' = status
         /\ mapped' = IF c.op = "OnBufferMap" THEN mapped \cup {c.obj}
                      ELSE IF c.op = "OnBufferUnmap" THEN mapped \ {c.obj}
                      ELSE mapped
         /\ rec' = IF c.list = None THEN rec
                   ELSE [rec EXCEPT ![c.list] = Recorded(rec[c.list], c.op)]
<1>1. Shape(t, c) /\ Numbers(c)
  BY CallShape
<1>2. Enter(t, c) /\ Types
  BY DEF Obey, IInv
<1>3. /\ DOMAIN at = Threads /\ at' = [at EXCEPT ![t] = at'[t]]
      /\ at' \in [Threads -> {Idle} \cup Entries] /\ Entry(c, at'[t])
  BY <1>1, <1>2, EnterIs DEF Types
<1>4. \A u \in Threads \ {t} : at'[u] = at[u]
  BY <1>3
<1>5. c.op \in Destroying => status[Thing(c)] = "alive"
  <2>1. c.op \in {"UnregisterBuffer", "UnregisterTexture", "UnregisterTextureView",
                  "UnregisterPipeline"} => c.obj # None
    BY <1>1, KindsApart
       DEF Shape, ObjectCall, ListCall, BufferOps, TextureOps, ViewOps, PipelineOps,
           RecordOps, ListOps, DrawOps, SetBufferOps, DescOps
  <2>2. c.op = "UnregisterCommandList" => c.obj = None
    BY <1>1 DEF Shape, ObjectCall, ListCall, BufferOps, TextureOps, ViewOps,
                PipelineOps, RecordOps, ListOps, DrawOps, SetBufferOps, DescOps
  <2>3. c.op \in Destroying /\ Seems(c) =>
          Alive(IF c.op = "UnregisterCommandList" THEN c.list ELSE c.obj)
    BY DEF Seems, InOrder, Tested, Destroying, Creating, DescOps, ArgumentOps,
           DrawOps
  <2>4. Seems(c)
    BY SeemsRight DEF Obey
  <2>5. QED BY <2>1, <2>2, <2>3, <2>4 DEF Thing, Alive, Destroying
<1>6. Creating \cap Destroying = {}
  BY DEF Creating, Destroying
<1>7. /\ mistaken = None /\ mistaken' = None /\ at[t] = Idle
      /\ Synchronised(t, c) /\ Seems(c)
      /\ enabled' = enabled /\ holder' = holder /\ thrown' = thrown
      /\ counted' = counted /\ tables' = tables /\ desc' = desc
      /\ overlooked' = overlooked
  BY SeemsRight DEF Obey, Calling, layerVars
<1>8. /\ c.op \in Creating =>
           status' = [status EXCEPT ![Thing(c)] = "alive"]
           /\ status[Thing(c)] = "new"
      /\ c.op = "RegisterTextureView" => Alive(Parent[c.obj])
      /\ c.op \in Destroying => status' = [status EXCEPT ![Thing(c)] = "dead"]
      /\ c.op \notin Creating \cup Destroying => status' = status
  <2>1. c.op = "RegisterTextureView" => c.op \in Creating
    BY DEF Creating
  <2>2. QED BY <1>6, <2>1 DEF Obey
<1>9. /\ mapped' = IF c.op = "OnBufferMap" THEN mapped \cup {c.obj}
                   ELSE IF c.op = "OnBufferUnmap" THEN mapped \ {c.obj}
                   ELSE mapped
      /\ rec' = IF c.list = None THEN rec
                ELSE [rec EXCEPT ![c.list] = Recorded(rec[c.list], c.op)]
  BY DEF Obey
<1>10. QED
  BY <1>1, <1>3, <1>4, <1>5, <1>7, <1>8, <1>9

(* Things are created once and destroyed once.                             *)
LEMMA ObeyStatus ==
  ASSUME IInv, NEW t \in Threads, NEW c \in Calls(t), Obey(t, c)
  PROVE  /\ status' \in [Things -> Life]
         /\ \A o \in Things : /\ o # Thing(c) => status'[o] = status[o]
                              /\ status'[o] = "new" => status[o] = "new"
                              /\ status[o] = "dead" => status'[o] = "dead"
         /\ c.op \notin Creating \cup Destroying => status' = status
         /\ c.op \in Creating => status'[Thing(c)] = "alive"
         /\ c.op \in Destroying => status'[Thing(c)] = "dead"
<1>1. Shape(t, c) /\ c # Idle
  BY ObeyIs, ShapeOps DEF Idle
<1>2. c.op \in Creating \cup Destroying => Thing(c) \in Things
  BY <1>1, ThingChanged
<1>3. status \in [Things -> Life]
  BY DEF IInv, Types
<1>4. CASE c.op \in Creating
  <2>1. status' = [status EXCEPT ![Thing(c)] = "alive"] /\ status[Thing(c)] = "new"
        /\ Thing(c) \in Things /\ c.op \notin Destroying
    BY <1>2, <1>4, ObeyIs DEF Creating, Destroying
  <2>2. QED BY <1>3, <1>4, <2>1 DEF Life
<1>5. CASE c.op \in Destroying
  <2>1. status' = [status EXCEPT ![Thing(c)] = "dead"] /\ status[Thing(c)] = "alive"
        /\ Thing(c) \in Things /\ c.op \notin Creating
    BY <1>2, <1>5, ObeyIs DEF Creating, Destroying
  <2>2. QED BY <1>3, <1>5, <2>1 DEF Life
<1>6. CASE c.op \notin Creating \cup Destroying
  BY <1>3, <1>6, ObeyIs
<1>7. QED BY <1>4, <1>5, <1>6

(* The variables keep their types.                                         *)
LEMMA ObeyTypes ==
  ASSUME IInv, NEW t \in Threads, NEW c \in Calls(t), Obey(t, c)
  PROVE  Types' /\ TypeOK' /\ OffIsEmpty'
<1>1. Shape(t, c)
  BY ObeyIs
<1>2. Types
  BY DEF IInv
<1>3. mapped' \in SUBSET Buffers
  <2>1. c.op \in {"OnBufferMap", "OnBufferUnmap"} => c.obj \in Buffers
    BY <1>1, ThingChanged, ShapeOps DEF MapOps, Idle
  <2>2. mapped \in SUBSET Buffers
    BY <1>2 DEF Types
  <2>3. QED BY <2>1, <2>2, ObeyIs
<1>4. rec' \in [Lists -> InfoType]
  <2>1. c.list \in Lists \cup {None}
    BY <1>1 DEF Shape, ObjectCall, ListCall
  <2>2. rec \in [Lists -> InfoType]
    BY <1>2 DEF Types
  <2>3. CASE c.list = None
    BY <2>2, <2>3, ObeyIs
  <2>4. CASE c.list # None
    <3>1. c.list \in Lists /\ rec[c.list] \in InfoType
      BY <2>1, <2>2, <2>4
    <3>2. Recorded(rec[c.list], c.op) \in InfoType
      BY <3>1, RecordedType
    <3>3. QED BY <2>2, <2>4, <3>1, <3>2, ObeyIs
  <2>5. QED BY <2>3, <2>4
<1>5. status' \in [Things -> Life]
  BY ObeyStatus
<1>6. QED
  BY <1>2, <1>3, <1>4, <1>5, ObeyIs DEF Types, IInv, TypeOK, OffIsEmpty

(* What holds of a call goes on holding while others work on other things. *)
LEMMA FactsFrame ==
  ASSUME NEW u, NEW e, e # Idle, Shape(u, e), NEW S, NEW M, CallFacts(e, S, M),
         NEW S2, NEW M2,
         \A o \in Uses(e) \ {None} : S2[o] = S[o] /\ (o \in M2 <=> o \in M),
         \A v \in Views : Parent[v] \in Changes(e) \ {None} => S2[v] = S[v]
  PROVE  CallFacts(e, S2, M2)
<1>1. e.op \in Creating \cup Destroying => Thing(e) \in Uses(e) \ {None}
  BY ThingChanged, ValidationAssumption
<1>2. e.op \in {"RegisterTexture", "UnregisterTexture"} =>
        e.obj \in Changes(e) \ {None}
  <2>1. e.op \in {"RegisterTexture", "UnregisterTexture"} => e.obj \in Textures
    BY DEF Shape, ObjectCall, ListCall, BufferOps, ViewOps, PipelineOps, RecordOps,
           ListOps, DrawOps, SetBufferOps, DescOps
  <2>2. QED BY <2>1, KindsApart DEF Changes, Creating, Destroying
<1>3. e.op = "RegisterTextureView" => Parent[e.obj] \in Uses(e) \ {None}
  <2>1. e.op = "RegisterTextureView" => e.obj \in Views
    BY DEF Shape, ObjectCall, ListCall, BufferOps, TextureOps, PipelineOps,
           RecordOps,
           ListOps, DrawOps, SetBufferOps, DescOps
  <2>2. QED BY <2>1, KindsApart, ValidationAssumption DEF Uses
<1>4. e.op \in {"RegisterBuffer", "UnregisterBuffer", "OnBufferMap", "OnBufferUnmap",
                "ValidateBufferCopy", "ValidateBufferWrite", "ValidateSetPipeline"}
               \cup SetBufferOps \cup Alone => e.obj \in Uses(e) \ {None}
  <2>1. e.op \in {"RegisterBuffer", "UnregisterBuffer", "OnBufferMap", "OnBufferUnmap",
                  "ValidateBufferCopy", "ValidateBufferWrite", "ValidateSetPipeline"}
                 \cup SetBufferOps \cup Alone =>
          e.obj \in Buffers \cup Textures \cup Views \cup Pipelines
    BY DEF Shape, ObjectCall, ListCall, BufferOps, TextureOps, ViewOps, PipelineOps,
           RecordOps, ListOps, DrawOps, SetBufferOps, DescOps, Alone
  <2>2. QED BY <2>1, KindsApart DEF Uses
<1>5. e.op = "ValidateBufferCopy" => e.dst \in Uses(e) \ {None}
  <2>1. e.op = "ValidateBufferCopy" => e.dst \in Buffers
    BY DEF Shape, ObjectCall, ListCall, BufferOps, TextureOps, ViewOps, PipelineOps,
           RecordOps, ListOps, DrawOps, SetBufferOps, DescOps
  <2>2. QED BY <2>1, KindsApart DEF Uses
<1>6. e.op \in RecordOps => e.list \in Uses(e) \ {None}
  <2>1. e.op \in RecordOps => e.list \in Lists
    BY DEF Shape, ObjectCall, ListCall, BufferOps, TextureOps, ViewOps, PipelineOps,
           RecordOps, ListOps, DrawOps, SetBufferOps, DescOps
  <2>2. QED BY <2>1, KindsApart DEF Uses
<1>7. /\ e.op \in Creating => S2[Thing(e)] = "alive"
      /\ e.op \in Destroying => S2[Thing(e)] = "dead"
      /\ e.op = "RegisterTexture" => \A v \in Views : Parent[v] = e.obj => S2[v] = "new"
      /\ e.op = "UnregisterTexture" =>
           \A v \in Views : Parent[v] = e.obj => S2[v] # "alive"
      /\ e.op = "RegisterTextureView" => S2[Parent[e.obj]] = "alive"
  BY <1>1, <1>2, <1>3 DEF CallFacts
<1>8. /\ e.op \in {"RegisterBuffer", "UnregisterBuffer", "OnBufferUnmap"} =>
           e.obj \notin M2
      /\ e.op = "OnBufferMap" => e.obj \in M2 /\ ~ desc[e.obj].gpuOnly
      /\ e.op \in {"OnBufferMap", "OnBufferUnmap", "ValidateBufferCopy",
                   "ValidateBufferWrite", "ValidateSetPipeline"}
                  \cup SetBufferOps \cup Alone => S2[e.obj] = "alive"
      /\ e.op = "ValidateBufferCopy" => S2[e.dst] = "alive"
      /\ e.op \in RecordOps \ {"UnregisterCommandList"} => S2[e.list] = "alive"
  BY <1>4, <1>5, <1>6 DEF CallFacts
<1>9. QED BY <1>7, <1>8 DEF CallFacts

(* A call that follows the rules, once made.                               *)
LEMMA FollowsFacts ==
  ASSUME IInv, NEW t \in Threads, NEW c \in Calls(t), Obey(t, c)
  PROVE  CallFacts(c, status', mapped')
<1>1. /\ Shape(t, c) /\ Seems(c) /\ ProgramSane
  BY ObeyIs DEF IInv
<1>2. c.op \in {"RegisterTexture", "UnregisterTexture"} =>
        c.obj \in Textures /\ Thing(c) = c.obj
  BY <1>1, KindsApart
     DEF Shape, ObjectCall, ListCall, BufferOps, ViewOps, PipelineOps, RecordOps,
         ListOps, DrawOps, SetBufferOps, DescOps, Thing
<1>3. c.op = "RegisterTextureView" =>
        c.obj \in Views /\ Thing(c) = c.obj /\ Parent[c.obj] \in Textures
  BY <1>1, KindsApart, ValidationAssumption
     DEF Shape, ObjectCall, ListCall, BufferOps, TextureOps, PipelineOps, RecordOps,
         ListOps, DrawOps, SetBufferOps, DescOps, Thing
<1>4. /\ c.op \in Creating => status'[Thing(c)] = "alive"
      /\ c.op \in Destroying => status'[Thing(c)] = "dead"
  BY ObeyStatus
<1>5. c.op = "RegisterTexture" =>
        \A v \in Views : Parent[v] = c.obj => status'[v] = "new"
  <2> SUFFICES ASSUME c.op = "RegisterTexture", NEW v \in Views, Parent[v] = c.obj
               PROVE  status'[v] = "new"
    OBVIOUS
  <2>1. status[c.obj] = "new"
    <3>1. c.op \in Creating
      BY DEF Creating
    <3>2. QED BY <1>2, <3>1, ObeyIs
  <2>2. status[v] = "new"
    BY <1>1, <2>1 DEF ProgramSane
  <2>3. v \in Things /\ v # Thing(c)
    BY <1>2, KindsApart DEF Things, Objects
  <2>4. QED BY <2>2, <2>3, ObeyStatus
<1>6. c.op = "UnregisterTexture" =>
        \A v \in Views : Parent[v] = c.obj => status'[v] # "alive"
  <2> SUFFICES ASSUME c.op = "UnregisterTexture", NEW v \in Views, Parent[v] = c.obj
               PROVE  status'[v] # "alive"
    OBVIOUS
  <2>1. status[v] # "alive"
    BY <1>1 DEF Seems, InOrder, Tested, Creating, DescOps, Alive, ArgumentOps,
                DrawOps
  <2>2. v \in Things /\ v # Thing(c)
    BY <1>2, KindsApart DEF Things, Objects
  <2>3. QED BY <2>1, <2>2, ObeyStatus
<1>7. c.op = "RegisterTextureView" => status'[Parent[c.obj]] = "alive"
  <2> SUFFICES ASSUME c.op = "RegisterTextureView" PROVE  status'[Parent[c.obj]] = "alive"
    OBVIOUS
  <2>1. status[Parent[c.obj]] = "alive"
    BY ObeyIs DEF Alive
  <2>2. Parent[c.obj] \in Things /\ Parent[c.obj] # Thing(c)
    BY <1>3, KindsApart DEF Things, Objects
  <2>3. QED BY <2>1, <2>2, ObeyStatus
<1>8. c.op \in {"RegisterBuffer", "UnregisterBuffer", "OnBufferUnmap"} =>
        c.obj \notin mapped'
  <2>1. CASE c.op = "RegisterBuffer"
    <3>1. c.op \in Creating /\ c.obj \in Buffers /\ Thing(c) = c.obj
      BY <1>1, <2>1, ThingChanged, ShapeOps DEF Creating, MapOps, Idle
    <3>2. status[c.obj] = "new"
      BY <3>1, ObeyIs
    <3>3. QED BY <1>1, <2>1, <3>2, ObeyIs DEF ProgramSane, Alive
  <2>2. CASE c.op = "UnregisterBuffer"
    <3>1. c.obj \notin mapped
      BY <1>1, <2>2 DEF Seems, InOrder, Tested, Creating, DescOps, ArgumentOps,
                        DrawOps
    <3>2. QED BY <2>2, <3>1, ObeyIs
  <2>3. CASE c.op = "OnBufferUnmap"
    BY <2>3, ObeyIs
  <2>4. QED BY <2>1, <2>2, <2>3
<1>9. c.op = "OnBufferMap" => c.obj \in mapped' /\ ~ desc[c.obj].gpuOnly
  <2>1. c.op = "OnBufferMap" => c.obj \in mapped'
    BY ObeyIs
  <2>2. c.op = "OnBufferMap" => ~ desc[c.obj].gpuOnly
    BY <1>1 DEF Seems, InOrder, Tested, Creating, DescOps, ArgumentOps, DrawOps
  <2>3. QED BY <2>1, <2>2
<1>10. c.op \in {"OnBufferMap", "OnBufferUnmap", "ValidateBufferCopy",
                 "ValidateBufferWrite", "ValidateSetPipeline"}
                \cup SetBufferOps \cup Alone => status'[c.obj] = "alive"
  <2> SUFFICES ASSUME c.op \in {"OnBufferMap", "OnBufferUnmap", "ValidateBufferCopy",
                                "ValidateBufferWrite", "ValidateSetPipeline"}
                               \cup SetBufferOps \cup Alone
               PROVE  status'[c.obj] = "alive"
    OBVIOUS
  <2>1. Alive(c.obj)
    BY <1>1 DEF Seems, InOrder, Tested, Creating, DescOps, SetBufferOps, Alone,
                ArgumentOps, DrawOps
  <2>2. c.op \notin Creating \cup Destroying
    BY DEF Creating, Destroying, SetBufferOps, Alone
  <2>3. QED BY <2>1, <2>2, ObeyStatus DEF Alive
<1>11. /\ c.op \in {"ValidateBufferCopy"} \cup SetBufferOps => desc[c.obj].usage
       /\ c.op = "ValidateBufferCopy" => Alive(c.dst) /\ desc[c.dst].usage
       /\ c.op = "ValidateBufferWrite" => ~ desc[c.obj].gpuOnly
  BY <1>1 DEF Seems, InOrder, Tested, Creating, DescOps, SetBufferOps, ArgumentOps,
              DrawOps
<1>12. c.op = "ValidateBufferCopy" => status'[c.dst] = "alive"
  <2>1. c.op = "ValidateBufferCopy" => c.op \notin Creating \cup Destroying
    BY DEF Creating, Destroying
  <2>2. QED BY <1>11, <2>1, ObeyStatus DEF Alive
<1>13. c.op \in RecordOps \ {"UnregisterCommandList"} => status'[c.list] = "alive"
  <2>1. CASE c.op = "RegisterCommandList"
    <3>1. c.op \in Creating /\ c.obj = None
      BY <1>1, <2>1
         DEF Creating, Shape, ObjectCall, ListCall, BufferOps, TextureOps, ViewOps,
             PipelineOps, RecordOps, ListOps, DrawOps, SetBufferOps, DescOps
    <3>2. QED BY <1>4, <3>1 DEF Thing
  <2>2. CASE c.op \in RecordOps \ {"RegisterCommandList", "UnregisterCommandList"}
    <3>1. Alive(c.list)
      BY <1>1, <2>2 DEF Seems, InOrder, Tested, Creating, DescOps, RecordOps,
                        ListOps, DrawOps,
                        SetBufferOps, Recording, ArgumentOps
    <3>2. c.op \notin Creating \cup Destroying
      BY <2>2 DEF Creating, Destroying, RecordOps, ListOps, DrawOps, SetBufferOps
    <3>3. QED BY <3>1, <3>2, ObeyStatus DEF Alive
  <2>3. QED BY <2>1, <2>2
<1>14. Tested(c)
  BY <1>1 DEF Seems
<1>15. QED
  BY <1>4, <1>5, <1>6, <1>7, <1>8, <1>9, <1>10, <1>11, <1>12, <1>13, <1>14
     DEF CallFacts

(* What the call does to others' things: nothing.                          *)
LEMMA ObeyElsewhere ==
  ASSUME IInv, NEW t \in Threads, NEW c \in Calls(t), Obey(t, c),
         NEW o, o \in Things, o \notin Changes(c)
  PROVE  status'[o] = status[o] /\ (o \in mapped' <=> o \in mapped)
<1>1. Shape(t, c) /\ c # Idle
  BY ObeyIs, ShapeOps DEF Idle
<1>2. c.op \in Creating \cup Destroying => o # Thing(c)
  BY <1>1, ThingChanged
<1>3. c.op \in {"OnBufferMap", "OnBufferUnmap"} => o # c.obj
  BY <1>1, ThingChanged DEF MapOps
<1>4. status'[o] = status[o]
  BY <1>2, ObeyStatus
<1>5. QED BY <1>3, <1>4, ObeyIs

(* The program stays sane, and what is known of its calls true.            *)
LEMMA ObeySane ==
  ASSUME IInv, NEW t \in Threads, NEW c \in Calls(t), Obey(t, c)
  PROVE  ProgramSane' /\ ViewsKnown(status', tables'.viewHandles)
<1>1. /\ Shape(t, c) /\ Seems(c) /\ c # Idle
      /\ ProgramSane
  BY ObeyIs, ShapeOps DEF IInv, Idle
<1>2. ASSUME NEW b \in mapped'
      PROVE  status'[b] = "alive"
  <2>1. b \in Buffers
    BY <1>2, ObeyTypes DEF Types
  <2>2. CASE c.op = "OnBufferMap" /\ b = c.obj
    <3>1. CallFacts(c, status', mapped')
      BY FollowsFacts
    <3>2. QED BY <2>2, <3>1 DEF CallFacts
  <2>3. CASE ~ (c.op = "OnBufferMap" /\ b = c.obj)
    <3>1. b \in mapped /\ status[b] = "alive"
      BY <1>1, <1>2, <2>3, ObeyIs DEF ProgramSane, Alive
    <3>2. CASE b = Thing(c) /\ c.op \in Creating \cup Destroying
      <4>1. c.op \in {"RegisterBuffer", "UnregisterBuffer"}
        BY <1>1, <2>1, <3>2, Kinds DEF KindOf
      <4>2. c.obj = b
        BY <1>1, <3>2, <4>1, ThingChanged DEF MapOps
      <4>3. c.op # "RegisterBuffer"
        BY <3>1, <3>2, <4>1, ObeyIs DEF Creating
      <4>4. QED BY <1>1, <3>1, <4>1, <4>2, <4>3 DEF Seems, InOrder, Tested,
           Creating,
                                                    DescOps, ArgumentOps, DrawOps
    <3>3. CASE b # Thing(c) \/ c.op \notin Creating \cup Destroying
      <4>1. b \in Things
        BY <2>1 DEF Things, Objects
      <4>2. QED BY <3>1, <3>3, <4>1, ObeyStatus
    <3>4. QED BY <3>2, <3>3
  <2>4. QED BY <2>2, <2>3
<1>3. ASSUME NEW v \in Views
      PROVE  /\ status'[v] = "alive" => status'[Parent[v]] = "alive"
             /\ status'[v] # "new" => status'[Parent[v]] # "new"
  <2>1. v \in Things /\ Parent[v] \in Textures /\ Parent[v] \in Things
    BY ValidationAssumption DEF Things, Objects
  <2>2. /\ status[v] = "alive" => status[Parent[v]] = "alive"
        /\ status[v] # "new" => status[Parent[v]] # "new"
    BY <1>1 DEF ProgramSane, Alive
  <2>3. CASE c.op \in Creating \cup Destroying /\ Thing(c) = v
    <3>1. c.op \in {"RegisterTextureView", "UnregisterTextureView"}
      BY <1>1, <2>3, Kinds DEF KindOf
    <3>2. Parent[v] # v
      BY <2>1, KindsApart
    <3>3. status'[Parent[v]] = status[Parent[v]]
      BY <2>1, <2>3, <3>2, ObeyStatus
    <3>4. CASE c.op = "RegisterTextureView"
      <4>1. c.obj = v
        BY <1>1, <2>3, <3>4
           DEF Shape, ObjectCall, ListCall, BufferOps, TextureOps, PipelineOps,
               RecordOps, ListOps, DrawOps, SetBufferOps, DescOps, Thing
      <4>2. QED BY <3>3, <3>4, <4>1, ObeyIs DEF Alive
    <3>5. CASE c.op = "UnregisterTextureView"
      <4>1. c.op \in Destroying
        BY <3>5 DEF Destroying
      <4>2. status'[v] = "dead" /\ status[v] = "alive"
        BY <2>3, <4>1, ObeyIs, ObeyStatus
      <4>3. QED BY <2>2, <3>3, <4>2
    <3>6. QED BY <3>1, <3>4, <3>5
  <2>4. CASE c.op \in Creating \cup Destroying /\ Thing(c) = Parent[v]
    <3>1. c.op \in {"RegisterTexture", "UnregisterTexture"}
      BY <1>1, <2>1, <2>4, Kinds DEF KindOf
    <3>2. c.obj = Parent[v]
      BY <1>1, <2>4, <3>1, KindsApart
         DEF Shape, ObjectCall, ListCall, BufferOps, ViewOps, PipelineOps,
             RecordOps, ListOps, DrawOps, SetBufferOps, DescOps, Thing
    <3>3. CallFacts(c, status', mapped')
      BY FollowsFacts
    <3>4. CASE c.op = "RegisterTexture"
      BY <2>4, <3>2, <3>3, <3>4, ObeyStatus DEF CallFacts
    <3>5. CASE c.op = "UnregisterTexture"
      <4>1. status'[v] # "alive"
        BY <3>2, <3>3, <3>5 DEF CallFacts
      <4>2. status'[Parent[v]] = "dead"
        BY <2>4, <3>5, ObeyStatus DEF Destroying
      <4>3. QED BY <4>1, <4>2
    <3>6. QED BY <3>1, <3>4, <3>5
  <2>5. CASE ~ (c.op \in Creating \cup Destroying /\ Thing(c) \in {v, Parent[v]})
    <3>1. status'[v] = status[v] /\ status'[Parent[v]] = status[Parent[v]]
      BY <2>1, <2>5, ObeyStatus
    <3>2. QED BY <2>2, <3>1
  <2>6. QED BY <2>3, <2>4, <2>5
<1>4. ProgramSane'
  BY <1>2, <1>3 DEF ProgramSane, Alive
<1>5. ViewsKnown(status', tables'.viewHandles)
  <2>1. ViewsKnown(status, tables.viewHandles) /\ tables' = tables
        /\ tables.viewHandles \in [Textures -> SUBSET Views]
    BY ObeyIs DEF IInv, Types, TablesType
  <2>2. \A x \in Textures : \A v \in tables.viewHandles[x] : v \in Things
    BY <2>1 DEF Things, Objects
  <2>3. QED BY <2>1, <2>2, ObeyStatus DEF ViewsKnown
<1>6. QED BY <1>4, <1>5

(* What the calls say of the program stays true, and is true of the new one. *)
LEMMA ObeyFacts ==
  ASSUME IInv, NEW t \in Threads, NEW c \in Calls(t), Obey(t, c)
  PROVE  FactsHold(at', mistaken', status', mapped')
<1> SUFFICES ASSUME NEW u \in Threads, at'[u] # Idle
             PROVE  CallFacts(at'[u], status', mapped')
  BY DEF FactsHold
<1>1. Shape(t, c) /\ c # Idle
  BY ObeyIs, ShapeOps DEF Idle
<1>2. CASE u = t
  <2> PICK e : e = at'[t]
    OBVIOUS
  <2>1. Entry(c, e) /\ e # Idle
    BY <1>2, ObeyIs
  <2>2. e.op = c.op /\ e.obj = c.obj /\ e.list = c.list /\ e.dst = c.dst
        /\ e.ok = c.ok /\ e.args = c.args /\ Thing(e) = Thing(c)
    BY <2>1 DEF Entry, Thing
  <2>3. CallFacts(c, status', mapped')
    BY FollowsFacts
  <2>4. CallFacts(e, status', mapped')
    BY <2>2, <2>3 DEF CallFacts, Tested
  <2>5. QED BY <1>2, <2>4
<1>3. CASE u # t
  <2>1. at'[u] = at[u] /\ at[u] # Idle /\ Synchronised(t, c) /\ mistaken = None
    BY <1>3, ObeyIs
  <2>2. Shape(u, at[u]) /\ CallFacts(at[u], status, mapped)
    BY <2>1, ValidationAssumption DEF IInv, CallsWellFormed, FactsHold
  <2> PICK e : e = at[u]
    OBVIOUS
  <2>3. Changes(c) \cap Uses(e) \subseteq {None}
        /\ Uses(c) \cap Changes(e) \subseteq {None}
    BY <1>3, <2>1 DEF Synchronised
  <2>4. \A o \in Uses(e) \ {None} : o \in Things
    <3>1. /\ e.obj \in Objects \cup {None} /\ e.list \in Lists \cup {None}
          /\ e.dst \in Buffers \cup {None}
      BY <2>2 DEF Shape, ObjectCall, ListCall, Objects
    <3>2. QED BY <3>1, ValidationAssumption DEF Uses, Things, Objects
  <2>5. \A o \in Uses(e) \ {None} : status'[o] = status[o]
                                    /\ (o \in mapped' <=> o \in mapped)
    BY <2>3, <2>4, ObeyElsewhere
  <2>6. ASSUME NEW v \in Views, Parent[v] \in Changes(e) \ {None}
        PROVE  status'[v] = status[v]
    <3>1. Parent[v] \notin Uses(c)
      BY <2>3, <2>6
    <3>2. v # c.obj
      BY <1>1, <3>1 DEF Uses
    <3>3. ~ (Thing(c) = v)
      <4>1. c.list \in Lists \cup {None}
        BY <1>1 DEF Shape, ObjectCall, ListCall
      <4>2. QED BY <3>2, <4>1, KindsApart DEF Thing
    <3>4. v \in Things
      BY DEF Things, Objects
    <3>5. QED BY <3>3, <3>4, ObeyStatus
  <2>7. CallFacts(e, status', mapped')
    BY <2>1, <2>2, <2>5, <2>6, FactsFrame
  <2>8. QED BY <2>1, <2>7
<1>4. QED BY <1>2, <1>3

-----------------------------------------------------------------------------
(* The tables, when a call begins that follows the rules.                  *)
LEMMA ObeyKept ==
  ASSUME IInv, NEW t \in Threads, NEW c \in Calls(t), Obey(t, c),
         NEW K, NEW T, NEW reg, NEW unreg, KindOf(K, reg, unreg),
         Gate[reg] \in enabled, Gate[unreg] \in enabled,
         Kept(at, None, status, K, T, reg, unreg)
  PROVE  Kept(at', None, status', K, T, reg, unreg)
<1>1. /\ Shape(t, c) /\ c # Idle /\ Entry(c, at'[t]) /\ at[t] = Idle
      /\ DOMAIN at = Threads /\ at' = [at EXCEPT ![t] = at'[t]]
      /\ Synchronised(t, c) /\ None # t
      /\ DOMAIN status = Things
  BY ObeyIs, ShapeOps, ValidationAssumption DEF IInv, Idle, Types
<1>2. K \subseteq Things /\ reg \in Creating /\ unreg \in Destroying /\ reg # unreg
  BY DEF KindOf, Creating, Destroying
<1> PICK e : e = at'[t]
  OBVIOUS
<1>3. CASE c.op \in {reg, unreg}
  <2>1. e # Idle /\ e.op = c.op /\ Thing(e) = Thing(c) /\ Thing(c) \in K
    BY <1>1, <1>3 DEF Entry, Thing, KindOf
  <2>2. Settled(at, None, {reg, unreg}, Thing(c))
    <3> SUFFICES ASSUME NEW u \in Threads, Doing(at, None, u, {reg, unreg}),
                        Thing(at[u]) = Thing(c)
                 PROVE  FALSE
      BY DEF Settled
    <3>1. u # t /\ at[u] # Idle /\ at[u].op \in {reg, unreg}
      BY <1>1 DEF Doing
    <3>2. Shape(u, at[u])
      BY <3>1 DEF IInv, CallsWellFormed
    <3>3. Thing(at[u]) \in Changes(at[u]) /\ Thing(at[u]) \in Things
      BY <1>2, <3>1, <3>2, ThingChanged
    <3>4. Thing(c) \in Changes(c) /\ Changes(c) \subseteq Uses(c)
      BY <1>1, <1>2, <1>3, ThingChanged
    <3>5. QED BY <1>1, <3>1, <3>3, <3>4, ValidationAssumption DEF Synchronised
  <2>3. e.op = unreg => status[Thing(c)] = "alive"
    <3> SUFFICES ASSUME c.op \in Destroying PROVE status[Thing(c)] = "alive"
      BY <1>2, <2>1
    <3>1. QED BY ObeyIs
  <2>4. \A p \in K \ {Thing(c)} : status'[p] = status[p]
    BY <1>2, ObeyStatus
  <2>5. QED BY <1>1, <1>2, <1>3, <2>1, <2>2, <2>3, <2>4, KeptStart
<1>4. CASE c.op \notin {reg, unreg}
  <2>1. ~ Doing(at, None, t, {reg, unreg}) /\ ~ Doing(at', None, t, {reg, unreg})
    BY <1>1, <1>4 DEF Doing, Entry
  <2>2. SameDoing(at, None, at', None, {reg, unreg})
    BY <1>1, <2>1, SameButOne
  <2>3. \A o \in K : status'[o] = "alive" <=> status[o] = "alive"
    <3>1. c.op \in Creating \cup Destroying => Thing(c) \notin K
      BY <1>1, <1>4 DEF KindOf
    <3>2. QED BY <1>2, <3>1, ObeyStatus
  <2>4. QED BY <2>2, <2>3, KeptSame
<1>5. QED BY <1>3, <1>4

(* The mapped buffers stay known as the call begins.                       *)
LEMMA ObeyMaps ==
  ASSUME IInv, NEW t \in Threads, NEW c \in Calls(t), Obey(t, c),
         {"RESOURCE", "MEMORY"} \subseteq enabled, NEW B,
         MapsKept(at, None, mapped, B)
  PROVE  MapsKept(at', None, mapped', B)
<1>1. /\ Shape(t, c) /\ c # Idle /\ Entry(c, at'[t]) /\ at[t] = Idle
      /\ DOMAIN at = Threads /\ at' = [at EXCEPT ![t] = at'[t]]
      /\ Synchronised(t, c) /\ None # t
      /\ \A u \in Threads \ {t} : at'[u] = at[u]
  BY ObeyIs, ShapeOps, ValidationAssumption DEF Idle
<1> PICK e : e = at'[t]
  OBVIOUS
<1>2. CASE c.op \in MapOps
  <2>1. Gate[c.op] \in enabled
    BY <1>2, GateIs DEF MapOps
  <2>2. e # Idle /\ e.op = c.op /\ e.obj = c.obj
    BY <1>1, <2>1 DEF Entry
  <2>3. c.obj \in Buffers /\ Thing(c) = c.obj /\ Thing(c) \in Changes(c)
        /\ Changes(c) \subseteq Uses(c) /\ Thing(c) \in Things
    BY <1>1, <1>2, ThingChanged
  <2>4. Thing(e) = c.obj
    BY <2>2, <2>3, KindsApart DEF Thing
  <2>5. Settled(at, None, MapOps, c.obj)
    <3> SUFFICES ASSUME NEW u \in Threads, Doing(at, None, u, MapOps),
                        Thing(at[u]) = c.obj
                 PROVE  FALSE
      BY DEF Settled
    <3>1. u # t /\ at[u] # Idle /\ at[u].op \in MapOps
      BY <1>1 DEF Doing
    <3>2. Shape(u, at[u])
      BY <3>1 DEF IInv, CallsWellFormed
    <3>3. Thing(at[u]) \in Changes(at[u])
      BY <3>1, <3>2, ThingChanged
    <3>4. QED BY <1>1, <2>3, <3>1, <3>3, ValidationAssumption DEF Synchronised
  <2>6. ASSUME NEW b \in Buffers, Settled(at', None, MapOps, b)
        PROVE  b \in B <=> b \in mapped'
    <3>1. b # c.obj
      <4>1. Doing(at', None, t, MapOps)
        BY <1>1, <1>2, <2>2 DEF Doing
      <4>2. QED BY <2>4, <2>6, <4>1 DEF Settled
    <3>2. Settled(at, None, MapOps, b)
      BY <1>1, <2>6 DEF Settled, Doing
    <3>3. b \in mapped' <=> b \in mapped
      BY <3>1, ObeyIs
    <3>4. QED BY <3>2, <3>3 DEF MapsKept
  <2>7. c.obj \in B <=> c.obj \in mapped
    BY <2>3, <2>5 DEF MapsKept
  <2>8. /\ c.op \in {"UnregisterBuffer", "OnBufferMap"} => c.obj \notin B
        /\ c.op = "OnBufferUnmap" => c.obj \in B
    <3>1. Seems(c)
      BY ObeyIs
    <3>2. QED BY <2>7, <3>1 DEF Seems, InOrder, Tested, Creating, DescOps,
                                ArgumentOps, DrawOps
  <2>9. ASSUME NEW u \in Threads
        PROVE  /\ Doing(at', None, u, {"UnregisterBuffer", "OnBufferMap"}) =>
                    at'[u].obj \notin B
               /\ Doing(at', None, u, {"OnBufferUnmap"}) => at'[u].obj \in B
    <3>1. CASE u = t
      BY <2>2, <2>8, <3>1 DEF Doing
    <3>2. CASE u # t
      BY <1>1, <3>2 DEF MapsKept, Doing
    <3>3. QED BY <3>1, <3>2
  <2>10. QED BY <2>6, <2>9 DEF MapsKept
<1>3. CASE c.op \notin MapOps
  <2>1. mapped' = mapped
    BY <1>3, ObeyIs DEF MapOps
  <2>2. ASSUME NEW u \in Threads, NEW ops \in SUBSET MapOps
        PROVE  /\ Doing(at', None, u, ops) <=> Doing(at, None, u, ops)
               /\ Doing(at, None, u, ops) => at'[u] = at[u]
    <3>1. CASE u = t
      BY <1>1, <1>3, <2>2, <3>1 DEF Doing, Entry
    <3>2. CASE u # t
      BY <1>1, <3>2 DEF Doing
    <3>3. QED BY <3>1, <3>2
  <2>3. ASSUME NEW b \in Buffers, Settled(at', None, MapOps, b)
        PROVE  b \in B <=> b \in mapped'
    <3>1. Settled(at, None, MapOps, b)
      BY <2>2, <2>3 DEF Settled
    <3>2. QED BY <2>1, <3>1 DEF MapsKept
  <2>4. /\ {"UnregisterBuffer", "OnBufferMap"} \in SUBSET MapOps
        /\ {"OnBufferUnmap"} \in SUBSET MapOps
    BY DEF MapOps
  <2>5. ASSUME NEW u \in Threads
        PROVE  /\ Doing(at', None, u, {"UnregisterBuffer", "OnBufferMap"}) =>
                    at'[u].obj \notin B
               /\ Doing(at', None, u, {"OnBufferUnmap"}) => at'[u].obj \in B
    BY <2>2, <2>4 DEF MapsKept
  <2>6. QED BY <2>3, <2>5 DEF MapsKept
<1>4. QED BY <1>2, <1>3

(* So do the views of textures.                                            *)
LEMMA ObeyViews ==
  ASSUME IInv, NEW t \in Threads, NEW c \in Calls(t), Obey(t, c),
         "RESOURCE" \in enabled, NEW H, ViewsKept(at, None, status, H)
  PROVE  ViewsKept(at', None, status', H)
<1> SUFFICES ASSUME NEW v \in Views, status'[v] = "alive",
                    Settled(at', None, {"RegisterTextureView"}, v)
             PROVE  v \in H[Parent[v]]
  BY DEF ViewsKept
<1>1. /\ Shape(t, c) /\ Entry(c, at'[t]) /\ at[t] = Idle /\ None # t
      /\ \A u \in Threads \ {t} : at'[u] = at[u]
  BY ObeyIs, ValidationAssumption
<1>2. status[v] = "alive"
  <2> SUFFICES ASSUME status[v] # "alive" PROVE FALSE
    OBVIOUS
  <2>1. v \in Things
    BY DEF Things, Objects
  <2>2. c.op \in Creating \cup Destroying /\ Thing(c) = v
    BY <2>1, ObeyStatus
  <2>3. c.op \in {"RegisterTextureView", "UnregisterTextureView"}
    BY <1>1, <2>2, Kinds DEF KindOf
  <2>4. c.op = "RegisterTextureView"
    BY <2>2, <2>3, ObeyStatus DEF Destroying
  <2>5. Gate[c.op] \in enabled
    BY <2>4, GateIs
  <2>6. at'[t] # Idle /\ at'[t].op = c.op /\ Thing(at'[t]) = Thing(c)
    BY <1>1, <2>5 DEF Entry, Thing
  <2>7. QED BY <1>1, <2>2, <2>4, <2>6 DEF Settled, Doing
<1>3. Settled(at, None, {"RegisterTextureView"}, v)
  BY <1>1 DEF Settled, Doing
<1>4. QED BY <1>2, <1>3 DEF ViewsKept

(* What a function that is switched off would have recorded does not count. *)
LEMMA OffMatch ==
  ASSUME NEW i, NEW r \in InfoType, NEW op \in RecordOps, Gate[op] \notin enabled,
         "COMMAND_LIST" \in enabled, Match(i, r)
  PROVE  Match(i, Recorded(r, op))
<1>1. \/ op \in {"ValidateBeginRenderPass", "ValidateEndRenderPass",
                 "ValidateBeginRendering", "ValidateEndRendering"}
      \/ op = "ValidateSetPipeline"
      \/ op \in SetBufferOps
  BY GateIs DEF RecordOps, ListOps, DrawOps
<1>2. CASE op \in {"ValidateBeginRenderPass", "ValidateEndRenderPass",
                   "ValidateBeginRendering", "ValidateEndRendering"}
  <2>1. "RENDER_PASS" \notin enabled
    BY <1>2, GateIs
  <2>2. /\ Recorded(r, op).state = r.state
        /\ Recorded(r, op).pipeline = r.pipeline
        /\ Recorded(r, op).vertex = r.vertex
        /\ Recorded(r, op).index = r.index
    BY <1>2 DEF Recorded, InfoType
  <2>3. QED BY <2>1, <2>2 DEF Match
<1>3. CASE op = "ValidateSetPipeline"
  <2>1. "PIPELINE" \notin enabled
    BY <1>3, GateIs
  <2>2. Recorded(r, op) = [r EXCEPT !.pipeline = TRUE]
    BY <1>3 DEF Recorded
  <2>3. QED BY <2>1, <2>2 DEF Match, InfoType
<1>4. CASE op \in SetBufferOps
  <2>1. "STATE" \notin enabled
    BY <1>4, GateIs
  <2>2. \/ Recorded(r, op) = [r EXCEPT !.vertex = TRUE]
        \/ Recorded(r, op) = [r EXCEPT !.index = TRUE]
    BY <1>4 DEF Recorded, SetBufferOps
  <2>3. QED BY <2>1, <2>2 DEF Match, InfoType
<1>5. QED BY <1>1, <1>2, <1>3, <1>4

(* The rules ask of a list what Rule says.                                 *)
LEMMA FollowsRule ==
  ASSUME NEW t, NEW c, Shape(t, c), c.op \in RecordOps, Seems(c)
  PROVE  Rule(rec[c.list], c.op)
<1> PICK r : r = rec[c.list]
  OBVIOUS
<1>1. c.op \in RecordOps => c.op \notin {"UnregisterTextureView", "UnregisterPipeline",
        "ValidateBuffer", "ValidateTexture", "ValidateTextureView", "ValidatePipeline",
        "UnregisterBuffer", "UnregisterTexture", "OnBufferMap", "OnBufferUnmap",
        "ValidateBufferCopy", "ValidateBufferWrite"} \cup DescOps
  BY DEF RecordOps, ListOps, DrawOps, SetBufferOps, DescOps
<1>2. c.op = "UnregisterCommandList" => ~ (r.inPass \/ r.inRendering)
  BY DEF Seems, InOrder, Tested, Creating, DescOps, Inside, ArgumentOps, DrawOps
<1>3. c.op = "OnCommandListBegin" => r.state \in {"INITIAL", "EXECUTABLE"}
  BY DEF Seems, InOrder, Tested, Creating, DescOps, ArgumentOps, DrawOps
<1>4. c.op = "OnCommandListSubmit" => r.state = "EXECUTABLE"
  BY DEF Seems, InOrder, Tested, Creating, DescOps, ArgumentOps, DrawOps
<1>5. c.op \in {"OnCommandListEnd", "ValidateBeginRenderPass",
                "ValidateBeginRendering"} =>
        r.state = "RECORDING" /\ ~ (r.inPass \/ r.inRendering)
  BY DEF Seems, InOrder, Tested, Creating, DescOps, Recording, Inside, ArgumentOps,
         DrawOps
<1>6. c.op \in {"ValidateDrawCall", "ValidateDrawIndexed"} =>
        r.state = "RECORDING" /\ (r.inPass \/ r.inRendering) /\ r.pipeline /\ r.vertex
  BY DEF Seems, InOrder, Tested, Creating, DescOps, Recording, Inside, ArgumentOps,
         DrawOps
<1>7. c.op = "ValidateDrawIndexed" => r.index
  BY DEF Seems, InOrder, Tested, Creating, DescOps, ArgumentOps, DrawOps
<1>8. c.op = "ValidateEndRenderPass" => r.state = "RECORDING" /\ r.inPass
  BY DEF Seems, InOrder, Tested, Creating, DescOps, Recording, ArgumentOps, DrawOps
<1>9. c.op = "ValidateEndRendering" => r.state = "RECORDING" /\ r.inRendering
  BY DEF Seems, InOrder, Tested, Creating, DescOps, Recording, ArgumentOps, DrawOps
<1>10. c.op \in {"ValidateSetPipeline"} \cup SetBufferOps => r.state = "RECORDING"
  BY DEF Seems, InOrder, Tested, Creating, DescOps, Recording, SetBufferOps,
         ArgumentOps, DrawOps
<1>11. QED
  BY <1>2, <1>3, <1>4, <1>5, <1>6, <1>7, <1>8, <1>9, <1>10 DEF Rule

(* And the lists.                                                          *)
LEMMA ObeyLists ==
  ASSUME IInv, NEW t \in Threads, NEW c \in Calls(t), Obey(t, c),
         "COMMAND_LIST" \in enabled, NEW I, NEW l \in Lists,
         ListKept(at, None, rec, I, l)
  PROVE  ListKept(at', None, rec', I, l)
<1>1. /\ Shape(t, c) /\ Entry(c, at'[t]) /\ at[t] = Idle /\ None # t /\ Seems(c)
      /\ \A u \in Threads \ {t} : at'[u] = at[u]
      /\ rec' = IF c.list = None THEN rec
                ELSE [rec EXCEPT ![c.list] = Recorded(rec[c.list], c.op)]
      /\ rec \in [Lists -> InfoType]
      /\ Owner[l] \in Threads /\ l # None
  BY ObeyIs, ValidationAssumption, KindsApart DEF IInv, Types
<1>2. c.list # None => c.op \in RecordOps /\ c.list \in Lists /\ Owner[c.list] = t
  BY <1>1 DEF Shape, ObjectCall, ListCall
<1> PICK e : e = at'[t]
  OBVIOUS
<1>3. CASE c.list = l
  <2>1. c.op \in RecordOps /\ Owner[l] = t /\ rec[l] \in InfoType
        /\ rec'[l] = Recorded(rec[l], c.op)
    BY <1>1, <1>2, <1>3
  <2>2. Match(I[l], rec[l])
    BY <1>1, <2>1 DEF ListKept, Doing
  <2>3. Rule(rec[l], c.op)
    BY <1>1, <1>3, <2>1, FollowsRule
  <2>4. CASE Gate[c.op] \in enabled
    <3>1. e # Idle /\ e.op = c.op /\ e.list = l
      BY <1>1, <1>3, <2>4 DEF Entry
    <3>2. Before(I[l], rec'[l], c.op)
      BY <2>1, <2>2, <2>3 DEF Before
    <3>3. QED BY <1>1, <2>1, <3>1, <3>2 DEF ListKept, Doing
  <2>5. CASE Gate[c.op] \notin enabled
    <3>1. e = Idle
      BY <1>1, <2>5 DEF Entry
    <3>2. Match(I[l], rec'[l])
      BY <2>1, <2>2, <2>5, OffMatch
    <3>3. QED BY <2>1, <3>1, <3>2 DEF ListKept, Doing
  <2>6. QED BY <2>4, <2>5
<1>4. CASE c.list # l
  <2>1. rec'[l] = rec[l]
    BY <1>1, <1>2, <1>4
  <2>2. CASE Owner[l] = t
    <3>1. Match(I[l], rec[l])
      BY <1>1, <2>2 DEF ListKept, Doing
    <3>2. ~ (e # Idle /\ e.list = l)
      BY <1>1, <1>4 DEF Entry
    <3>3. QED BY <2>1, <2>2, <3>1, <3>2 DEF ListKept, Doing
  <2>3. CASE Owner[l] # t
    BY <1>1, <2>1, <2>3 DEF ListKept, Doing
  <2>4. QED BY <2>2, <2>3
<1>5. QED BY <1>3, <1>4

(* The same categories are on in the next state.                           *)
LEMMA StillListKept ==
  ASSUME enabled' = enabled, NEW l
  PROVE  ListKept(at, mistaken, rec, tables.lists, l)'
           <=> ListKept(at', mistaken', rec', tables'.lists, l)
BY DEF ListKept, Before, Match

(* What is watched stays watched.                                          *)
LEMMA StillWatched ==
  ASSUME enabled' = enabled, mistaken' = mistaken, overlooked' = overlooked
  PROVE  Watched' <=> Watched
BY DEF Watched, TablesKept, AllOn

(* So the tables are as right as they were.                                *)
LEMMA ObeyTables ==
  ASSUME IInv, NEW t \in Threads, NEW c \in Calls(t), Obey(t, c)
  PROVE  TablesRight'
<1>1. /\ enabled' = enabled /\ tables' = tables /\ mistaken = None /\ mistaken' = None
      /\ overlooked' = overlooked
  BY ObeyIs
<1> SUFFICES ASSUME Watched PROVE TablesRight'
  BY <1>1, StillWatched DEF TablesRight
<1>2. TablesRight
  BY DEF IInv
<1>3. ASSUME "RESOURCE" \in enabled
      PROVE  /\ Kept(at', None, status', Buffers, tables.buffers,
                     "RegisterBuffer", "UnregisterBuffer")
             /\ Kept(at', None, status', Textures, tables.textures,
                     "RegisterTexture", "UnregisterTexture")
             /\ Kept(at', None, status', Views, tables.views,
                     "RegisterTextureView", "UnregisterTextureView")
             /\ ViewsKept(at', None, status', tables.viewHandles)
  <2>1. /\ Kept(at, None, status, Buffers, tables.buffers,
                "RegisterBuffer", "UnregisterBuffer")
        /\ Kept(at, None, status, Textures, tables.textures,
                "RegisterTexture", "UnregisterTexture")
        /\ Kept(at, None, status, Views, tables.views,
                "RegisterTextureView", "UnregisterTextureView")
        /\ ViewsKept(at, None, status, tables.viewHandles)
    BY <1>1, <1>2, <1>3 DEF TablesRight
  <2>2. Kept(at', None, status', Buffers, tables.buffers,
             "RegisterBuffer", "UnregisterBuffer")
    BY <1>3, <2>1, ObeyKept, Kinds, GateIs
  <2>3. Kept(at', None, status', Textures, tables.textures,
             "RegisterTexture", "UnregisterTexture")
    BY <1>3, <2>1, ObeyKept, Kinds, GateIs
  <2>4. Kept(at', None, status', Views, tables.views,
             "RegisterTextureView", "UnregisterTextureView")
    BY <1>3, <2>1, ObeyKept, Kinds, GateIs
  <2>5. ViewsKept(at', None, status', tables.viewHandles)
    BY <1>3, <2>1, ObeyViews
  <2>6. QED BY <2>2, <2>3, <2>4, <2>5
<1>4. ASSUME "PIPELINE" \in enabled
      PROVE  Kept(at', None, status', Pipelines, tables.pipelines,
                  "RegisterPipeline", "UnregisterPipeline")
  <2>1. Kept(at, None, status, Pipelines, tables.pipelines,
             "RegisterPipeline", "UnregisterPipeline")
    BY <1>1, <1>2, <1>4 DEF TablesRight
  <2>2. QED BY <1>4, <2>1, ObeyKept, Kinds, GateIs
<1>5. ASSUME "COMMAND_LIST" \in enabled
      PROVE  /\ Kept(at', None, status', Lists, tables.registered,
                     "RegisterCommandList", "UnregisterCommandList")
             /\ \A l \in Lists : ListKept(at', None, rec', tables.lists, l)
  <2>1. /\ Kept(at, None, status, Lists, tables.registered,
                "RegisterCommandList", "UnregisterCommandList")
        /\ \A l \in Lists : ListKept(at, None, rec, tables.lists, l)
    BY <1>1, <1>2, <1>5 DEF TablesRight
  <2>2. Kept(at', None, status', Lists, tables.registered,
             "RegisterCommandList", "UnregisterCommandList")
    BY <1>5, <2>1, ObeyKept, Kinds, GateIs
  <2>3. \A l \in Lists : ListKept(at', None, rec', tables.lists, l)
    BY <1>5, <2>1, ObeyLists
  <2>4. QED BY <2>2, <2>3
<1>6. ASSUME {"RESOURCE", "MEMORY"} \subseteq enabled
      PROVE  MapsKept(at', None, mapped', tables.bufferMapped)
  <2>1. MapsKept(at, None, mapped, tables.bufferMapped)
    BY <1>1, <1>2, <1>6 DEF TablesRight
  <2>2. QED BY <1>6, <2>1, ObeyMaps
<1>7. QED
  BY <1>1, <1>3, <1>4, <1>5, <1>6, StillListKept DEF TablesRight

(* No report becomes false.                                                *)
LEMMA ObeyReports ==
  ASSUME IInv, NEW t \in Threads, NEW c \in Calls(t), Obey(t, c)
  PROVE  NoFalseReports' /\ MistakeCaught'
<1>1. /\ enabled' = enabled /\ tables' = tables /\ mistaken = None /\ mistaken' = None
      /\ holder' = holder /\ thrown' = thrown /\ at[t] = Idle
      /\ \A u \in Threads \ {t} : at'[u] = at[u]
  BY ObeyIs
<1>2. ASSUME TablesKept, NEW u \in Threads, holder = u \/ u \in thrown
      PROVE  /\ at'[u].op = "UnregisterTexture"
             /\ \A v \in tables.viewHandles[at'[u].obj] : status'[v] = "dead"
  <2>1. ForgottenViews(u)
    BY <1>1, <1>2 DEF IInv, NoFalseReports
  <2>2. at[u] # Idle
    BY <2>1 DEF ForgottenViews, Idle
  <2>3. at'[u] = at[u]
    BY <1>1, <2>2
  <2>4. at[u].obj \in Textures
    <3>1. Shape(u, at[u]) /\ at[u].op = "UnregisterTexture"
      BY <2>1, <2>2 DEF IInv, CallsWellFormed, ForgottenViews
    <3>2. QED
      BY <3>1 DEF Shape, ObjectCall, ListCall, BufferOps, ViewOps, PipelineOps,
                  RecordOps, ListOps, DrawOps, SetBufferOps, DescOps
  <2>5. \A v \in tables.viewHandles[at[u].obj] : v \in Things
    <3>1. tables.viewHandles \in [Textures -> SUBSET Views]
      BY DEF IInv, Types, TablesType
    <3>2. QED BY <2>4, <3>1 DEF Things, Objects
  <2>6. QED BY <2>1, <2>3, <2>5, ObeyStatus DEF ForgottenViews
<1>3. NoFalseReports'
  BY <1>1, <1>2 DEF NoFalseReports, TablesKept, ForgottenViews
<1>4. MistakeCaught'
  BY <1>1 DEF MistakeCaught
<1>5. QED BY <1>3, <1>4

(* The facts speak of descriptions, which nothing changes.                 *)
LEMMA StillFacts ==
  ASSUME desc' = desc
  PROVE  FactsHold(at, mistaken, status, mapped)'
           <=> FactsHold(at', mistaken', status', mapped')
BY DEF FactsHold, CallFacts

(* A call that follows the rules keeps the invariant as it begins.         *)
LEMMA ObeyIInv ==
  ASSUME IInv, NEW t \in Threads, NEW c \in Calls(t), Obey(t, c)
  PROVE  IInv'
<1>1. CallsWellFormed' /\ Apart(at')
  BY StartCalls DEF Obey
<1>2. Types' /\ TypeOK' /\ OffIsEmpty'
  BY ObeyTypes
<1>3. ProgramSane' /\ ViewsKnown(status', tables'.viewHandles)
  BY ObeySane
<1>4. FactsHold(at, mistaken, status, mapped)'
  BY ObeyFacts, ObeyIs, StillFacts
<1>5. TablesRight' /\ MistakeCaught' /\ NoFalseReports'
  BY ObeyTables, ObeyReports
<1>6. MistakeLimits'
  BY ObeyIs DEF IInv, MistakeLimits
<1>7. QED BY <1>1, <1>2, <1>3, <1>4, <1>5, <1>6 DEF IInv

-----------------------------------------------------------------------------
(* While the same calls are under way, and neither the program's state nor *)
(* the tables change, the tables stay right.                               *)
LEMMA MapsSame ==
  ASSUME NEW A, NEW m, NEW A2, NEW m2, SameDoing(A, m, A2, m2, MapOps),
         NEW M, NEW B, MapsKept(A, m, M, B)
  PROVE  MapsKept(A2, m2, M, B)
<1>1. /\ SameDoing(A, m, A2, m2, {"UnregisterBuffer", "OnBufferMap"})
      /\ SameDoing(A, m, A2, m2, {"OnBufferUnmap"})
  BY SameFewer DEF MapOps
<1>2. \A b \in Buffers : Settled(A2, m2, MapOps, b) => (b \in B <=> b \in M)
  BY SameSettled DEF MapsKept
<1>3. QED BY <1>1, <1>2 DEF MapsKept, SameDoing

(* The views of textures likewise.                                         *)
LEMMA ViewsSame ==
  ASSUME NEW A, NEW m, NEW A2, NEW m2,
         SameDoing(A, m, A2, m2, {"RegisterTextureView"}),
         NEW S, NEW H, ViewsKept(A, m, S, H)
  PROVE  ViewsKept(A2, m2, S, H)
BY SameSettled DEF ViewsKept

(* The lists likewise.                                                     *)
LEMMA ListsSame ==
  ASSUME NEW A, NEW m, NEW A2, NEW m2, SameDoing(A, m, A2, m2, RecordOps),
         NEW R, NEW I, NEW l \in Lists, ListKept(A, m, R, I, l)
  PROVE  ListKept(A2, m2, R, I, l)
<1>1. Owner[l] \in Threads
  BY ValidationAssumption
<1>2. /\ Doing(A2, m2, Owner[l], RecordOps) <=> Doing(A, m, Owner[l], RecordOps)
      /\ Doing(A, m, Owner[l], RecordOps) =>
           A2[Owner[l]].op = A[Owner[l]].op /\ A2[Owner[l]].list = A[Owner[l]].list
  BY <1>1 DEF SameDoing
<1>3. QED BY <1>2 DEF ListKept

(* All tables, then.                                                       *)
LEMMA TablesSame ==
  ASSUME enabled' = enabled, tables' = tables, status' = status, rec' = rec,
         mapped' = mapped,
         Watched' => Watched, TablesRight,
         \A ops \in SUBSET (Creating \cup Destroying \cup MapOps \cup RecordOps) :
           SameDoing(at, mistaken, at', mistaken', ops)
  PROVE  TablesRight'
<1> SUFFICES ASSUME Watched PROVE TablesRight'
  BY DEF TablesRight
<1> DEFINE All == Creating \cup Destroying \cup MapOps \cup RecordOps
<1>1. /\ {"RegisterBuffer", "UnregisterBuffer"} \in SUBSET All
      /\ {"RegisterTexture", "UnregisterTexture"} \in SUBSET All
      /\ {"RegisterTextureView", "UnregisterTextureView"} \in SUBSET All
      /\ {"RegisterPipeline", "UnregisterPipeline"} \in SUBSET All
      /\ {"RegisterCommandList", "UnregisterCommandList"} \in SUBSET All
      /\ {"RegisterTextureView"} \in SUBSET All /\ MapOps \in SUBSET All
      /\ RecordOps \in SUBSET All
  BY DEF Creating, Destroying
<1>2. "RESOURCE" \in enabled =>
        /\ Kept(at', mistaken', status', Buffers, tables.buffers,
                "RegisterBuffer", "UnregisterBuffer")
        /\ Kept(at', mistaken', status', Textures, tables.textures,
                "RegisterTexture", "UnregisterTexture")
        /\ Kept(at', mistaken', status', Views, tables.views,
                "RegisterTextureView", "UnregisterTextureView")
  BY <1>1, KeptSame DEF TablesRight
<1>3. "RESOURCE" \in enabled =>
        ViewsKept(at', mistaken', status', tables.viewHandles)
  BY <1>1, ViewsSame DEF TablesRight
<1>4. "PIPELINE" \in enabled =>
        Kept(at', mistaken', status', Pipelines, tables.pipelines,
             "RegisterPipeline", "UnregisterPipeline")
  BY <1>1, KeptSame DEF TablesRight
<1>5. "COMMAND_LIST" \in enabled =>
        Kept(at', mistaken', status', Lists, tables.registered,
             "RegisterCommandList", "UnregisterCommandList")
  BY <1>1, KeptSame DEF TablesRight
<1>6. "COMMAND_LIST" \in enabled =>
        \A l \in Lists : ListKept(at', mistaken', rec', tables'.lists, l)
  BY <1>1, ListsSame DEF TablesRight
<1>7. {"RESOURCE", "MEMORY"} \subseteq enabled =>
        MapsKept(at', mistaken', mapped', tables.bufferMapped)
  BY <1>1, MapsSame DEF TablesRight
<1>8. QED
  BY <1>2, <1>3, <1>4, <1>5, <1>6, <1>7, StillListKept DEF TablesRight

(* A call that breaks the rules: the tables are right about the rest.      *)
LEMMA ErrIInv ==
  ASSUME IInv, NEW t \in Threads, NEW c \in Calls(t), Err(t, c)
  PROVE  IInv'
<1>1. Shape(t, c) /\ Numbers(c) /\ Types
  BY CallShape DEF IInv
<1>2. /\ Enter(t, c) /\ mistaken = None /\ mistaken' = t /\ t # None
      /\ (~ overlooked' => ~ Seems(c)) /\ ~ Follows(c) /\ at[t] = Idle
      /\ enabled' = enabled /\ holder' = holder /\ thrown' = thrown
      /\ counted' = counted /\ tables' = tables /\ desc' = desc
      /\ status' = status /\ mapped' = mapped /\ rec' = rec /\ program' = program
      /\ overlooked' \in BOOLEAN /\ overlooked = FALSE
  BY SeemsRight, ValidationAssumption
     DEF IInv, Types, MistakeLimits, Err, Calling, layerVars, Overlooked
<1>3. /\ DOMAIN at = Threads /\ at' = [at EXCEPT ![t] = at'[t]]
      /\ at' \in [Threads -> {Idle} \cup Entries] /\ Entry(c, at'[t])
      /\ \A u \in Threads \ {t} : at'[u] = at[u]
  <2>1. /\ DOMAIN at = Threads /\ at' = [at EXCEPT ![t] = at'[t]]
        /\ at' \in [Threads -> {Idle} \cup Entries] /\ Entry(c, at'[t])
    BY <1>1, <1>2, EnterIs DEF Types
  <2>2. QED BY <2>1
<1>4. CallsWellFormed' /\ Apart(at')
  BY StartCalls DEF Err
<1>5. Types' /\ TypeOK' /\ OffIsEmpty' /\ ProgramSane'
      /\ ViewsKnown(status', tables'.viewHandles)
  BY <1>1, <1>2, <1>3 DEF IInv, Types, TypeOK, OffIsEmpty, ProgramSane, Alive
<1>6. FactsHold(at, mistaken, status, mapped)'
  BY <1>2, <1>3, StillFacts, ValidationAssumption DEF IInv, FactsHold
<1>7. TablesRight'
  <2>1. Watched' => Watched
    BY <1>2 DEF Watched, TablesKept, AllOn
  <2>2. ASSUME NEW ops PROVE SameDoing(at, mistaken, at', mistaken', ops)
    <3>1. ~ Doing(at, mistaken, t, ops) /\ ~ Doing(at', mistaken', t, ops)
      BY <1>2 DEF Doing
    <3>2. QED BY <1>2, <1>3, <3>1, SameButOne
  <2>3. QED BY <1>2, <2>1, <2>2, TablesSame DEF IInv
<1>8. MistakeCaught'
  <2> SUFFICES ASSUME AllOn'
               PROVE  /\ at'[t] # Idle /\ ~ Seems(at[t])'
                      /\ at'[t].handles = Handles(at'[t])
    BY <1>2 DEF MistakeCaught, HandlesPassed
  <2>7. enabled = Categories /\ ~ overlooked'
    BY <1>2 DEF AllOn
  <2>8. ~ Seems(c)
    BY <1>2, <2>7
  <2>1. Gate[c.op] \in enabled
    BY <1>1, <2>7, ShapeOps DEF Gate, Categories
  <2> PICK e : e = at'[t]
    OBVIOUS
  <2>2. /\ e # Idle /\ e.op = c.op /\ e.obj = c.obj /\ e.list = c.list
        /\ e.dst = c.dst /\ e.ok = c.ok /\ e.args = c.args
        /\ e.handles = Handles(c)
    BY <1>3, <2>1 DEF Entry
  <2>3. ~ Seems(e)
    BY <2>8, <2>2 DEF Seems, InOrder, Tested, ArgumentOps, DrawOps, DescOps
  <2>4. Handles(e) = Handles(c)
    BY <2>2 DEF Handles
  <2>5. Seems(at[t])' <=> Seems(e)
    BY <1>2 DEF Seems, InOrder, Tested, Alive, Recording, Inside, ArgumentOps,
                DrawOps, DescOps
  <2>6. QED BY <2>2, <2>3, <2>4, <2>5
<1>9. NoFalseReports'
  BY <1>2 DEF NoFalseReports
<1>10. MistakeLimits'
  <2>1. c.op \notin Creating
    <3> SUFFICES ASSUME c.op \in Creating PROVE Follows(c)
      BY <1>2
    <3>1. c.ok /\ c.op \notin DrawOps \cup {"ValidateBufferWrite", "ValidateBufferCopy"}
      BY <1>1 DEF Numbers, Creating, ArgumentOps, DescOps, DrawOps
    <3>2. QED BY <3>1 DEF Follows, RightArguments, InOrder
  <2>2. at'[t].op \notin Creating
    BY <1>3, <2>1 DEF Entry, Idle, Creating
  <2>3. QED BY <1>2, <2>2 DEF IInv, MistakeLimits
<1>11. QED
  BY <1>2, <1>4, <1>5, <1>6, <1>7, <1>8, <1>9, <1>10 DEF IInv

-----------------------------------------------------------------------------
(* What the functions make of their checks.                                *)
CheckType == {Passed} \cup [category : Categories, stops : BOOLEAN]

Among(checks) == {checks[i] : i \in 1 .. Len(checks)}

(* A check passes or fails in its category.                                *)
LEMMA PassedIs ==
  /\ Passed.category \notin Categories /\ Passed.stops = FALSE
  /\ \A bad, category, stops : Check(bad, category, stops) # Passed =>
       Check(bad, category, stops) = [category |-> category, stops |-> stops]
BY DEF Passed, Categories, Check

(* Some check is the first not to pass.                                    *)
LEMMA FirstBad ==
  ASSUME NEW checks \in Seq(CheckType),
         NEW k \in 1 .. Len(checks), checks[k] # Passed
  PROVE  \E i \in 1 .. Len(checks) :
           checks[i] # Passed /\ \A j \in 1 .. i - 1 : checks[j] = Passed
<1> DEFINE Bad == {i \in 1 .. Len(checks) : checks[i] # Passed}
<1>1. Bad \subseteq Nat /\ Bad # {}
  OBVIOUS
<1>2. IsWellFoundedOn(OpToRel(<, Nat), Nat)
  BY NatLessThanWellFounded
<1>3. PICK i \in Bad : \A j \in Bad : ~ (<<j, i>> \in OpToRel(<, Nat))
  BY <1>1, <1>2, WFMin
<1>4. ASSUME NEW j \in 1 .. i - 1
      PROVE  checks[j] = Passed
  <2>1. i \in Nat /\ Len(checks) \in Nat /\ i \in 1 .. Len(checks)
    <3>1. Len(checks) \in Nat
      OBVIOUS
    <3>2. i \in 1 .. Len(checks)
      BY <1>3
    <3>3. QED BY <3>1, <3>2
  <2>2. j \in Nat /\ j < i /\ j \in 1 .. Len(checks)
    BY <2>1
  <2>3. <<j, i>> \in OpToRel(<, Nat)
    BY <2>1, <2>2 DEF OpToRel
  <2>4. QED BY <1>3, <2>2, <2>3
<1>5. QED BY <1>3, <1>4

(* A report is made of a check that fails in a category that is on; with   *)
(* all of them on, every failure is reported.                              *)
LEMMA Verdict ==
  ASSUME NEW checks \in Seq(CheckType), enabled \subseteq Categories
  PROVE  /\ Reports(checks) =>
              \E x \in Among(checks) :
                x # Passed /\ x.category \in enabled
                /\ (checks[1].stops => x = checks[1])
         /\ Stops(checks) => \E x \in Among(checks) : x # Passed /\ x.stops
         /\ ~ Reports(checks) /\ ~ Stops(checks) =>
              \A x \in Among(checks) : x.category \notin enabled /\ ~ x.stops
         /\ ~ Reports(checks) /\ AllOn =>
              \A x \in Among(checks) : x = Passed
<1>1. Len(checks) \in Nat /\ \A i \in 1 .. Len(checks) : checks[i] \in CheckType
  OBVIOUS
<1>2. Reports(checks) =>
        \E x \in Among(checks) :
          x # Passed /\ x.category \in enabled /\ (checks[1].stops => x = checks[1])
  <2> SUFFICES ASSUME NEW i \in 1 .. Len(checks), checks[i].category \in enabled,
                      \A j \in 1 .. i - 1 : ~ checks[j].stops
               PROVE  checks[i] # Passed /\ (checks[1].stops => checks[i] = checks[1])
    BY DEF Reports, Among
  <2>1. checks[i] # Passed
    BY PassedIs
  <2>2. ASSUME i # 1 PROVE ~ checks[1].stops
    <3>1. 1 \in 1 .. i - 1
      BY <1>1, <2>2
    <3>2. QED BY <3>1
  <2>3. QED BY <2>1, <2>2
<1>3. Stops(checks) => \E x \in Among(checks) : x # Passed /\ x.stops
  BY PassedIs DEF Stops, Among
<1>4. ~ Reports(checks) /\ ~ Stops(checks) =>
        \A x \in Among(checks) : x.category \notin enabled /\ ~ x.stops
  <2> SUFFICES ASSUME ~ Reports(checks), ~ Stops(checks), NEW i \in 1 .. Len(checks)
               PROVE  checks[i].category \notin enabled /\ ~ checks[i].stops
    BY DEF Among
  <2>1. \A j \in 1 .. Len(checks) : ~ checks[j].stops
    BY DEF Stops
  <2>2. \A j \in 1 .. i - 1 : j \in 1 .. Len(checks)
    BY <1>1
  <2>3. QED BY <2>1, <2>2 DEF Reports
<1>5. ~ Reports(checks) /\ AllOn =>
        \A x \in Among(checks) : x = Passed
  <2> SUFFICES ASSUME AllOn, NEW k \in 1 .. Len(checks),
                      checks[k] # Passed
               PROVE  Reports(checks)
    BY DEF Among
  <2>1. PICK i \in 1 .. Len(checks) :
               checks[i] # Passed /\ \A j \in 1 .. i - 1 : checks[j] = Passed
    BY FirstBad
  <2>2. checks[i].category \in enabled
    BY <1>1, <2>1 DEF CheckType, AllOn
  <2>3. \A j \in 1 .. i - 1 : ~ checks[j].stops
    BY <2>1, PassedIs
  <2>4. QED BY <2>2, <2>3 DEF Reports
<1>6. QED BY <1>2, <1>3, <1>4, <1>5

(* Three ways to end: a report, which keeps the thread; a silent return    *)
(* for a category that is off; or the update of the tables.                *)
Unmoved == UNCHANGED <<enabled, programVars>>

Reported(t) == /\ SelfLock(t) /\ holder = None
               /\ UNCHANGED <<tables, at, counted>> /\ Unmoved

Returned(t) == /\ at' = [at EXCEPT ![t] = Idle]
               /\ UNCHANGED <<holder, thrown, counted>> /\ Unmoved

LockedReport(t, checks) ==
  /\ Reported(t)
  /\ \E x \in Among(checks) :
       x # Passed /\ x.category \in enabled /\ (checks[1].stops => x = checks[1])

LockedStop(t, checks) ==
  /\ Returned(t) /\ tables' = tables /\ ~ AllOn
  /\ \E x \in Among(checks) : x # Passed /\ x.stops

LockedUpdate(t, checks, updated) ==
  /\ Returned(t) /\ tables' = updated
  /\ \A x \in Among(checks) : x.category \notin enabled /\ ~ x.stops
  /\ AllOn => \A x \in Among(checks) : x = Passed

(* There is no fourth.                                                     *)
LEMMA LockedCases ==
  ASSUME Types, NEW t, NEW op, NEW checks \in Seq(CheckType), NEW updated,
         Locked(t, op, checks, updated)
  PROVE  /\ at[t].op = op /\ at[t].handles = <<>> /\ holder = None
         /\ \/ LockedReport(t, checks)
            \/ LockedStop(t, checks)
            \/ LockedUpdate(t, checks, updated)
<1>1. enabled \subseteq Categories
  BY DEF Types
<1>2. /\ at[t].op = op /\ at[t].handles = <<>> /\ holder = None
      /\ Unmoved /\ counted' = counted
  BY DEF Locked, Unmoved
<1>3. CASE Reports(checks)
  <2>1. SelfLock(t) /\ UNCHANGED <<tables, at>>
    BY <1>3 DEF Locked
  <2>2. QED BY <1>1, <1>2, <1>3, <2>1, Verdict DEF LockedReport, Reported
<1>4. CASE ~ Reports(checks)
  <2>1. /\ at' = [at EXCEPT ![t] = Idle] /\ UNCHANGED <<holder, thrown>>
        /\ tables' = IF Stops(checks) THEN tables ELSE updated
    BY <1>4 DEF Locked
  <2>2. Returned(t)
    BY <1>2, <2>1 DEF Returned
  <2>3. CASE Stops(checks)
    <3>1. \E x \in Among(checks) : x # Passed /\ x.stops
      BY <1>1, <2>3, Verdict
    <3>2. ~ AllOn
      <4>1. PICK x \in Among(checks) : x # Passed
        BY <3>1
      <4>2. QED BY <1>1, <1>4, <4>1, Verdict
    <3>3. tables' = tables
      BY <2>1, <2>3
    <3>4. QED BY <1>2, <2>2, <3>1, <3>2, <3>3 DEF LockedStop
  <2>4. CASE ~ Stops(checks)
    <3>1. \A x \in Among(checks) : x.category \notin enabled /\ ~ x.stops
      BY <1>1, <1>4, <2>4, Verdict
    <3>2. AllOn => \A x \in Among(checks) : x = Passed
      BY <1>1, <1>4, Verdict
    <3>3. tables' = updated
      BY <2>1, <2>4
    <3>4. QED BY <1>2, <2>2, <3>1, <3>2, <3>3 DEF LockedUpdate
  <2>5. QED BY <2>3, <2>4
<1>5. QED BY <1>2, <1>3, <1>4

-----------------------------------------------------------------------------
(* Tables, when a function returns.                                        *)
TableEffect(c, T, T2, reg, unreg) ==
  /\ c.op = reg => T2 = T \cup {Thing(c)}
  /\ c.op = unreg => T2 = T \ {Thing(c)}
  /\ c.op \notin {reg, unreg} => T2 = T

MapEffect(c, B, B2) ==
  /\ c.op = "OnBufferMap" => B2 = B \cup {c.obj}
  /\ c.op \in MapOps \ {"OnBufferMap"} => B2 = B \ {c.obj}
  /\ c.op \notin MapOps => B2 = B

ViewEffect(c, H, H2) ==
  /\ c.op = "RegisterTextureView" => c.obj \in H2[Parent[c.obj]]
  /\ \A v \in Views : v \in H[Parent[v]] /\ v \notin H2[Parent[v]] =>
       c.op = "RegisterTexture" /\ Parent[v] = c.obj

ListEffect(c, I, I2, l) ==
  IF c.op \in RecordOps /\ c.list = l THEN I2[l] = Recorded(I[l], c.op)
  ELSE I2[l] = I[l]

(* What a function does to the tables that are kept.                       *)
Effects(c, T, T2) ==
  /\ "RESOURCE" \in enabled =>
       /\ TableEffect(c, T.buffers, T2.buffers, "RegisterBuffer", "UnregisterBuffer")
       /\ TableEffect(c, T.textures, T2.textures,
                      "RegisterTexture", "UnregisterTexture")
       /\ TableEffect(c, T.views, T2.views,
                      "RegisterTextureView", "UnregisterTextureView")
       /\ ViewEffect(c, T.viewHandles, T2.viewHandles)
  /\ "PIPELINE" \in enabled =>
       TableEffect(c, T.pipelines, T2.pipelines,
                   "RegisterPipeline", "UnregisterPipeline")
  /\ "COMMAND_LIST" \in enabled =>
       /\ TableEffect(c, T.registered, T2.registered,
                      "RegisterCommandList", "UnregisterCommandList")
       /\ \A l \in Lists : ListEffect(c, T.lists, T2.lists, l)
  /\ {"RESOURCE", "MEMORY"} \subseteq enabled =>
       MapEffect(c, T.bufferMapped, T2.bufferMapped)

(* A thread leaves the layer.                                              *)
Left(t) == at[t] # Idle /\ at' = [at EXCEPT ![t] = Idle]

(* The others stay where they are.                                         *)
LEMMA LeftIs ==
  ASSUME IInv, NEW t \in Threads, Left(t)
  PROVE  /\ DOMAIN at = Threads /\ at'[t] = Idle /\ Shape(t, at[t])
         /\ \A u \in Threads \ {t} : at'[u] = at[u]
         /\ CallsWellFormed
BY DEF IInv, Types, Left, CallsWellFormed

(* A table has caught up with the call that returns.                       *)
LEMMA LeftKept ==
  ASSUME IInv, NEW t \in Threads, Left(t), t # mistaken,
         NEW K, NEW reg, NEW unreg, KindOf(K, reg, unreg), NEW T, NEW T2,
         Kept(at, mistaken, status, K, T, reg, unreg),
         TableEffect(at[t], T, T2, reg, unreg)
  PROVE  Kept(at', mistaken, status, K, T2, reg, unreg)
<1>1. /\ DOMAIN at = Threads /\ at'[t] = Idle /\ Shape(t, at[t]) /\ at[t] # Idle
      /\ at' = [at EXCEPT ![t] = Idle] /\ CallsWellFormed /\ Apart(at)
      /\ CallFacts(at[t], status, mapped)
  BY LeftIs DEF Left, IInv, FactsHold
<1>2. K \subseteq Things /\ reg \in Creating /\ unreg \in Destroying /\ reg # unreg
  BY DEF KindOf, Creating, Destroying
<1>3. CASE at[t].op \in {reg, unreg}
  <2>1. Doing(at, mistaken, t, {reg, unreg})
    BY <1>1, <1>3 DEF Doing
  <2>2. Thing(at[t]) \in Changes(at[t]) /\ Thing(at[t]) \in Things
    BY <1>1, <1>2, <1>3, ThingChanged
  <2>3. ASSUME NEW u \in Threads \ {t}, Doing(at, mistaken, u, {reg, unreg})
        PROVE  Thing(at[u]) # Thing(at[t])
    <3>1. Shape(u, at[u]) /\ at[u] # Idle /\ at[u].op \in {reg, unreg}
      BY <1>1, <2>3 DEF Doing, CallsWellFormed
    <3>2. Thing(at[u]) \in Uses(at[u]) /\ Thing(at[u]) \in Things
      BY <1>2, <3>1, ThingChanged
    <3>3. QED BY <1>1, <2>2, <3>2, ValidationAssumption DEF Apart
  <2>4. /\ at[t].op = reg =>
             T2 = T \cup {Thing(at[t])} /\ status[Thing(at[t])] = "alive"
        /\ at[t].op = unreg =>
             T2 = T \ {Thing(at[t])} /\ status[Thing(at[t])] # "alive"
    BY <1>1, <1>2 DEF TableEffect, CallFacts
  <2> PICK A, m, S : A = at /\ m = mistaken /\ S = status
    OBVIOUS
  <2>5. /\ DOMAIN A = Threads /\ reg # unreg
        /\ Kept(A, m, S, K, T, reg, unreg) /\ Doing(A, m, t, {reg, unreg})
        /\ A[t].op = reg => T2 = T \cup {Thing(A[t])} /\ S[Thing(A[t])] = "alive"
        /\ A[t].op = unreg => T2 = T \ {Thing(A[t])} /\ S[Thing(A[t])] # "alive"
        /\ \A u \in Threads \ {t} :
             Doing(A, m, u, {reg, unreg}) => Thing(A[u]) # Thing(A[t])
    BY <1>1, <1>2, <2>1, <2>3, <2>4
  <2>6. Kept([A EXCEPT ![t] = Idle], m, S, K, T2, reg, unreg)
    BY <2>5, KeptEnd
  <2>7. QED BY <1>1, <2>6
<1>4. CASE at[t].op \notin {reg, unreg}
  <2>1. ~ Doing(at, mistaken, t, {reg, unreg}) /\ ~ Doing(at', mistaken, t, {reg, unreg})
    BY <1>1, <1>4 DEF Doing
  <2>2. SameDoing(at, mistaken, at', mistaken, {reg, unreg})
    BY <1>1, <2>1, SameButOne
  <2>3. T2 = T
    BY <1>4 DEF TableEffect
  <2>4. QED BY <2>2, <2>3, KeptSame
<1>5. QED BY <1>3, <1>4

(* So have the mapped buffers,                                             *)
LEMMA LeftMaps ==
  ASSUME IInv, NEW t \in Threads, Left(t), t # mistaken, NEW B, NEW B2,
         MapsKept(at, mistaken, mapped, B), MapEffect(at[t], B, B2)
  PROVE  MapsKept(at', mistaken, mapped, B2)
<1>1. /\ DOMAIN at = Threads /\ at'[t] = Idle /\ Shape(t, at[t]) /\ at[t] # Idle
      /\ at' = [at EXCEPT ![t] = Idle] /\ CallsWellFormed /\ Apart(at)
      /\ CallFacts(at[t], status, mapped)
      /\ \A u \in Threads \ {t} : at'[u] = at[u]
  BY LeftIs DEF Left, IInv, FactsHold
<1>2. CASE at[t].op \in MapOps
  <2>1. at[t].obj \in Buffers /\ Thing(at[t]) = at[t].obj
        /\ at[t].obj \in Changes(at[t]) /\ at[t].obj \in Things
    BY <1>1, <1>2, ThingChanged
  <2>2. at[t].obj \in B2 <=> at[t].obj \in mapped
    BY <1>1, <1>2 DEF MapEffect, CallFacts, MapOps
  <2>3. ASSUME NEW u \in Threads \ {t}, Doing(at, mistaken, u, MapOps)
        PROVE  at[u].obj # at[t].obj
    <3>1. Shape(u, at[u]) /\ at[u] # Idle /\ at[u].op \in MapOps
      BY <1>1, <2>3 DEF Doing, CallsWellFormed
    <3>2. at[u].obj \in Uses(at[u])
      BY <3>1, ThingChanged
    <3>3. QED BY <1>1, <2>1, <3>2, ValidationAssumption DEF Apart
  <2>4. \A b : b # at[t].obj => (b \in B2 <=> b \in B)
    BY <1>2 DEF MapEffect
  <2>5. ASSUME NEW b \in Buffers, Settled(at', mistaken, MapOps, b)
        PROVE  b \in B2 <=> b \in mapped
    <3>1. CASE b = at[t].obj
      BY <2>2, <3>1
    <3>2. CASE b # at[t].obj
      <4>1. Settled(at, mistaken, MapOps, b)
        BY <1>1, <2>1, <2>5, <3>2 DEF Settled, Doing
      <4>2. QED BY <2>4, <3>2, <4>1 DEF MapsKept
    <3>3. QED BY <3>1, <3>2
  <2>6. ASSUME NEW u \in Threads
        PROVE  /\ Doing(at', mistaken, u, {"UnregisterBuffer", "OnBufferMap"}) =>
                    at'[u].obj \notin B2
               /\ Doing(at', mistaken, u, {"OnBufferUnmap"}) => at'[u].obj \in B2
    <3>1. CASE u = t
      BY <1>1, <3>1 DEF Doing
    <3>2. CASE u # t
      <4>1. at'[u] = at[u]
        BY <1>1, <3>2
      <4>2. Doing(at, mistaken, u, {"UnregisterBuffer", "OnBufferMap", "OnBufferUnmap"})
              => at[u].obj # at[t].obj
        BY <2>3, <3>2 DEF Doing, MapOps
      <4>3. QED BY <2>4, <4>1, <4>2 DEF MapsKept, Doing
    <3>3. QED BY <3>1, <3>2
  <2>7. QED BY <2>5, <2>6 DEF MapsKept
<1>3. CASE at[t].op \notin MapOps
  <2>1. ~ Doing(at, mistaken, t, MapOps) /\ ~ Doing(at', mistaken, t, MapOps)
    BY <1>1, <1>3 DEF Doing
  <2>2. SameDoing(at, mistaken, at', mistaken, MapOps)
    BY <1>1, <2>1, SameButOne
  <2>3. B2 = B
    BY <1>3 DEF MapEffect
  <2>4. QED BY <2>2, <2>3, MapsSame
<1>4. QED BY <1>2, <1>3

(* the views of textures,                                                  *)
LEMMA LeftViews ==
  ASSUME IInv, NEW t \in Threads, Left(t), t # mistaken, NEW H, NEW H2,
         ViewsKept(at, mistaken, status, H), ViewEffect(at[t], H, H2)
  PROVE  ViewsKept(at', mistaken, status, H2)
<1>1. /\ at'[t] = Idle /\ Shape(t, at[t]) /\ at[t] # Idle
      /\ CallFacts(at[t], status, mapped)
      /\ \A u \in Threads \ {t} : at'[u] = at[u]
  BY LeftIs DEF Left, IInv, FactsHold
<1> SUFFICES ASSUME NEW v \in Views, status[v] = "alive",
                    Settled(at', mistaken, {"RegisterTextureView"}, v)
             PROVE  v \in H2[Parent[v]]
  BY DEF ViewsKept
<1>2. CASE at[t].op = "RegisterTextureView" /\ at[t].obj = v
  BY <1>2 DEF ViewEffect
<1>3. CASE ~ (at[t].op = "RegisterTextureView" /\ at[t].obj = v)
  <2>1. at[t].op = "RegisterTextureView" => Thing(at[t]) # v
    <3>1. at[t].op = "RegisterTextureView" => at[t].obj \in Views
      BY <1>1 DEF Shape, ObjectCall, ListCall, BufferOps, TextureOps, PipelineOps,
                  RecordOps, ListOps, DrawOps, SetBufferOps, DescOps
    <3>2. QED BY <1>3, <3>1, KindsApart DEF Thing
  <2>2. Settled(at, mistaken, {"RegisterTextureView"}, v)
    BY <1>1, <2>1 DEF Settled, Doing
  <2>3. v \in H[Parent[v]]
    BY <2>2 DEF ViewsKept
  <2>4. ~ (at[t].op = "RegisterTexture" /\ Parent[v] = at[t].obj)
    BY <1>1 DEF CallFacts
  <2>5. QED BY <2>3, <2>4 DEF ViewEffect
<1>4. QED BY <1>2, <1>3

(* The layer records what the program does.                                *)
LEMMA RecordedMatch ==
  ASSUME NEW i \in InfoType, NEW r \in InfoType, NEW op \in RecordOps,
         Gate[op] \in enabled, Match(i, r)
  PROVE  Match(Recorded(i, op), Recorded(r, op))
<1>1. CASE op \in {"RegisterCommandList", "UnregisterCommandList",
                   "OnCommandListReset"}
  <2>1. Recorded(i, op) = FreshInfo /\ Recorded(r, op) = FreshInfo
    BY <1>1 DEF Recorded
  <2>2. QED BY <2>1 DEF Match, FreshInfo
<1>2. CASE op = "OnCommandListBegin"
  <2>1. /\ Recorded(i, op) = [FreshInfo EXCEPT !.state = "RECORDING"]
        /\ Recorded(r, op) = [FreshInfo EXCEPT !.state = "RECORDING"]
    BY <1>2 DEF Recorded
  <2>2. QED BY <2>1 DEF Match, FreshInfo
<1>3. CASE op = "OnCommandListEnd"
  <2>1. /\ Recorded(i, op) = [i EXCEPT !.state = "EXECUTABLE"]
        /\ Recorded(r, op) = [r EXCEPT !.state = "EXECUTABLE"]
    BY <1>3 DEF Recorded
  <2>2. QED BY <2>1 DEF Match, InfoType
<1>4. CASE op = "OnCommandListSubmit"
  <2>1. /\ Recorded(i, op) = [i EXCEPT !.state = "SUBMITTED"]
        /\ Recorded(r, op) = [r EXCEPT !.state = "SUBMITTED"]
    BY <1>4 DEF Recorded
  <2>2. QED BY <2>1 DEF Match, InfoType
<1>5. CASE op \in {"ValidateBeginRenderPass", "ValidateEndRenderPass"}
  <2>1. "RENDER_PASS" \in enabled
    BY <1>5, GateIs
  <2>2. PICK b \in BOOLEAN : /\ Recorded(i, op) = [i EXCEPT !.inPass = b]
                             /\ Recorded(r, op) = [r EXCEPT !.inPass = b]
    BY <1>5 DEF Recorded
  <2>3. QED BY <2>1, <2>2 DEF Match, InfoType
<1>6. CASE op \in {"ValidateBeginRendering", "ValidateEndRendering"}
  <2>1. "RENDER_PASS" \in enabled
    BY <1>6, GateIs
  <2>2. PICK b \in BOOLEAN : /\ Recorded(i, op) = [i EXCEPT !.inRendering = b]
                             /\ Recorded(r, op) = [r EXCEPT !.inRendering = b]
    BY <1>6 DEF Recorded
  <2>3. QED BY <2>1, <2>2 DEF Match, InfoType
<1>7. CASE op = "ValidateSetPipeline"
  <2>1. /\ Recorded(i, op) = [i EXCEPT !.pipeline = TRUE]
        /\ Recorded(r, op) = [r EXCEPT !.pipeline = TRUE]
    BY <1>7 DEF Recorded
  <2>2. QED BY <2>1 DEF Match, InfoType
<1>8. CASE op = "ValidateSetVertexBuffer"
  <2>1. /\ Recorded(i, op) = [i EXCEPT !.vertex = TRUE]
        /\ Recorded(r, op) = [r EXCEPT !.vertex = TRUE]
    BY <1>8 DEF Recorded
  <2>2. QED BY <2>1 DEF Match, InfoType
<1>9. CASE op = "ValidateSetIndexBuffer"
  <2>1. /\ Recorded(i, op) = [i EXCEPT !.index = TRUE]
        /\ Recorded(r, op) = [r EXCEPT !.index = TRUE]
    BY <1>9 DEF Recorded
  <2>2. QED BY <2>1 DEF Match, InfoType
<1>10. CASE op \in {"ValidateDrawCall", "ValidateDrawIndexed"}
  <2>1. Recorded(i, op) = i /\ Recorded(r, op) = r
    BY <1>10 DEF Recorded
  <2>2. QED BY <2>1
<1>11. QED
  BY <1>1, <1>2, <1>3, <1>4, <1>5, <1>6, <1>7, <1>8, <1>9, <1>10
     DEF RecordOps, ListOps, DrawOps, SetBufferOps

(* and the lists.                                                          *)
LEMMA LeftLists ==
  ASSUME IInv, NEW t \in Threads, Left(t), t # mistaken,
         NEW I \in [Lists -> InfoType], NEW I2, NEW l \in Lists,
         ListKept(at, mistaken, rec, I, l), ListEffect(at[t], I, I2, l)
  PROVE  ListKept(at', mistaken, rec, I2, l)
<1>1. /\ at'[t] = Idle /\ Shape(t, at[t]) /\ at[t] # Idle
      /\ \A u \in Threads \ {t} : at'[u] = at[u]
      /\ Gate[at[t].op] \in enabled /\ Owner[l] \in Threads
      /\ I[l] \in InfoType
  BY LeftIs, ValidationAssumption DEF Left, CallsWellFormed
<1>2. CASE at[t].op \in RecordOps /\ at[t].list = l
  <2>1. Owner[l] = t
    BY <1>1, <1>2, KindsApart DEF Shape, ObjectCall, ListCall, RecordOps, ListOps,
                                  DrawOps,
                                  SetBufferOps, DescOps
  <2>2. Before(I[l], rec[l], at[t].op)
    BY <1>1, <1>2, <2>1 DEF ListKept, Doing
  <2>3. PICK old \in InfoType : Match(I[l], old) /\ rec[l] = Recorded(old, at[t].op)
    BY <2>2 DEF Before
  <2>4. Match(Recorded(I[l], at[t].op), rec[l])
    BY <1>1, <1>2, <2>3, RecordedMatch
  <2>5. Match(I2[l], rec[l])
    BY <1>2, <2>4 DEF ListEffect
  <2>6. QED BY <1>1, <2>1, <2>5 DEF ListKept, Doing
<1>3. CASE ~ (at[t].op \in RecordOps /\ at[t].list = l)
  <2>1. I2[l] = I[l]
    BY <1>3 DEF ListEffect
  <2>2. CASE Owner[l] = t
    <3>1. Match(I[l], rec[l])
      BY <1>3, <2>2 DEF ListKept, Doing
    <3>2. QED BY <1>1, <2>1, <2>2, <3>1 DEF ListKept, Doing
  <2>3. CASE Owner[l] # t
    BY <1>1, <2>1, <2>3 DEF ListKept, Doing
  <2>4. QED BY <2>2, <2>3
<1>4. QED BY <1>2, <1>3

(* All tables together.                                                    *)
LEMMA LeftTables ==
  ASSUME IInv, NEW t \in Threads, Left(t), t # mistaken, Unmoved,
         Effects(at[t], tables, tables')
  PROVE  TablesRight'
<1>1. /\ enabled' = enabled /\ mistaken' = mistaken /\ overlooked' = overlooked
      /\ status' = status
      /\ mapped' = mapped /\ rec' = rec
  BY DEF Unmoved, programVars
<1> SUFFICES ASSUME Watched PROVE TablesRight'
  BY <1>1, StillWatched DEF TablesRight
<1>2. TablesRight /\ tables.lists \in [Lists -> InfoType]
  BY DEF IInv, Types, TablesType
<1>3. ASSUME "RESOURCE" \in enabled
      PROVE  /\ Kept(at', mistaken, status, Buffers, tables'.buffers,
                     "RegisterBuffer", "UnregisterBuffer")
             /\ Kept(at', mistaken, status, Textures, tables'.textures,
                     "RegisterTexture", "UnregisterTexture")
             /\ Kept(at', mistaken, status, Views, tables'.views,
                     "RegisterTextureView", "UnregisterTextureView")
             /\ ViewsKept(at', mistaken, status, tables'.viewHandles)
  <2>1. /\ Kept(at, mistaken, status, Buffers, tables.buffers,
                "RegisterBuffer", "UnregisterBuffer")
        /\ Kept(at, mistaken, status, Textures, tables.textures,
                "RegisterTexture", "UnregisterTexture")
        /\ Kept(at, mistaken, status, Views, tables.views,
                "RegisterTextureView", "UnregisterTextureView")
        /\ ViewsKept(at, mistaken, status, tables.viewHandles)
    BY <1>2, <1>3 DEF TablesRight
  <2>2. /\ TableEffect(at[t], tables.buffers, tables'.buffers,
                       "RegisterBuffer", "UnregisterBuffer")
        /\ TableEffect(at[t], tables.textures, tables'.textures,
                       "RegisterTexture", "UnregisterTexture")
        /\ TableEffect(at[t], tables.views, tables'.views,
                       "RegisterTextureView", "UnregisterTextureView")
        /\ ViewEffect(at[t], tables.viewHandles, tables'.viewHandles)
    BY <1>3 DEF Effects
  <2>3. Kept(at', mistaken, status, Buffers, tables'.buffers,
             "RegisterBuffer", "UnregisterBuffer")
    BY <2>1, <2>2, Kinds, LeftKept
  <2>4. Kept(at', mistaken, status, Textures, tables'.textures,
             "RegisterTexture", "UnregisterTexture")
    BY <2>1, <2>2, Kinds, LeftKept
  <2>5. Kept(at', mistaken, status, Views, tables'.views,
             "RegisterTextureView", "UnregisterTextureView")
    BY <2>1, <2>2, Kinds, LeftKept
  <2>6. ViewsKept(at', mistaken, status, tables'.viewHandles)
    BY <2>1, <2>2, LeftViews
  <2>7. QED BY <2>3, <2>4, <2>5, <2>6
<1>4. ASSUME "PIPELINE" \in enabled
      PROVE  Kept(at', mistaken, status, Pipelines, tables'.pipelines,
                  "RegisterPipeline", "UnregisterPipeline")
  <2>1. /\ Kept(at, mistaken, status, Pipelines, tables.pipelines,
                "RegisterPipeline", "UnregisterPipeline")
        /\ TableEffect(at[t], tables.pipelines, tables'.pipelines,
                       "RegisterPipeline", "UnregisterPipeline")
    BY <1>2, <1>4 DEF TablesRight, Effects
  <2>2. QED BY <2>1, Kinds, LeftKept
<1>5. ASSUME "COMMAND_LIST" \in enabled
      PROVE  /\ Kept(at', mistaken, status, Lists, tables'.registered,
                     "RegisterCommandList", "UnregisterCommandList")
             /\ \A l \in Lists : ListKept(at', mistaken, rec, tables'.lists, l)
  <2>1. /\ Kept(at, mistaken, status, Lists, tables.registered,
                "RegisterCommandList", "UnregisterCommandList")
        /\ TableEffect(at[t], tables.registered, tables'.registered,
                       "RegisterCommandList", "UnregisterCommandList")
        /\ \A l \in Lists : ListKept(at, mistaken, rec, tables.lists, l)
                            /\ ListEffect(at[t], tables.lists, tables'.lists, l)
    BY <1>2, <1>5 DEF TablesRight, Effects
  <2>2. Kept(at', mistaken, status, Lists, tables'.registered,
             "RegisterCommandList", "UnregisterCommandList")
    BY <2>1, Kinds, LeftKept
  <2>3. \A l \in Lists : ListKept(at', mistaken, rec, tables'.lists, l)
    BY <1>2, <2>1, LeftLists
  <2>4. QED BY <2>2, <2>3
<1>6. ASSUME {"RESOURCE", "MEMORY"} \subseteq enabled
      PROVE  MapsKept(at', mistaken, mapped, tables'.bufferMapped)
  <2>1. /\ MapsKept(at, mistaken, mapped, tables.bufferMapped)
        /\ MapEffect(at[t], tables.bufferMapped, tables'.bufferMapped)
    BY <1>2, <1>6 DEF TablesRight, Effects
  <2>2. QED BY <2>1, LeftMaps
<1>7. QED
  BY <1>1, <1>3, <1>4, <1>5, <1>6, StillListKept DEF TablesRight

-----------------------------------------------------------------------------
(* Steps of the layer.                                                     *)

(* They leave the program, and what is known of its calls, alone.          *)
LEMMA StillCaught ==
  ASSUME Unmoved, AllOn, mistaken # None, mistaken \in Threads,
         at'[mistaken] = at[mistaken], MistakeCaught, counted => counted'
  PROVE  MistakeCaught'
<1>1. /\ enabled' = enabled /\ mistaken' = mistaken /\ overlooked' = overlooked
      /\ status' = status
      /\ mapped' = mapped /\ rec' = rec /\ desc' = desc
  BY DEF Unmoved, programVars
<1>2. CASE counted
  BY <1>2 DEF MistakeCaught
<1>3. CASE ~ counted
  <2> PICK e : e = at[mistaken]
    OBVIOUS
  <2>1. e # Idle /\ ~ Seems(e) /\ HandlesPassed(e)
    BY <1>3 DEF MistakeCaught
  <2>2. at'[mistaken'] = e
    BY <1>1
  <2>3. Seems(at[mistaken])' <=> Seems(e)
    BY <1>1, <2>2 DEF Seems, InOrder, Tested, Alive, Recording, Inside,
                      ArgumentOps, DrawOps,
                      DescOps
  <2>4. HandlesPassed(at[mistaken])' <=> HandlesPassed(e)
    BY <1>1, <2>2 DEF HandlesPassed, Alive
  <2>5. QED BY <2>1, <2>2, <2>3, <2>4 DEF MistakeCaught
<1>4. QED BY <1>2, <1>3

(* A function returns.                                                     *)
LEMMA LeftIInv ==
  ASSUME IInv, NEW t \in Threads, t \notin thrown, Left(t), Unmoved,
         holder' = holder, thrown' = thrown, counted' \in BOOLEAN, counted => counted',
         counted' => counted \/ t = mistaken,
         holder # t \/ at[t].op # "UnregisterTexture",
         tables' \in TablesType, TypeOK', OffIsEmpty',
         ViewsKnown(status, tables'.viewHandles),
         \A x \in Textures : tables'.viewHandles[x] \subseteq tables.viewHandles[x]
                             \/ x \in Uses(at[t]),
         t # mistaken /\ Watched => Effects(at[t], tables, tables'),
         t = mistaken /\ Watched => counted' /\ tables' = tables
  PROVE  IInv'
<1>1. /\ enabled' = enabled /\ mistaken' = mistaken /\ overlooked' = overlooked
      /\ status' = status
      /\ mapped' = mapped /\ rec' = rec /\ desc' = desc
  BY DEF Unmoved, programVars
<1>2. /\ DOMAIN at = Threads /\ at'[t] = Idle /\ Shape(t, at[t]) /\ at[t] # Idle
      /\ \A u \in Threads \ {t} : at'[u] = at[u]
      /\ at' = [at EXCEPT ![t] = Idle]
  BY LeftIs DEF Left
<1>3. Types'
  BY <1>1, <1>2 DEF IInv, Types
<1>4. CallsWellFormed'
  BY <1>1, <1>2 DEF IInv, CallsWellFormed
<1>5. Apart(at')
  <2>1. \A u \in Threads : at'[u] = at[u] \/ at'[u] = Idle
    BY <1>2
  <2>2. Changes(Idle) = {} /\ Uses(Idle) = {}
    BY DEF Changes, Uses
  <2>3. QED BY <2>1, <2>2 DEF IInv, Apart
<1>6. ProgramSane'
  BY <1>1 DEF IInv, ProgramSane, Alive
<1>7. FactsHold(at, mistaken, status, mapped)'
  BY <1>1, <1>2, StillFacts DEF IInv, FactsHold
<1>8. ViewsKnown(status', tables'.viewHandles)
  BY <1>1
<1>9. TablesRight'
  <2>1. CASE ~ Watched
    BY <1>1, <2>1, StillWatched DEF TablesRight
  <2>2. CASE Watched /\ t # mistaken
    BY <2>2, LeftTables
  <2>3. CASE Watched /\ t = mistaken
    <3>1. ASSUME NEW ops PROVE SameDoing(at, mistaken, at', mistaken', ops)
      <4>1. ~ Doing(at, mistaken, t, ops) /\ ~ Doing(at', mistaken', t, ops)
        BY <1>1, <2>3 DEF Doing
      <4>2. QED BY <1>1, <1>2, <4>1, SameButOne
    <3>2. Watched' => Watched
      BY <1>1, StillWatched
    <3>3. QED BY <1>1, <2>3, <3>1, <3>2, TablesSame DEF IInv
  <2>4. QED BY <2>1, <2>2, <2>3
<1>10. MistakeCaught'
  <2> SUFFICES ASSUME AllOn, mistaken # None PROVE MistakeCaught'
    BY <1>1 DEF MistakeCaught, AllOn
  <2>1. mistaken \in Threads /\ MistakeCaught
    BY DEF IInv, Types
  <2>2. CASE mistaken = t
    BY <2>2 DEF MistakeCaught, Watched, AllOn
  <2>3. CASE mistaken # t
    BY <1>2, <2>1, <2>3, StillCaught
  <2>4. QED BY <2>2, <2>3
<1>11. NoFalseReports'
  <2> SUFFICES ASSUME TablesKept, mistaken = None, NEW u \in Threads,
                      holder = u \/ u \in thrown
               PROVE  /\ at'[u].op = "UnregisterTexture"
                      /\ \A v \in tables'.viewHandles[at'[u].obj] : status[v] = "dead"
    BY <1>1 DEF NoFalseReports, TablesKept, ForgottenViews
  <2>1. /\ at[u].op = "UnregisterTexture"
        /\ \A v \in tables.viewHandles[at[u].obj] : status[v] = "dead"
    BY DEF IInv, NoFalseReports, ForgottenViews
  <2>2. u # t
    BY <2>1
  <2>3. at'[u] = at[u] /\ at[u] # Idle
    BY <1>2, <2>1, <2>2 DEF Idle
  <2>4. at[u].obj \in Textures
    <3>1. Shape(u, at[u])
      BY <2>3 DEF IInv, CallsWellFormed
    <3>2. QED
      BY <2>1, <3>1 DEF Shape, ObjectCall, ListCall, BufferOps, ViewOps,
                        PipelineOps,
                        RecordOps, ListOps, DrawOps, SetBufferOps, DescOps
  <2>5. at[u].obj \notin Uses(at[t])
    <3>1. at[u].obj \in Changes(at[u])
      BY <2>1, <2>3 DEF Changes, Destroying
    <3>2. QED BY <2>2, <2>4, <3>1, KindsApart DEF IInv, Apart
  <2>6. tables'.viewHandles[at[u].obj] \subseteq tables.viewHandles[at[u].obj]
    BY <2>4, <2>5
  <2>7. QED BY <2>1, <2>3, <2>6
<1>12. MistakeLimits'
  <2>1. Idle.op \notin Creating
    BY DEF Idle, Creating
  <2>2. mistaken # None => mistaken \in Threads
    BY DEF IInv, Types
  <2>3. QED
    BY <1>1, <1>2, <2>1, <2>2, ValidationAssumption DEF IInv, MistakeLimits
<1>13. QED
  BY <1>3, <1>4, <1>5, <1>6, <1>7, <1>8, <1>9, <1>10, <1>11, <1>12 DEF IInv

(* Or its tables were not to change.                                       *)
LEMMA LeftSame ==
  ASSUME IInv, NEW t \in Threads, t \notin thrown, Left(t), Unmoved,
         holder' = holder, thrown' = thrown, counted' \in BOOLEAN, counted => counted',
         counted' => counted \/ t = mistaken,
         holder # t \/ at[t].op # "UnregisterTexture", tables' = tables,
         t # mistaken /\ Watched => Effects(at[t], tables, tables),
         t = mistaken /\ Watched => counted'
  PROVE  IInv'
<1>1. enabled' = enabled
  BY DEF Unmoved
<1>2. /\ tables' \in TablesType /\ OffIsEmpty'
      /\ ViewsKnown(status, tables'.viewHandles)
  BY <1>1 DEF IInv, Types, OffIsEmpty
<1>3. TypeOK'
  BY <1>1 DEF IInv, TypeOK
<1>4. QED BY <1>2, <1>3, LeftIInv

(* A report keeps the thread; unless the program made a mistake, it has to *)
(* be one about views that are long gone.                                  *)
LEMMA ReportedIInv ==
  ASSUME IInv, NEW t \in Threads, Reported(t),
         TablesKept /\ mistaken = None => ForgottenViews(t)
  PROVE  IInv'
<1>1. /\ enabled' = enabled /\ mistaken' = mistaken /\ overlooked' = overlooked
      /\ status' = status
      /\ mapped' = mapped /\ rec' = rec /\ desc' = desc /\ tables' = tables
      /\ at' = at /\ counted' = counted
  BY DEF Reported, Unmoved, programVars
<1>2. /\ holder' \in {holder, t} /\ thrown' \in {thrown, thrown \cup {t}}
      /\ holder = None
  BY DEF Reported, SelfLock
<1>3. Types' /\ TypeOK'
  BY <1>1, <1>2 DEF IInv, Types, TypeOK
<1>4. CallsWellFormed' /\ Apart(at)' /\ OffIsEmpty' /\ ProgramSane'
      /\ ViewsKnown(status, tables.viewHandles)'
  BY <1>1 DEF IInv, CallsWellFormed, OffIsEmpty, ProgramSane, Alive
<1>5. FactsHold(at, mistaken, status, mapped)'
  BY <1>1, StillFacts DEF IInv
<1>6. TablesRight'
  <2>1. \A ops : SameDoing(at, mistaken, at', mistaken', ops)
    BY <1>1 DEF SameDoing
  <2>2. QED BY <1>1, <2>1, StillWatched, TablesSame DEF IInv
<1>7. MistakeCaught'
  <2> SUFFICES ASSUME AllOn, mistaken # None PROVE MistakeCaught'
    BY <1>1 DEF MistakeCaught, AllOn
  <2>1. Unmoved
    BY DEF Reported
  <2>2. QED BY <1>1, <2>1, StillCaught DEF IInv, Types
<1>8. NoFalseReports'
  <2> SUFFICES ASSUME TablesKept, mistaken = None, NEW u \in Threads,
                      holder' = u \/ u \in thrown'
               PROVE  ForgottenViews(u)
    BY <1>1 DEF NoFalseReports, TablesKept, ForgottenViews
  <2>1. CASE u = t
    BY <2>1
  <2>2. CASE u # t
    BY <1>2, <2>2, ValidationAssumption DEF IInv, NoFalseReports
  <2>3. QED BY <2>1, <2>2
<1>9. MistakeLimits'
  BY <1>1 DEF IInv, MistakeLimits
<1>10. QED
  BY <1>3, <1>4, <1>5, <1>6, <1>7, <1>8, <1>9 DEF IInv

-----------------------------------------------------------------------------
(* Handles.                                                                *)

(* Functions that keep no table.                                           *)
LEMMA NoEffect ==
  ASSUME NEW c, NEW T,
         c.op \in {"ValidateBufferCopy", "ValidateBufferWrite", "ValidateDrawCall",
                   "ValidateDrawIndexed"} \cup Alone \cup DescOps
  PROVE  Effects(c, T, T)
<1>1. c.op \notin Creating \cup Destroying \cup MapOps
  BY DEF Alone, DescOps, Creating, Destroying, MapOps
<1>2. \A i : Recorded(i, c.op) = i \/ c.op \notin RecordOps
  BY DEF Alone, DescOps, Recorded, RecordOps, ListOps, DrawOps, SetBufferOps
<1>3. \A l : ListEffect(c, T.lists, T.lists, l)
  BY <1>2 DEF ListEffect
<1>4. /\ TableEffect(c, T.buffers, T.buffers, "RegisterBuffer", "UnregisterBuffer")
      /\ TableEffect(c, T.textures, T.textures, "RegisterTexture", "UnregisterTexture")
      /\ TableEffect(c, T.views, T.views,
                     "RegisterTextureView", "UnregisterTextureView")
      /\ TableEffect(c, T.pipelines, T.pipelines,
                     "RegisterPipeline", "UnregisterPipeline")
      /\ TableEffect(c, T.registered, T.registered,
                     "RegisterCommandList", "UnregisterCommandList")
  BY <1>1 DEF TableEffect, Creating, Destroying
<1>5. MapEffect(c, T.bufferMapped, T.bufferMapped)
  BY <1>1 DEF MapEffect, MapOps
<1>6. ViewEffect(c, T.viewHandles, T.viewHandles)
  BY <1>1 DEF ViewEffect, Creating
<1>7. QED BY <1>3, <1>4, <1>5, <1>6 DEF Effects

(* A table that is kept tells whether what a call uses is alive, unless    *)
(* the call itself is what the table is about to follow.                   *)
LEMMA TableTells ==
  ASSUME IInv, NEW t \in Threads, at[t] # Idle,
         NEW K, NEW reg, NEW unreg, KindOf(K, reg, unreg), NEW T,
         Kept(at, mistaken, status, K, T, reg, unreg),
         NEW o \in K, o \in Uses(at[t]), ~ Doing(at, mistaken, t, {reg, unreg})
  PROVE  o \in T <=> status[o] = "alive"
<1>1. Apart(at) /\ CallsWellFormed
  BY DEF IInv
<1>2. o # None
  BY ValidationAssumption DEF KindOf
<1>3. ASSUME NEW u \in Threads, Doing(at, mistaken, u, {reg, unreg})
      PROVE  Thing(at[u]) \in Changes(at[u])
  <2>1. Shape(u, at[u]) /\ at[u] # Idle /\ at[u].op \in Creating \cup Destroying
    BY <1>1, <1>3 DEF Doing, CallsWellFormed, KindOf
  <2>2. QED BY <2>1, ThingChanged
<1>4. Settled(at, mistaken, {reg, unreg}, o)
  BY <1>1, <1>2, <1>3 DEF Apart, Settled
<1>5. QED BY <1>4 DEF Kept

(* What is next to be checked.                                             *)
LEMMA NextHandle ==
  ASSUME NEW t, NEW c, Shape(t, c), HandlesLeft(c), c.handles # <<>>
  PROVE  \/ /\ c.op \in Alone \cup SetBufferOps
                        \cup {"ValidateSetPipeline", "ValidateBufferWrite"}
            /\ Head(c.handles) = c.obj /\ Tail(c.handles) = <<>>
         \/ /\ c.op = "ValidateBufferCopy" /\ c.handles = Handles(c)
            /\ Head(c.handles) = c.obj /\ Tail(c.handles) = <<c.dst>>
         \/ /\ c.op = "ValidateBufferCopy" /\ c.handles = <<c.dst>>
            /\ Head(c.handles) = c.dst /\ Tail(c.handles) = <<>>
<1>1. CASE c.handles = Handles(c)
  BY <1>1 DEF Handles, Alone, SetBufferOps
<1>2. CASE c.op = "ValidateBufferCopy" /\ c.handles = <<c.dst>>
  BY <1>2
<1>3. QED BY <1>1, <1>2 DEF HandlesLeft

(* A handle passed, and the function goes on.                              *)
LEMMA PassedOne ==
  ASSUME IInv, NEW t \in Threads, at[t] # Idle, at[t].handles # <<>>,
         at[t].op \notin Alone,
         at' = [at EXCEPT ![t] = [@ EXCEPT !.handles = Tail(at[t].handles)]],
         UNCHANGED <<enabled, holder, thrown, counted, tables, programVars>>,
         mistaken = t /\ AllOn => Alive(Head(at[t].handles))
  PROVE  IInv'
<1> PICK c : c = at[t]
  OBVIOUS
<1> PICK e : e = [c EXCEPT !.handles = Tail(c.handles)]
  OBVIOUS
<1>1. /\ enabled' = enabled /\ mistaken' = mistaken /\ overlooked' = overlooked
      /\ status' = status
      /\ mapped' = mapped /\ rec' = rec /\ desc' = desc /\ tables' = tables
      /\ counted' = counted /\ holder' = holder /\ thrown' = thrown
  BY DEF programVars
<1>2. /\ DOMAIN at = Threads /\ c \in Entries /\ c # Idle
      /\ at' = [at EXCEPT ![t] = e] /\ Shape(t, c) /\ HandlesLeft(c)
      /\ Gate[c.op] \in enabled
  BY DEF IInv, Types, CallsWellFormed
<1>3. /\ at'[t] = e /\ \A u \in Threads \ {t} : at'[u] = at[u]
  BY <1>2
<1>4. /\ e.op = c.op /\ e.list = c.list /\ e.obj = c.obj /\ e.dst = c.dst
      /\ e.ok = c.ok /\ e.args = c.args /\ e.handles = Tail(c.handles)
  BY <1>2 DEF Entries
<1>5. e \in Entries /\ e # Idle
  <2>1. Tail(c.handles) \in Seq(Objects)
    BY <1>2 DEF Entries
  <2>2. e \in Entries
    BY <1>2, <2>1 DEF Entries
  <2>3. e # Idle
    BY <1>2, <1>4, ShapeOps DEF Idle
  <2>4. QED BY <2>2, <2>3
<1>6. Shape(t, e)
  BY <1>2, <1>4 DEF Shape, ObjectCall, ListCall
<1>7. Changes(e) = Changes(c) /\ Uses(e) = Uses(c) /\ Thing(e) = Thing(c)
      /\ Handles(e) = Handles(c)
  BY <1>2, <1>4, <1>5 DEF Changes, Uses, Thing, Handles
<1>8. HandlesLeft(e)
  BY <1>2, <1>4, NextHandle DEF HandlesLeft
<1>9. Types'
  BY <1>1, <1>2, <1>5 DEF IInv, Types
<1>10. TypeOK' /\ OffIsEmpty' /\ ProgramSane' /\ ViewsKnown(status, tables.viewHandles)'
  BY <1>1 DEF IInv, TypeOK, OffIsEmpty, ProgramSane, Alive
<1>11. CallsWellFormed'
  BY <1>1, <1>2, <1>3, <1>4, <1>6, <1>8 DEF IInv, CallsWellFormed
<1>12. Apart(at')
  <2>1. \A u \in Threads : Changes(at'[u]) = Changes(at[u]) /\ Uses(at'[u]) = Uses(at[u])
    BY <1>3, <1>7
  <2>2. QED BY <2>1 DEF IInv, Apart
<1>13. FactsHold(at, mistaken, status, mapped)'
  <2>1. CallFacts(c, status, mapped) => CallFacts(e, status, mapped)
    BY <1>4, <1>7 DEF CallFacts, Tested
  <2>2. QED BY <1>1, <1>2, <1>3, <2>1, StillFacts DEF IInv, FactsHold
<1>14. TablesRight'
  <2>1. ASSUME NEW ops PROVE SameDoing(at, mistaken, at', mistaken', ops)
    BY <1>1, <1>2, <1>3, <1>4, <1>5 DEF SameDoing, Doing
  <2>2. QED BY <1>1, <2>1, StillWatched, TablesSame DEF IInv
<1>15. MistakeCaught'
  <2> SUFFICES ASSUME AllOn, mistaken # None PROVE MistakeCaught'
    BY <1>1 DEF MistakeCaught, AllOn
  <2>1. mistaken \in Threads /\ Unmoved
    BY DEF IInv, Types, Unmoved
  <2>2. CASE mistaken = t /\ ~ counted
    <3>1. ~ Seems(c) /\ HandlesPassed(c) /\ Alive(Head(c.handles))
      BY <2>2 DEF IInv, MistakeCaught
    <3>2. ~ Seems(e)
      BY <1>4, <3>1 DEF Seems, InOrder, Tested, ArgumentOps, DrawOps, DescOps
    <3>3. HandlesPassed(e)
      <4>1. CASE c.op \in Alone \cup SetBufferOps
                          \cup {"ValidateSetPipeline", "ValidateBufferWrite"}
                 /\ Head(c.handles) = c.obj /\ Tail(c.handles) = <<>>
        <5>1. Handles(e) = <<c.obj>>
          BY <1>4, <4>1 DEF Handles, Alone, SetBufferOps
        <5>2. \A i \in 1 .. Len(Handles(e)) : Handles(e)[i] = c.obj
          BY <5>1
        <5>3. e.op \notin Alone /\ e.handles = <<>>
          BY <1>4, <4>1
        <5>4. Alive(c.obj)
          BY <3>1, <4>1
        <5>5. \A i \in 1 .. Len(Handles(e)) : Alive(Handles(e)[i])
          BY <5>2, <5>4
        <5>6. QED BY <5>3, <5>5 DEF HandlesPassed
      <4>2. CASE c.op = "ValidateBufferCopy" /\ c.handles = Handles(c)
                 /\ Head(c.handles) = c.obj /\ Tail(c.handles) = <<c.dst>>
        BY <1>4, <3>1, <4>2 DEF HandlesPassed
      <4>3. CASE c.op = "ValidateBufferCopy" /\ c.handles = <<c.dst>>
                 /\ Head(c.handles) = c.dst /\ Tail(c.handles) = <<>>
        <5>1. Handles(e) = <<c.obj, c.dst>> /\ Handles(c) = <<c.obj, c.dst>>
          BY <1>4, <4>3 DEF Handles
        <5>2. Alive(c.obj)
          BY <3>1, <4>3, <5>1 DEF HandlesPassed
        <5>3. QED BY <1>4, <3>1, <4>3, <5>1, <5>2 DEF HandlesPassed, Alone
      <4>4. QED BY <1>2, <4>1, <4>2, <4>3, NextHandle
    <3>4. Seems(at[mistaken])' <=> Seems(e)
      BY <1>1, <1>3, <2>2 DEF Seems, InOrder, Tested, Alive, Recording, Inside,
                              ArgumentOps, DrawOps, DescOps
    <3>5. HandlesPassed(at[mistaken])' <=> HandlesPassed(e)
      BY <1>1, <1>3, <2>2 DEF HandlesPassed, Alive
    <3>6. QED BY <1>1, <1>3, <1>5, <2>2, <3>2, <3>3, <3>4, <3>5 DEF MistakeCaught
  <2>3. CASE counted
    BY <1>1, <2>3 DEF MistakeCaught
  <2>4. CASE mistaken # t
    BY <1>1, <1>3, <2>1, <2>4, StillCaught DEF IInv
  <2>5. QED BY <2>2, <2>3, <2>4
<1>16. NoFalseReports'
  <2>1. \A u \in Threads : ForgottenViews(u) => ForgottenViews(u)'
    BY <1>1, <1>3, <1>4 DEF ForgottenViews
  <2>2. TablesKept' <=> TablesKept
    BY <1>1 DEF TablesKept
  <2>3. QED BY <1>1, <2>1, <2>2 DEF IInv, NoFalseReports
<1>17. MistakeLimits'
  BY <1>1, <1>2, <1>3, <1>4 DEF IInv, Types, MistakeLimits
<1>18. QED
  BY <1>9, <1>10, <1>11, <1>12, <1>13, <1>14, <1>15, <1>16, <1>17 DEF IInv

(* A handle is checked: op is the function that checks those of kind K,    *)
(* against the table T.                                                    *)
LEMMA HandleIInv ==
  ASSUME IInv, NEW t \in Threads, t \notin thrown, NEW op \in Alone, NEW K, NEW T,
         ValidateHandle(t, op, K, T),
         at[t].op \in Alone /\ Head(at[t].handles) \in K => at[t].op = op,
         Watched /\ "HANDLE" \in enabled =>
           \A o \in K \cap Uses(at[t]) : o \in T <=> status[o] = "alive"
  PROVE  IInv'
<1> PICK c : c = at[t]
  OBVIOUS
<1> PICK h : h = Head(c.handles)
  OBVIOUS
<1>1. /\ c # Idle /\ c.handles # <<>> /\ h \in K
      /\ UNCHANGED <<enabled, counted, tables, programVars>>
  BY DEF ValidateHandle
<1>2. Shape(t, c) /\ HandlesLeft(c) /\ Gate[c.op] \in enabled /\ Types
  BY <1>1 DEF IInv, CallsWellFormed
<1>3. /\ h \in Uses(c)
      /\ c.op \in {"ValidateBufferCopy", "ValidateBufferWrite", "ValidateSetPipeline"}
                  \cup SetBufferOps \cup Alone
      /\ h = c.obj \/ (c.op = "ValidateBufferCopy" /\ h = c.dst)
  BY <1>1, <1>2, NextHandle DEF Uses
<1>4. TablesKept /\ mistaken = None => status[h] = "alive"
  <2> SUFFICES ASSUME mistaken = None PROVE status[h] = "alive"
    OBVIOUS
  <2>1. CallFacts(c, status, mapped)
    BY <1>1, ValidationAssumption DEF IInv, FactsHold
  <2>2. QED BY <1>3, <2>1 DEF CallFacts
<1>5. CASE /\ SelfLock(t) /\ UNCHANGED at /\ "HANDLE" \in enabled
           /\ holder = None /\ h \notin T
  <2>1. Reported(t)
    BY <1>1, <1>5 DEF Reported, Unmoved
  <2>2. ~ (TablesKept /\ mistaken = None)
    BY <1>1, <1>3, <1>4, <1>5 DEF Watched, AllOn
  <2>3. QED BY <2>1, <2>2, ReportedIInv
<1>6. CASE /\ at' = [at EXCEPT ![t] = IF Tail(c.handles) = <<>> /\ c.op = op THEN Idle
                                     ELSE [@ EXCEPT !.handles = Tail(c.handles)]]
           /\ UNCHANGED <<holder, thrown>> /\ ("HANDLE" \in enabled => h \in T)
  <2>1. mistaken = t /\ AllOn => status[h] = "alive"
    <3> SUFFICES ASSUME AllOn PROVE status[h] = "alive"
      OBVIOUS
    <3>1. Watched /\ "HANDLE" \in enabled
      BY DEF Watched, Categories, AllOn
    <3>2. QED BY <1>1, <1>3, <1>6, <3>1
  <2>2. CASE c.op = op
    <3>1. Tail(c.handles) = <<>> /\ h = c.obj
      BY <1>1, <1>2, <2>2, NextHandle DEF Alone, SetBufferOps
    <3>2. at' = [at EXCEPT ![t] = Idle]
      BY <1>6, <2>2, <3>1
    <3>3. Left(t) /\ Unmoved
      BY <1>1, <3>2 DEF Left, Unmoved
    <3>4. Effects(at[t], tables, tables)
      BY <2>2, NoEffect
    <3>5. t = mistaken /\ Watched => counted'
      <4> SUFFICES ASSUME t = mistaken, Watched, ~ counted PROVE FALSE
        BY <1>1
      <4>1. AllOn /\ mistaken # None
        BY ValidationAssumption DEF Watched, AllOn
      <4>2. ~ Seems(c)
        BY <4>1 DEF IInv, MistakeCaught
      <4>3. c.op \notin Creating /\ c.op \in {"ValidateBuffer", "ValidateTexture",
                                             "ValidateTextureView", "ValidatePipeline"}
        BY <2>2 DEF Alone, Creating
      <4>4. QED BY <2>1, <3>1, <4>1, <4>2, <4>3 DEF Seems, InOrder, Tested, Alive,
                                                    ArgumentOps, DrawOps, DescOps
    <3>6. c.op # "UnregisterTexture"
      BY <2>2 DEF Alone
    <3>7. counted' \in BOOLEAN /\ counted' = counted
      BY <1>1, <1>2 DEF Types
    <3>8. QED BY <1>1, <1>6, <3>3, <3>4, <3>5, <3>6, <3>7, LeftSame
  <2>3. CASE c.op # op
    <3>1. c.op \notin Alone
      BY <1>1, <2>3
    <3>2. at' = [at EXCEPT ![t] = [@ EXCEPT !.handles = Tail(at[t].handles)]]
      BY <1>6, <2>3
    <3>3. UNCHANGED <<enabled, holder, thrown, counted, tables, programVars>>
      BY <1>1, <1>6
    <3>4. QED BY <1>1, <2>1, <3>1, <3>2, <3>3, PassedOne DEF Alive
  <2>4. QED BY <2>2, <2>3
<1>7. QED BY <1>5, <1>6 DEF ValidateHandle

(* While handles are checked, all tables of objects are kept; and with     *)
(* everything on, all tables are.                                          *)
LEMMA WatchedTables ==
  ASSUME Watched, "HANDLE" \in enabled \/ AllOn
  PROVE  "RESOURCE" \in enabled /\ "PIPELINE" \in enabled
BY DEF Watched, TablesKept, Categories, AllOn

(* The four functions that check a handle.                                 *)
LEMMA ValidateIInv ==
  ASSUME IInv, NEW t \in Threads, t \notin thrown,
         \/ ValidateBuffer(t) \/ ValidateTexture(t)
         \/ ValidateTextureView(t) \/ ValidatePipeline(t)
  PROVE  IInv'
<1> PICK c : c = at[t]
  OBVIOUS
<1>1. c # Idle /\ c.handles # <<>>
  BY DEF ValidateBuffer, ValidateTexture, ValidateTextureView, ValidatePipeline,
         ValidateHandle
<1>2. Shape(t, c) /\ HandlesLeft(c) /\ TablesRight
  BY <1>1 DEF IInv, CallsWellFormed
<1>3. c.op \in Alone => Head(c.handles) = c.obj
  BY <1>1, <1>2, NextHandle DEF Alone
<1>4. c.op \in Alone =>
        /\ c.op = "ValidateBuffer" => c.obj \in Buffers
        /\ c.op = "ValidateTexture" => c.obj \in Textures
        /\ c.op = "ValidateTextureView" => c.obj \in Views
        /\ c.op = "ValidatePipeline" => c.obj \in Pipelines
  BY <1>2 DEF Alone, Shape, ObjectCall, ListCall, BufferOps, TextureOps, ViewOps,
              PipelineOps, RecordOps, ListOps, DrawOps, SetBufferOps, DescOps
<1>5. ~ Doing(at, mistaken, t, {"RegisterBuffer", "UnregisterBuffer"})
      /\ ~ Doing(at, mistaken, t, {"RegisterTexture", "UnregisterTexture"})
      /\ ~ Doing(at, mistaken, t, {"RegisterTextureView", "UnregisterTextureView"})
      /\ ~ Doing(at, mistaken, t, {"RegisterPipeline", "UnregisterPipeline"})
  BY <1>1, <1>2, NextHandle DEF Doing, Alone, SetBufferOps
<1>6. CASE ValidateBuffer(t)
  <2>1. c.op \in Alone /\ Head(c.handles) \in Buffers => c.op = "ValidateBuffer"
    BY <1>3, <1>4, KindsApart DEF Alone
  <2>2. Watched /\ "HANDLE" \in enabled =>
          \A o \in Buffers \cap Uses(c) : o \in tables.buffers <=> status[o] = "alive"
    BY <1>1, <1>2, <1>5, Kinds, TableTells, WatchedTables DEF TablesRight
  <2>3. QED BY <1>6, <2>1, <2>2, HandleIInv DEF ValidateBuffer, Alone
<1>7. CASE ValidateTexture(t)
  <2>1. c.op \in Alone /\ Head(c.handles) \in Textures => c.op = "ValidateTexture"
    BY <1>3, <1>4, KindsApart DEF Alone
  <2>2. Watched /\ "HANDLE" \in enabled =>
          \A o \in Textures \cap Uses(c) : o \in tables.textures <=> status[o] = "alive"
    BY <1>1, <1>2, <1>5, Kinds, TableTells, WatchedTables DEF TablesRight
  <2>3. QED BY <1>7, <2>1, <2>2, HandleIInv DEF ValidateTexture, Alone
<1>8. CASE ValidateTextureView(t)
  <2>1. c.op \in Alone /\ Head(c.handles) \in Views => c.op = "ValidateTextureView"
    BY <1>3, <1>4, KindsApart DEF Alone
  <2>2. Watched /\ "HANDLE" \in enabled =>
          \A o \in Views \cap Uses(c) : o \in tables.views <=> status[o] = "alive"
    BY <1>1, <1>2, <1>5, Kinds, TableTells, WatchedTables DEF TablesRight
  <2>3. QED BY <1>8, <2>1, <2>2, HandleIInv DEF ValidateTextureView, Alone
<1>9. CASE ValidatePipeline(t)
  <2>1. c.op \in Alone /\ Head(c.handles) \in Pipelines => c.op = "ValidatePipeline"
    BY <1>3, <1>4, KindsApart DEF Alone
  <2>2. Watched /\ "HANDLE" \in enabled =>
          \A o \in Pipelines \cap Uses(c) :
            o \in tables.pipelines <=> status[o] = "alive"
    BY <1>1, <1>2, <1>5, Kinds, TableTells, WatchedTables DEF TablesRight
  <2>3. QED BY <1>9, <2>1, <2>2, HandleIInv DEF ValidatePipeline, Alone
<1>10. QED BY <1>6, <1>7, <1>8, <1>9

(* Functions that look at a description report and return.                 *)
LEMMA UnlockedIInv ==
  ASSUME IInv, NEW t \in Threads, t \notin thrown, NEW op \in DescOps, Unlocked(t, op)
  PROVE  IInv'
<1> PICK c : c = at[t]
  OBVIOUS
<1>1. c.op = op /\ op # "none" /\ op # "UnregisterTexture" /\ op \notin Creating
  BY DEF Unlocked, DescOps, Creating
<1>2. c # Idle
  BY <1>1 DEF Idle
<1>3. Left(t) /\ Unmoved /\ holder' = holder /\ thrown' = thrown /\ tables' = tables
  BY <1>2 DEF Unlocked, Left, Unmoved
<1>4. counted' \in BOOLEAN /\ (counted => counted') /\ (~ c.ok => counted')
  <2>1. c.ok \in BOOLEAN /\ counted \in BOOLEAN
    BY <1>2 DEF IInv, Types, Entries
  <2>2. QED BY <2>1 DEF Unlocked
<1>5. Effects(c, tables, tables)
  BY <1>1, NoEffect
<1>6. t = mistaken /\ Watched => counted'
  <2> SUFFICES ASSUME t = mistaken, Watched, ~ counted PROVE counted'
    BY <1>4
  <2>1. AllOn /\ mistaken # None
    BY ValidationAssumption DEF Watched, AllOn
  <2>2. ~ Seems(c)
    BY <2>1 DEF IInv, MistakeCaught
  <2>3. ~ c.ok
    BY <1>1, <2>2 DEF Seems, InOrder, Tested, ArgumentOps, DrawOps, DescOps
  <2>4. QED BY <1>4, <2>3
<1>7. counted' => counted \/ t = mistaken
  <2> SUFFICES ASSUME t # mistaken PROVE counted' = counted
    OBVIOUS
  <2>1. CallFacts(c, status, mapped)
    BY <1>2 DEF IInv, FactsHold
  <2>2. c.ok
    BY <1>1, <2>1 DEF CallFacts, Tested
  <2>3. QED BY <2>2 DEF Unlocked, IInv, Types
<1>8. QED BY <1>1, <1>3, <1>4, <1>5, <1>6, <1>7, LeftSame

-----------------------------------------------------------------------------
(* The functions that take the mutex.                                      *)

(* What is true of the tables whatever the program does.                   *)
SoundInfo(i) ==
  /\ ~ (i.inPass /\ i.inRendering)
  /\ {"RENDER_PASS", "COMMAND_LIST"} \subseteq enabled =>
       (i.inPass \/ i.inRendering => i.state = "RECORDING")

SoundTables(T) ==
  /\ T \in TablesType /\ T.bufferMapped \subseteq T.buffers
  /\ \A l \in Lists : SoundInfo(T.lists[l])
  /\ "RESOURCE" \notin enabled => T.buffers = {} /\ T.textures = {} /\ T.views = {}
  /\ "MEMORY" \notin enabled => T.bufferMapped = {}
  /\ "PIPELINE" \notin enabled => T.pipelines = {}
  /\ "COMMAND_LIST" \notin enabled => T.registered = {}
  /\ ViewsKnown(status, T.viewHandles)

(* The tables are sound,                                                   *)
LEMMA TablesSound ==
  ASSUME IInv
  PROVE  SoundTables(tables)
BY DEF IInv, Types, TypeOK, OffIsEmpty, SoundTables, SoundInfo

(* and stay so with what replaces them.                                    *)
LEMMA StillSound ==
  ASSUME enabled' = enabled, holder' = holder, IInv, SoundTables(tables')
  PROVE  tables' \in TablesType /\ TypeOK' /\ OffIsEmpty'
         /\ ViewsKnown(status, tables'.viewHandles)
<1>1. tables' \in TablesType /\ ViewsKnown(status, tables'.viewHandles)
  BY DEF SoundTables
<1>2. OffIsEmpty'
  BY DEF SoundTables, OffIsEmpty
<1>3. TypeOK'
  <2>1. holder' \in Threads \cup {None}
    BY DEF IInv, Types
  <2>2. /\ tables'.bufferMapped \subseteq tables'.buffers
        /\ tables'.registered \subseteq Lists
        /\ \A x \in Textures : tables'.viewHandles[x] \subseteq Views
    BY DEF SoundTables, TablesType
  <2>3. ASSUME NEW l \in Lists
        PROVE  /\ tables'.lists[l].state \in
                    {"INITIAL", "RECORDING", "EXECUTABLE", "SUBMITTED"}
               /\ SoundInfo(tables'.lists[l])
    BY DEF SoundTables, TablesType, InfoType, States
  <2>4. QED BY <2>1, <2>2, <2>3 DEF TypeOK, SoundInfo
<1>4. QED BY <1>1, <1>2, <1>3

(* The handles a function was called with were those of live objects.      *)
LEMMA HandlesWere ==
  ASSUME NEW c, c.handles = <<>>, HandlesPassed(c)
  PROVE  \A i \in 1 .. Len(Handles(c)) : Alive(Handles(c)[i])
BY DEF HandlesPassed

(* What is to be known of the checks of a function.                        *)
SomeReport(checks) ==
  \E x \in Among(checks) :
    x # Passed /\ x.category \in enabled /\ (checks[1].stops => x = checks[1])

SomeStop(checks) == \E x \in Among(checks) : x # Passed /\ x.stops

NoneSeen(checks) == \A x \in Among(checks) : x.category \notin enabled /\ ~ x.stops

AllPassed(checks) == \A x \in Among(checks) : x = Passed

(* A function whose checks tell what they should keeps the invariant.      *)
LEMMA LockedIInv ==
  ASSUME IInv, NEW t \in Threads, t \notin thrown, NEW op, op # "none",
         NEW checks \in Seq(CheckType), NEW updated, Locked(t, op, checks, updated),
         NoneSeen(checks) =>
           /\ SoundTables(updated)
           /\ \A x \in Textures : updated.viewHandles[x] \subseteq tables.viewHandles[x]
                                  \/ x \in Uses(at[t]),
         TablesKept /\ mistaken = None /\ SomeReport(checks) => ForgottenViews(t),
         Watched /\ t # mistaken /\ SomeStop(checks) => Effects(at[t], tables, tables),
         Watched /\ t # mistaken /\ NoneSeen(checks) => Effects(at[t], tables, updated),
         AllOn /\ t = mistaken /\ AllPassed(checks)
           /\ HandlesPassed(at[t]) => Seems(at[t])
  PROVE  IInv'
<1> PICK c : c = at[t]
  OBVIOUS
<1>1. /\ c.op = op /\ c.handles = <<>> /\ holder = None /\ c # Idle
      /\ LockedReport(t, checks) \/ LockedStop(t, checks)
         \/ LockedUpdate(t, checks, updated)
  BY LockedCases DEF IInv, Idle
<1>2. holder # t
  BY <1>1, ValidationAssumption
<1>3. counted \in BOOLEAN
  BY DEF IInv, Types
<1>4. CASE LockedReport(t, checks)
  BY <1>4, ReportedIInv DEF LockedReport, SomeReport
<1>5. CASE LockedStop(t, checks)
  <2>1. /\ Left(t) /\ Unmoved /\ holder' = holder /\ thrown' = thrown
        /\ counted' = counted /\ tables' = tables /\ ~ AllOn
    BY <1>1, <1>5 DEF LockedStop, Returned, Left
  <2>2. SomeStop(checks)
    BY <1>5 DEF LockedStop, SomeStop
  <2>3. t = mistaken => ~ Watched
    BY <2>1, ValidationAssumption DEF Watched, AllOn
  <2>4. QED BY <1>2, <1>3, <2>1, <2>2, <2>3, LeftSame
<1>6. CASE LockedUpdate(t, checks, updated)
  <2>1. /\ Left(t) /\ Unmoved /\ holder' = holder /\ thrown' = thrown
        /\ counted' = counted /\ tables' = updated
    BY <1>1, <1>6 DEF LockedUpdate, Returned, Left
  <2>2. NoneSeen(checks) /\ (AllOn => AllPassed(checks))
    BY <1>6 DEF LockedUpdate, NoneSeen, AllPassed
  <2>3. enabled' = enabled
    BY <2>1 DEF Unmoved
  <2>4. tables' \in TablesType /\ TypeOK' /\ OffIsEmpty'
        /\ ViewsKnown(status, tables'.viewHandles)
    BY <2>1, <2>2, <2>3, StillSound
  <2>5. CASE ~ (t = mistaken /\ Watched)
    <3>1. t # mistaken /\ Watched => Effects(at[t], tables, tables')
      BY <2>1, <2>2
    <3>2. \A x \in Textures : tables'.viewHandles[x] \subseteq tables.viewHandles[x]
                              \/ x \in Uses(at[t])
      BY <2>1, <2>2
    <3>3. QED BY <1>2, <1>3, <2>1, <2>4, <2>5, <3>1, <3>2, LeftIInv
  <2>6. CASE t = mistaken /\ Watched
    <3>1. AllOn /\ mistaken # None
      BY <2>6, ValidationAssumption DEF Watched, AllOn
    <3>2. ~ counted
      BY <1>1, <2>6 DEF IInv, MistakeLimits
    <3>3. ~ Seems(c) /\ HandlesPassed(c)
      BY <2>6, <3>1, <3>2 DEF IInv, MistakeCaught
    <3>4. QED BY <2>2, <2>6, <3>1, <3>3
  <2>7. QED BY <2>5, <2>6
<1>7. QED BY <1>1, <1>4, <1>5, <1>6

-----------------------------------------------------------------------------
(* The checks of a function, listed.                                       *)
LEMMA Tuple0 ==
  <<>> \in Seq(CheckType) /\ Among(<<>>) = {}
BY DEF Among

(* One check.                                                              *)
LEMMA Tuple1 ==
  ASSUME NEW k1 \in CheckType
  PROVE  /\ <<k1>> \in Seq(CheckType)
         /\ Among(<<k1>>) = {k1}
         /\ <<k1>>[1] = k1
<1>1. /\ Len(<<k1>>) = 1 /\ 1 .. 1 = {1}
      /\ <<k1>>[1] = k1
  OBVIOUS
<1>2. <<k1>> \in Seq(CheckType)
  OBVIOUS
<1>3. QED BY <1>1, <1>2 DEF Among

(* Two.                                                                    *)
LEMMA Tuple2 ==
  ASSUME NEW k1 \in CheckType, NEW k2 \in CheckType
  PROVE  /\ <<k1, k2>> \in Seq(CheckType)
         /\ Among(<<k1, k2>>) = {k1, k2}
         /\ <<k1, k2>>[1] = k1
<1>1. /\ Len(<<k1, k2>>) = 2 /\ 1 .. 2 = {1, 2}
      /\ <<k1, k2>>[1] = k1
      /\ <<k1, k2>>[2] = k2
  OBVIOUS
<1>2. <<k1, k2>> \in Seq(CheckType)
  OBVIOUS
<1>3. QED BY <1>1, <1>2 DEF Among

(* Three.                                                                  *)
LEMMA Tuple3 ==
  ASSUME NEW k1 \in CheckType, NEW k2 \in CheckType, NEW k3 \in CheckType
  PROVE  /\ <<k1, k2, k3>> \in Seq(CheckType)
         /\ Among(<<k1, k2, k3>>) = {k1, k2, k3}
         /\ <<k1, k2, k3>>[1] = k1
<1>1. /\ Len(<<k1, k2, k3>>) = 3 /\ 1 .. 3 = {1, 2, 3}
      /\ <<k1, k2, k3>>[1] = k1
      /\ <<k1, k2, k3>>[2] = k2
      /\ <<k1, k2, k3>>[3] = k3
  OBVIOUS
<1>2. <<k1, k2, k3>> \in Seq(CheckType)
  OBVIOUS
<1>3. QED BY <1>1, <1>2 DEF Among

(* Four.                                                                   *)
LEMMA Tuple4 ==
  ASSUME NEW k1 \in CheckType, NEW k2 \in CheckType, NEW k3 \in CheckType,
         NEW k4 \in CheckType
  PROVE  /\ <<k1, k2, k3, k4>> \in Seq(CheckType)
         /\ Among(<<k1, k2, k3, k4>>) = {k1, k2, k3, k4}
         /\ <<k1, k2, k3, k4>>[1] = k1
<1>1. /\ Len(<<k1, k2, k3, k4>>) = 4 /\ 1 .. 4 = {1, 2, 3, 4}
      /\ <<k1, k2, k3, k4>>[1] = k1
      /\ <<k1, k2, k3, k4>>[2] = k2
      /\ <<k1, k2, k3, k4>>[3] = k3
      /\ <<k1, k2, k3, k4>>[4] = k4
  OBVIOUS
<1>2. <<k1, k2, k3, k4>> \in Seq(CheckType)
  OBVIOUS
<1>3. QED BY <1>1, <1>2 DEF Among

(* Five.                                                                   *)
LEMMA Tuple5 ==
  ASSUME NEW k1, NEW k2, NEW k3, NEW k4, NEW k5
  PROVE  /\ Among(<<k1, k2, k3, k4, k5>>) = {k1, k2, k3, k4, k5}
         /\ <<k1, k2, k3, k4, k5>>[1] = k1
<1>1. /\ Len(<<k1, k2, k3, k4, k5>>) = 5 /\ 1 .. 5 = {1, 2, 3, 4, 5}
      /\ <<k1, k2, k3, k4, k5>>[1] = k1
      /\ <<k1, k2, k3, k4, k5>>[2] = k2
      /\ <<k1, k2, k3, k4, k5>>[3] = k3
      /\ <<k1, k2, k3, k4, k5>>[4] = k4
      /\ <<k1, k2, k3, k4, k5>>[5] = k5
  OBVIOUS
<1>2. QED BY <1>1 DEF Among

(* Six.                                                                    *)
LEMMA Tuple6 ==
  ASSUME NEW k1, NEW k2, NEW k3, NEW k4, NEW k5, NEW k6
  PROVE  /\ Among(<<k1, k2, k3, k4, k5, k6>>) = {k1, k2, k3, k4, k5, k6}
         /\ <<k1, k2, k3, k4, k5, k6>>[1] = k1
<1>1. /\ Len(<<k1, k2, k3, k4, k5, k6>>) = 6 /\ 1 .. 6 = {1, 2, 3, 4, 5, 6}
      /\ <<k1, k2, k3, k4, k5, k6>>[1] = k1
      /\ <<k1, k2, k3, k4, k5, k6>>[2] = k2
      /\ <<k1, k2, k3, k4, k5, k6>>[3] = k3
      /\ <<k1, k2, k3, k4, k5, k6>>[4] = k4
      /\ <<k1, k2, k3, k4, k5, k6>>[5] = k5
      /\ <<k1, k2, k3, k4, k5, k6>>[6] = k6
  OBVIOUS
<1>2. QED BY <1>1 DEF Among

(* Seven.                                                                  *)
LEMMA Tuple7 ==
  ASSUME NEW k1, NEW k2, NEW k3, NEW k4, NEW k5, NEW k6, NEW k7
  PROVE  /\ Among(<<k1, k2, k3, k4, k5, k6, k7>>) = {k1, k2, k3, k4, k5, k6, k7}
         /\ <<k1, k2, k3, k4, k5, k6, k7>>[1] = k1
<1>1. /\ Len(<<k1, k2, k3, k4, k5, k6, k7>>) = 7 /\ 1 .. 7 = {1, 2, 3, 4, 5, 6, 7}
      /\ <<k1, k2, k3, k4, k5, k6, k7>>[1] = k1
      /\ <<k1, k2, k3, k4, k5, k6, k7>>[2] = k2
      /\ <<k1, k2, k3, k4, k5, k6, k7>>[3] = k3
      /\ <<k1, k2, k3, k4, k5, k6, k7>>[4] = k4
      /\ <<k1, k2, k3, k4, k5, k6, k7>>[5] = k5
      /\ <<k1, k2, k3, k4, k5, k6, k7>>[6] = k6
      /\ <<k1, k2, k3, k4, k5, k6, k7>>[7] = k7
  OBVIOUS
<1>2. QED BY <1>1 DEF Among

(* What the tables tell of the objects of a call.                          *)
LEMMA BufferTells ==
  ASSUME IInv, NEW t \in Threads, at[t] # Idle, Watched, "RESOURCE" \in enabled,
         NEW b \in Buffers, b \in Uses(at[t]),
         t = mistaken \/ at[t].op \notin {"RegisterBuffer", "UnregisterBuffer"}
  PROVE  b \in tables.buffers <=> status[b] = "alive"
<1>1. Kept(at, mistaken, status, Buffers, tables.buffers,
           "RegisterBuffer", "UnregisterBuffer")
  BY DEF IInv, TablesRight
<1>2. ~ Doing(at, mistaken, t, {"RegisterBuffer", "UnregisterBuffer"})
  BY DEF Doing
<1>3. QED BY <1>1, <1>2, Kinds, TableTells

(* The calls about buffers name them.                                      *)
LEMMA BufferShape ==
  ASSUME NEW t, NEW c, Shape(t, c), c # Idle,
         c.op \in BufferOps \cup SetBufferOps
                  \cup {"RegisterBuffer", "ValidateBufferCopy", "ValidateBufferWrite"}
  PROVE  c.obj \in Buffers /\ c.obj \in Uses(c) /\ Thing(c) = c.obj
         /\ (c.op = "ValidateBufferCopy" => c.dst \in Buffers /\ c.dst \in Uses(c))
<1>1. c.obj \in Buffers /\ (c.op = "ValidateBufferCopy" => c.dst \in Buffers)
  BY DEF Shape, ObjectCall, ListCall, BufferOps, TextureOps, ViewOps, PipelineOps,
         RecordOps, ListOps, DrawOps, SetBufferOps, DescOps
<1>2. QED BY <1>1, KindsApart DEF Uses, Thing

(* The buffers of a call that follows the rules are known.                 *)
LEMMA BufferKnown ==
  ASSUME IInv, NEW t \in Threads, at[t] # Idle, t # mistaken, Watched,
         "RESOURCE" \in enabled,
         at[t].op \in {"UnregisterBuffer", "OnBufferMap", "OnBufferUnmap",
                       "ValidateBufferCopy", "ValidateBufferWrite"} \cup SetBufferOps
  PROVE  at[t].obj \in tables.buffers
         /\ (at[t].op = "ValidateBufferCopy" => at[t].dst \in tables.buffers)
<1> PICK c : c = at[t]
  OBVIOUS
<1>1. Shape(t, c) /\ CallFacts(c, status, mapped)
  BY DEF IInv, CallsWellFormed, FactsHold
<1>2. c.obj \in Buffers /\ c.obj \in Uses(c) /\ Thing(c) = c.obj
      /\ (c.op = "ValidateBufferCopy" => c.dst \in Buffers /\ c.dst \in Uses(c))
  BY <1>1, BufferShape DEF BufferOps
<1>3. CASE c.op = "UnregisterBuffer"
  <2>1. Kept(at, mistaken, status, Buffers, tables.buffers,
             "RegisterBuffer", "UnregisterBuffer")
    BY DEF IInv, TablesRight
  <2>2. Thing(c) \in tables.buffers
    BY <1>3, <2>1 DEF Kept, Doing
  <2>3. QED BY <1>2, <1>3, <2>2
<1>4. CASE c.op # "UnregisterBuffer"
  <2>1. c.op # "RegisterBuffer"
    BY DEF SetBufferOps
  <2>2. status[c.obj] = "alive" /\ (c.op = "ValidateBufferCopy" => status[c.dst] = "alive")
    BY <1>1, <1>4 DEF CallFacts
  <2>3. QED BY <1>2, <1>4, <2>1, <2>2, BufferTells
<1>5. QED BY <1>3, <1>4

(* A mistaken call finds the truth about mapping.                          *)
LEMMA MapTells ==
  ASSUME IInv, NEW t \in Threads, at[t] # Idle, t = mistaken, Watched,
         {"RESOURCE", "MEMORY"} \subseteq enabled, NEW b \in Buffers, b \in Uses(at[t])
  PROVE  b \in tables.bufferMapped <=> b \in mapped
<1>1. MapsKept(at, mistaken, mapped, tables.bufferMapped)
  BY DEF IInv, TablesRight
<1>2. Settled(at, mistaken, MapOps, b)
  <2> SUFFICES ASSUME NEW u \in Threads, Doing(at, mistaken, u, MapOps),
                      Thing(at[u]) = b
               PROVE  FALSE
    BY DEF Settled
  <2>1. u # t /\ at[u] # Idle /\ at[u].op \in MapOps
    BY DEF Doing
  <2>2. Shape(u, at[u])
    BY <2>1 DEF IInv, CallsWellFormed
  <2>3. b \in Changes(at[u])
    BY <2>1, <2>2, ThingChanged
  <2>4. QED BY <2>1, <2>3, KindsApart DEF IInv, Apart
<1>3. QED BY <1>1, <1>2 DEF MapsKept

(* Silent returns that cost nothing: the table the function updates is one *)
(* of those that are not kept.                                             *)
LEMMA NoEffectOff ==
  ASSUME NEW c, NEW T,
         \/ c.op \in {"OnBufferMap", "OnBufferUnmap"} /\ "RESOURCE" \notin enabled
         \/ /\ c.op \in RecordOps \ {"RegisterCommandList", "UnregisterCommandList"}
            /\ "COMMAND_LIST" \notin enabled
  PROVE  Effects(c, T, T)
<1>1. c.op \notin Creating \cup Destroying
  BY DEF RecordOps, ListOps, DrawOps, SetBufferOps, Creating, Destroying
<1>2. /\ TableEffect(c, T.buffers, T.buffers, "RegisterBuffer", "UnregisterBuffer")
      /\ TableEffect(c, T.textures, T.textures, "RegisterTexture", "UnregisterTexture")
      /\ TableEffect(c, T.views, T.views,
                     "RegisterTextureView", "UnregisterTextureView")
      /\ TableEffect(c, T.pipelines, T.pipelines,
                     "RegisterPipeline", "UnregisterPipeline")
      /\ TableEffect(c, T.registered, T.registered,
                     "RegisterCommandList", "UnregisterCommandList")
      /\ ViewEffect(c, T.viewHandles, T.viewHandles)
  BY <1>1 DEF TableEffect, ViewEffect, Creating, Destroying
<1>3. "COMMAND_LIST" \in enabled => \A l : ListEffect(c, T.lists, T.lists, l)
  BY DEF ListEffect, RecordOps, ListOps, DrawOps, SetBufferOps
<1>4. {"RESOURCE", "MEMORY"} \subseteq enabled =>
        MapEffect(c, T.bufferMapped, T.bufferMapped)
  BY DEF MapEffect, MapOps, RecordOps, ListOps, DrawOps, SetBufferOps
<1>5. QED BY <1>2, <1>3, <1>4 DEF Effects

-----------------------------------------------------------------------------
(* The functions of buffers.                                               *)
(* A buffer is mapped that is known, unmapped and not the GPU's alone.     *)
LEMMA OnBufferMapIInv ==
  ASSUME IInv, NEW t \in Threads, t \notin thrown, OnBufferMap(t)
  PROVE  IInv'
<1> PICK c : c = at[t]
  OBVIOUS
<1> PICK b : b = c.obj
  OBVIOUS
<1>k1. PICK k1 : k1 = Check(b \notin tables.buffers, "HANDLE", TRUE)
  OBVIOUS
<1>k2. PICK k2 : k2 = Check(b \in tables.bufferMapped, "MEMORY", TRUE)
  OBVIOUS
<1>k3. PICK k3 : k3 = Check(desc[b].gpuOnly, "MEMORY", TRUE)
  OBVIOUS
<1>up. PICK upd : upd = [tables EXCEPT !.bufferMapped = @ \cup {b}]
  OBVIOUS
<1>1. Locked(t, "OnBufferMap", <<k1, k2, k3>>, upd)
  BY <1>k1, <1>k2, <1>k3, <1>up DEF OnBufferMap
<1>2. c.op = "OnBufferMap" /\ c # Idle
  BY <1>1 DEF Locked, Idle
<1>3. /\ Shape(t, c) /\ b \in Buffers /\ b \in Uses(c) /\ tables \in TablesType
      /\ "MEMORY" \in enabled /\ SoundTables(tables)
  BY <1>2, BufferShape, GateIs, TablesSound
     DEF IInv, CallsWellFormed, Types, BufferOps
<1>4. /\ k1 \in CheckType /\ (k1 # Passed <=> b \notin tables.buffers)
      /\ k1 # Passed => k1.category = "HANDLE" /\ k1.stops
  BY <1>k1 DEF Check, CheckType, Passed, Categories
<1>5. /\ k2 \in CheckType /\ (k2 # Passed <=> b \in tables.bufferMapped)
      /\ k2 # Passed => k2.category = "MEMORY" /\ k2.stops
  BY <1>k2 DEF Check, CheckType, Passed, Categories
<1>6. /\ k3 \in CheckType /\ (k3 # Passed <=> desc[b].gpuOnly)
      /\ k3 # Passed => k3.category = "MEMORY" /\ k3.stops
  BY <1>k3 DEF Check, CheckType, Passed, Categories
<1>7. /\ <<k1, k2, k3>> \in Seq(CheckType) /\ Among(<<k1, k2, k3>>) = {k1, k2, k3}
      /\ <<k1, k2, k3>>[1] = k1
  BY <1>4, <1>5, <1>6, Tuple3
<1>8. /\ upd.buffers = tables.buffers /\ upd.textures = tables.textures
      /\ upd.views = tables.views /\ upd.viewHandles = tables.viewHandles
      /\ upd.pipelines = tables.pipelines /\ upd.registered = tables.registered
      /\ upd.lists = tables.lists /\ upd \in TablesType
      /\ upd.bufferMapped = tables.bufferMapped \cup {b}
  BY <1>3, <1>up DEF TablesType
<1>9. NoneSeen(<<k1, k2, k3>>) => SoundTables(upd)
  BY <1>3, <1>4, <1>7, <1>8 DEF NoneSeen, SoundTables
<1>10. Watched /\ t # mistaken /\ "RESOURCE" \in enabled =>
         k1 = Passed /\ k2 = Passed /\ k3 = Passed
  <2> SUFFICES ASSUME Watched, t # mistaken, "RESOURCE" \in enabled
               PROVE  k1 = Passed /\ k2 = Passed /\ k3 = Passed
    OBVIOUS
  <2>1. b \in tables.buffers
    BY <1>2, BufferKnown
  <2>2. b \notin tables.bufferMapped
    BY <1>2, <1>3 DEF IInv, TablesRight, MapsKept, Doing
  <2>3. ~ desc[b].gpuOnly
    BY <1>2 DEF IInv, FactsHold, CallFacts
  <2>4. QED BY <1>4, <1>5, <1>6, <2>1, <2>2, <2>3
<1>11. Watched /\ t # mistaken => ~ SomeReport(<<k1, k2, k3>>)
  <2>1. "RESOURCE" \notin enabled /\ Watched => "HANDLE" \notin enabled
    BY DEF Watched, TablesKept, Categories, AllOn
  <2>2. "RESOURCE" \notin enabled => k1 # Passed
    BY <1>3, <1>4 DEF SoundTables
  <2>3. QED BY <1>4, <1>7, <1>10, <2>1, <2>2 DEF SomeReport
<1>12. Watched /\ t # mistaken /\ SomeStop(<<k1, k2, k3>>) => Effects(c, tables, tables)
  BY <1>2, <1>7, <1>10, NoEffectOff DEF SomeStop
<1>13. Effects(c, tables, upd)
  BY <1>2, <1>8
     DEF Effects, TableEffect, ViewEffect, ListEffect, MapEffect, RecordOps,
         ListOps, DrawOps,
         SetBufferOps, MapOps
<1>14. AllOn /\ t = mistaken /\ AllPassed(<<k1, k2, k3>>) => Seems(c)
  <2> SUFFICES ASSUME AllOn, t = mistaken, k1 = Passed, k2 = Passed,
                      k3 = Passed
               PROVE  Seems(c)
    BY <1>7 DEF AllPassed
  <2>1. Watched /\ {"RESOURCE", "MEMORY"} \subseteq enabled
    BY DEF Watched, Categories, AllOn
  <2>2. status[b] = "alive"
    BY <1>2, <1>3, <1>4, <2>1, BufferTells
  <2>3. b \notin mapped
    BY <1>2, <1>3, <1>5, <2>1, MapTells
  <2>4. QED BY <1>2, <1>6, <2>2, <2>3 DEF Seems, InOrder, Tested, Alive,
                                          ArgumentOps, DrawOps,
                                          DescOps
<1>15. TablesKept /\ mistaken = None => Watched /\ t # mistaken
  BY ValidationAssumption DEF Watched, AllOn
<1>16. QED
  BY <1>1, <1>7, <1>8, <1>9, <1>11, <1>12, <1>13, <1>14, <1>15, LockedIInv

(* It is unmapped while it is mapped.                                      *)
LEMMA OnBufferUnmapIInv ==
  ASSUME IInv, NEW t \in Threads, t \notin thrown, OnBufferUnmap(t)
  PROVE  IInv'
<1> PICK c : c = at[t]
  OBVIOUS
<1> PICK b : b = c.obj
  OBVIOUS
<1>k1. PICK k1 : k1 = Check(b \notin tables.buffers, "HANDLE", TRUE)
  OBVIOUS
<1>k2. PICK k2 : k2 = Check(b \notin tables.bufferMapped, "MEMORY", TRUE)
  OBVIOUS
<1>up. PICK upd : upd = [tables EXCEPT !.bufferMapped = @ \ {b}]
  OBVIOUS
<1>1. Locked(t, "OnBufferUnmap", <<k1, k2>>, upd)
  BY <1>k1, <1>k2, <1>up DEF OnBufferUnmap
<1>2. c.op = "OnBufferUnmap" /\ c # Idle
  BY <1>1 DEF Locked, Idle
<1>3. /\ Shape(t, c) /\ b \in Buffers /\ b \in Uses(c) /\ tables \in TablesType
      /\ "MEMORY" \in enabled /\ SoundTables(tables)
  BY <1>2, BufferShape, GateIs, TablesSound
     DEF IInv, CallsWellFormed, Types, BufferOps
<1>4. /\ k1 \in CheckType /\ (k1 # Passed <=> b \notin tables.buffers)
      /\ k1 # Passed => k1.category = "HANDLE" /\ k1.stops
  BY <1>k1 DEF Check, CheckType, Passed, Categories
<1>5. /\ k2 \in CheckType /\ (k2 # Passed <=> b \notin tables.bufferMapped)
      /\ k2 # Passed => k2.category = "MEMORY" /\ k2.stops
  BY <1>k2 DEF Check, CheckType, Passed, Categories
<1>6. /\ <<k1, k2>> \in Seq(CheckType) /\ Among(<<k1, k2>>) = {k1, k2}
      /\ <<k1, k2>>[1] = k1
  BY <1>4, <1>5, Tuple2
<1>7. /\ upd.buffers = tables.buffers /\ upd.textures = tables.textures
      /\ upd.views = tables.views /\ upd.viewHandles = tables.viewHandles
      /\ upd.pipelines = tables.pipelines /\ upd.registered = tables.registered
      /\ upd.lists = tables.lists /\ upd \in TablesType
      /\ upd.bufferMapped = tables.bufferMapped \ {b}
  BY <1>3, <1>up DEF TablesType
<1>8. SoundTables(upd)
  BY <1>3, <1>7 DEF SoundTables
<1>9. Watched /\ t # mistaken /\ "RESOURCE" \in enabled => k1 = Passed /\ k2 = Passed
  <2> SUFFICES ASSUME Watched, t # mistaken, "RESOURCE" \in enabled
               PROVE  k1 = Passed /\ k2 = Passed
    OBVIOUS
  <2>1. b \in tables.buffers
    BY <1>2, BufferKnown
  <2>2. b \in tables.bufferMapped
    BY <1>2, <1>3 DEF IInv, TablesRight, MapsKept, Doing
  <2>3. QED BY <1>4, <1>5, <2>1, <2>2
<1>10. Watched /\ t # mistaken => ~ SomeReport(<<k1, k2>>)
  <2>1. "RESOURCE" \notin enabled /\ Watched => "HANDLE" \notin enabled
    BY DEF Watched, TablesKept, Categories, AllOn
  <2>2. "RESOURCE" \notin enabled => k1 # Passed
    BY <1>3, <1>4 DEF SoundTables
  <2>3. QED BY <1>4, <1>6, <1>9, <2>1, <2>2 DEF SomeReport
<1>11. Watched /\ t # mistaken /\ SomeStop(<<k1, k2>>) => Effects(c, tables, tables)
  BY <1>2, <1>6, <1>9, NoEffectOff DEF SomeStop
<1>12. Effects(c, tables, upd)
  BY <1>2, <1>7
     DEF Effects, TableEffect, ViewEffect, ListEffect, MapEffect, RecordOps,
         ListOps, DrawOps,
         SetBufferOps, MapOps
<1>13. AllOn /\ t = mistaken /\ AllPassed(<<k1, k2>>) => Seems(c)
  <2> SUFFICES ASSUME AllOn, t = mistaken, k1 = Passed, k2 = Passed
               PROVE  Seems(c)
    BY <1>6 DEF AllPassed
  <2>1. Watched /\ {"RESOURCE", "MEMORY"} \subseteq enabled
    BY DEF Watched, Categories, AllOn
  <2>2. status[b] = "alive"
    BY <1>2, <1>3, <1>4, <2>1, BufferTells
  <2>3. b \in mapped
    BY <1>2, <1>3, <1>5, <2>1, MapTells
  <2>4. QED BY <1>2, <2>2, <2>3 DEF Seems, InOrder, Tested, Alive, ArgumentOps,
                                    DrawOps, DescOps
<1>14. TablesKept /\ mistaken = None => Watched /\ t # mistaken
  BY ValidationAssumption DEF Watched, AllOn
<1>15. QED
  BY <1>1, <1>6, <1>7, <1>8, <1>10, <1>11, <1>12, <1>13, <1>14, LockedIInv

(* A buffer is registered, unmapped.                                       *)
LEMMA RegisterBufferIInv ==
  ASSUME IInv, NEW t \in Threads, t \notin thrown, RegisterBuffer(t)
  PROVE  IInv'
<1> PICK c : c = at[t]
  OBVIOUS
<1> PICK b : b = c.obj
  OBVIOUS
<1>up. PICK upd : upd = [tables EXCEPT !.buffers = @ \cup {b}, !.bufferMapped = @ \ {b}]
  OBVIOUS
<1>1. Locked(t, "RegisterBuffer", <<>>, upd)
  BY <1>up DEF RegisterBuffer
<1>2. c.op = "RegisterBuffer" /\ c # Idle
  BY <1>1 DEF Locked, Idle
<1>3. /\ Shape(t, c) /\ b \in Buffers /\ Thing(c) = b /\ tables \in TablesType
      /\ "RESOURCE" \in enabled /\ SoundTables(tables)
  BY <1>2, BufferShape, GateIs, TablesSound DEF IInv, CallsWellFormed, Types
<1>4. <<>> \in Seq(CheckType) /\ Among(<<>>) = {}
  BY Tuple0
<1>5. /\ upd.buffers = tables.buffers \cup {b} /\ upd.textures = tables.textures
      /\ upd.views = tables.views /\ upd.viewHandles = tables.viewHandles
      /\ upd.pipelines = tables.pipelines /\ upd.registered = tables.registered
      /\ upd.lists = tables.lists /\ upd \in TablesType
      /\ upd.bufferMapped = tables.bufferMapped \ {b}
  BY <1>3, <1>up DEF TablesType
<1>6. SoundTables(upd)
  BY <1>3, <1>5 DEF SoundTables
<1>7. Effects(c, tables, upd)
  BY <1>2, <1>3, <1>5
     DEF Effects, TableEffect, ViewEffect, ListEffect, MapEffect, RecordOps,
         ListOps, DrawOps,
         SetBufferOps, MapOps
<1>8. ~ SomeReport(<<>>) /\ ~ SomeStop(<<>>)
  BY <1>4 DEF SomeReport, SomeStop
<1>9. Seems(c)
  BY <1>2 DEF Seems, InOrder, Tested, Creating, ArgumentOps, DrawOps, DescOps
<1>10. QED
  BY <1>1, <1>4, <1>5, <1>6, <1>7, <1>8, <1>9, LockedIInv

(* It is forgotten, and was unmapped before.                               *)
LEMMA UnregisterBufferIInv ==
  ASSUME IInv, NEW t \in Threads, t \notin thrown, UnregisterBuffer(t)
  PROVE  IInv'
<1> PICK c : c = at[t]
  OBVIOUS
<1> PICK b : b = c.obj
  OBVIOUS
<1>k1. PICK k1 : k1 = Check(b \notin tables.buffers, "HANDLE", TRUE)
  OBVIOUS
<1>k2. PICK k2 : k2 = Check(b \in tables.bufferMapped, "RESOURCE", FALSE)
  OBVIOUS
<1>up. PICK upd : upd = [tables EXCEPT !.buffers = @ \ {b}, !.bufferMapped = @ \ {b}]
  OBVIOUS
<1>1. Locked(t, "UnregisterBuffer", <<k1, k2>>, upd)
  BY <1>k1, <1>k2, <1>up DEF UnregisterBuffer
<1>2. c.op = "UnregisterBuffer" /\ c # Idle
  BY <1>1 DEF Locked, Idle
<1>3. /\ Shape(t, c) /\ b \in Buffers /\ b \in Uses(c) /\ tables \in TablesType
      /\ "RESOURCE" \in enabled /\ SoundTables(tables) /\ Thing(c) = b
  BY <1>2, BufferShape, GateIs, TablesSound
     DEF IInv, CallsWellFormed, Types, BufferOps
<1>4. /\ k1 \in CheckType /\ (k1 # Passed <=> b \notin tables.buffers)
      /\ k1 # Passed => k1.category = "HANDLE" /\ k1.stops
  BY <1>k1 DEF Check, CheckType, Passed, Categories
<1>5. /\ k2 \in CheckType /\ (k2 # Passed <=> b \in tables.bufferMapped)
  BY <1>k2 DEF Check, CheckType, Passed, Categories
<1>6. /\ <<k1, k2>> \in Seq(CheckType) /\ Among(<<k1, k2>>) = {k1, k2}
      /\ <<k1, k2>>[1] = k1
  BY <1>4, <1>5, Tuple2
<1>7. /\ upd.buffers = tables.buffers \ {b} /\ upd.textures = tables.textures
      /\ upd.views = tables.views /\ upd.viewHandles = tables.viewHandles
      /\ upd.pipelines = tables.pipelines /\ upd.registered = tables.registered
      /\ upd.lists = tables.lists /\ upd \in TablesType
      /\ upd.bufferMapped = tables.bufferMapped \ {b}
  BY <1>3, <1>up DEF TablesType
<1>8. SoundTables(upd)
  BY <1>3, <1>7 DEF SoundTables
<1>9. Watched /\ t # mistaken => k1 = Passed /\ k2 = Passed
  <2> SUFFICES ASSUME Watched, t # mistaken
               PROVE  k1 = Passed /\ k2 = Passed
    OBVIOUS
  <2>1. b \in tables.buffers
    BY <1>2, <1>3, BufferKnown
  <2>2. b \notin tables.bufferMapped
    <3>1. CASE "MEMORY" \in enabled
      BY <1>2, <1>3, <3>1 DEF IInv, TablesRight, MapsKept, Doing
    <3>2. CASE "MEMORY" \notin enabled
      BY <1>3, <3>2 DEF SoundTables
    <3>3. QED BY <3>1, <3>2
  <2>3. QED BY <1>4, <1>5, <2>1, <2>2
<1>10. Watched /\ t # mistaken => ~ SomeReport(<<k1, k2>>) /\ ~ SomeStop(<<k1, k2>>)
  BY <1>6, <1>9 DEF SomeReport, SomeStop
<1>11. Effects(c, tables, upd)
  BY <1>2, <1>3, <1>7
     DEF Effects, TableEffect, ViewEffect, ListEffect, MapEffect, RecordOps,
         ListOps, DrawOps,
         SetBufferOps, MapOps
<1>12. AllOn /\ t = mistaken /\ AllPassed(<<k1, k2>>) => Seems(c)
  <2> SUFFICES ASSUME AllOn, t = mistaken, k1 = Passed, k2 = Passed
               PROVE  Seems(c)
    BY <1>6 DEF AllPassed
  <2>1. Watched /\ {"RESOURCE", "MEMORY"} \subseteq enabled
    BY DEF Watched, Categories, AllOn
  <2>2. status[b] = "alive"
    BY <1>2, <1>3, <1>4, <2>1, BufferTells
  <2>3. b \notin mapped
    BY <1>2, <1>3, <1>5, <2>1, MapTells
  <2>4. QED BY <1>2, <2>2, <2>3 DEF Seems, InOrder, Tested, Alive, ArgumentOps,
                                    DrawOps, DescOps
<1>13. TablesKept /\ mistaken = None => Watched /\ t # mistaken
  BY ValidationAssumption DEF Watched, AllOn
<1>14. QED
  BY <1>1, <1>6, <1>7, <1>8, <1>10, <1>11, <1>12, <1>13, LockedIInv

(* Copies and writes change no table.                                      *)
LEMMA BufferUseIInv ==
  ASSUME IInv, NEW t \in Threads, t \notin thrown,
         NEW op \in {"ValidateBufferCopy", "ValidateBufferWrite"},
         NEW checks \in Seq(CheckType), Locked(t, op, checks, tables),
         Watched /\ t # mistaken =>
           \A x \in Among(checks) : x # Passed => x.category \notin enabled /\ ~ x.stops,
         AllOn /\ t = mistaken /\ AllPassed(checks)
           /\ HandlesPassed(at[t]) => Seems(at[t])
  PROVE  IInv'
<1>1. at[t].op = op /\ SoundTables(tables)
  BY TablesSound DEF Locked
<1>2. Effects(at[t], tables, tables)
  BY <1>1, NoEffect
<1>3. Watched /\ t # mistaken => ~ SomeReport(checks) /\ ~ SomeStop(checks)
  BY DEF SomeReport, SomeStop
<1>4. TablesKept /\ mistaken = None => Watched /\ t # mistaken
  BY ValidationAssumption DEF Watched, AllOn
<1>5. QED BY <1>1, <1>2, <1>3, <1>4, LockedIInv

(* A copy: both buffers passed, so their usage is checked.                 *)
LEMMA ValidateBufferCopyIInv ==
  ASSUME IInv, NEW t \in Threads, t \notin thrown, ValidateBufferCopy(t)
  PROVE  IInv'
<1> PICK c : c = at[t]
  OBVIOUS
<1> PICK b, d : b = c.obj /\ d = c.dst
  OBVIOUS
<1>k1. PICK k1 : k1 = Check((b \in tables.buffers /\ d \in tables.buffers)
                              /\ ~ desc[b].usage, "RESOURCE", FALSE)
  OBVIOUS
<1>k2. PICK k2 : k2 = Check((b \in tables.buffers /\ d \in tables.buffers)
                              /\ ~ desc[d].usage, "RESOURCE", FALSE)
  OBVIOUS
<1>k3. PICK k3 : k3 = Check((b \in tables.buffers /\ d \in tables.buffers)
                              /\ OutOfBounds(c.args[1], c.args[3], Values64),
                            "RESOURCE", FALSE)
  OBVIOUS
<1>k4. PICK k4 : k4 = Check((b \in tables.buffers /\ d \in tables.buffers)
                              /\ OutOfBounds(c.args[2], c.args[3], Values64),
                            "RESOURCE", FALSE)
  OBVIOUS
<1>1. Locked(t, "ValidateBufferCopy", <<k1, k2, k3, k4>>, tables)
  BY <1>k1, <1>k2, <1>k3, <1>k4 DEF ValidateBufferCopy
<1>2. c.op = "ValidateBufferCopy" /\ c # Idle /\ c.handles = <<>>
  BY <1>1 DEF Locked, Idle
<1>3. /\ Shape(t, c) /\ b \in Buffers /\ b \in Uses(c) /\ d \in Buffers /\ d \in Uses(c)
      /\ "RESOURCE" \in enabled
  BY <1>2, BufferShape DEF IInv, CallsWellFormed, Gate
<1>4. /\ k1 \in CheckType
      /\ k1 # Passed <=> b \in tables.buffers /\ d \in tables.buffers /\ ~ desc[b].usage
  BY <1>k1 DEF Check, CheckType, Passed, Categories
<1>5. /\ k2 \in CheckType
      /\ k2 # Passed <=> b \in tables.buffers /\ d \in tables.buffers /\ ~ desc[d].usage
  BY <1>k2 DEF Check, CheckType, Passed, Categories
<1>6. /\ k3 \in CheckType
      /\ k3 # Passed <=> b \in tables.buffers /\ d \in tables.buffers
                          /\ OutOfBounds(c.args[1], c.args[3], Values64)
  BY <1>k3 DEF Check, CheckType, Passed, Categories
<1>7. /\ k4 \in CheckType
      /\ k4 # Passed <=> b \in tables.buffers /\ d \in tables.buffers
                          /\ OutOfBounds(c.args[2], c.args[3], Values64)
  BY <1>k4 DEF Check, CheckType, Passed, Categories
<1>8. /\ <<k1, k2, k3, k4>> \in Seq(CheckType)
      /\ Among(<<k1, k2, k3, k4>>) = {k1, k2, k3, k4}
  BY <1>4, <1>5, <1>6, <1>7, Tuple4
<1>9. t # mistaken => k1 = Passed /\ k2 = Passed /\ k3 = Passed /\ k4 = Passed
  <2> SUFFICES ASSUME t # mistaken
               PROVE  k1 = Passed /\ k2 = Passed /\ k3 = Passed /\ k4 = Passed
    OBVIOUS
  <2>1. desc[b].usage /\ desc[d].usage /\ Tested(c)
    BY <1>2 DEF IInv, FactsHold, CallFacts
  <2>2. ~ OutOfBounds(c.args[1], c.args[3], Values64)
        /\ ~ OutOfBounds(c.args[2], c.args[3], Values64)
    BY <1>2, <2>1 DEF Tested
  <2>3. QED BY <1>4, <1>5, <1>6, <1>7, <2>1, <2>2
<1>10. AllOn /\ t = mistaken /\ AllPassed(<<k1, k2, k3, k4>>)
        /\ HandlesPassed(c) => Seems(c)
  <2> SUFFICES ASSUME AllOn, t = mistaken, k1 = Passed, k2 = Passed,
                      k3 = Passed, k4 = Passed, HandlesPassed(c)
               PROVE  Seems(c)
    BY <1>8 DEF AllPassed
  <2>1. Watched
    BY DEF Watched
  <2>2. Handles(c) = <<b, d>>
    BY <1>2 DEF Handles
  <2>3. Alive(b) /\ Alive(d)
    <3>1. \A i \in 1 .. Len(Handles(c)) : Alive(Handles(c)[i])
      BY <1>2, HandlesWere
    <3>2. Len(<<b, d>>) = 2 /\ <<b, d>>[1] = b /\ <<b, d>>[2] = d
          /\ 1 \in 1 .. 2 /\ 2 \in 1 .. 2
      OBVIOUS
    <3>3. QED BY <2>2, <3>1, <3>2
  <2>4. b \in tables.buffers /\ d \in tables.buffers
    BY <1>2, <1>3, <2>1, <2>3, BufferTells DEF Alive
  <2>5. /\ desc[b].usage /\ desc[d].usage
        /\ ~ OutOfBounds(c.args[1], c.args[3], Values64)
        /\ ~ OutOfBounds(c.args[2], c.args[3], Values64)
    BY <1>4, <1>5, <1>6, <1>7, <2>4
  <2>6. Tested(c)
    BY <1>2, <2>5 DEF Tested, ArgumentOps, DescOps, DrawOps
  <2>7. InOrder(c)
    BY <1>2, <2>3, <2>5 DEF InOrder
  <2>8. QED BY <2>6, <2>7 DEF Seems
<1>11. QED
  BY <1>1, <1>8, <1>9, <1>10, BufferUseIInv

(* A write: the buffer passed, so its memory is checked.                   *)
LEMMA ValidateBufferWriteIInv ==
  ASSUME IInv, NEW t \in Threads, t \notin thrown, ValidateBufferWrite(t)
  PROVE  IInv'
<1> PICK c : c = at[t]
  OBVIOUS
<1> PICK b : b = c.obj
  OBVIOUS
<1>k1. PICK k1 : k1 = Check(b \in tables.buffers
                              /\ OutOfBounds(c.args[1], c.args[2], Values32),
                            "MEMORY", FALSE)
  OBVIOUS
<1>k2. PICK k2 : k2 = Check(b \in tables.buffers /\ desc[b].gpuOnly, "MEMORY", FALSE)
  OBVIOUS
<1>1. Locked(t, "ValidateBufferWrite", <<k1, k2>>, tables)
  BY <1>k1, <1>k2 DEF ValidateBufferWrite
<1>2. c.op = "ValidateBufferWrite" /\ c # Idle /\ c.handles = <<>>
  BY <1>1 DEF Locked, Idle
<1>3. Shape(t, c) /\ b \in Buffers /\ b \in Uses(c)
  BY <1>2, BufferShape DEF IInv, CallsWellFormed
<1>4. /\ k1 \in CheckType
      /\ k1 # Passed <=> b \in tables.buffers
                          /\ OutOfBounds(c.args[1], c.args[2], Values32)
  BY <1>k1 DEF Check, CheckType, Passed, Categories
<1>5. /\ k2 \in CheckType
      /\ k2 # Passed <=> b \in tables.buffers /\ desc[b].gpuOnly
  BY <1>k2 DEF Check, CheckType, Passed, Categories
<1>6. <<k1, k2>> \in Seq(CheckType) /\ Among(<<k1, k2>>) = {k1, k2}
  BY <1>4, <1>5, Tuple2
<1>7. t # mistaken => k1 = Passed /\ k2 = Passed
  <2> SUFFICES ASSUME t # mistaken PROVE k1 = Passed /\ k2 = Passed
    OBVIOUS
  <2>1. ~ desc[b].gpuOnly /\ Tested(c)
    BY <1>2 DEF IInv, FactsHold, CallFacts
  <2>2. ~ OutOfBounds(c.args[1], c.args[2], Values32)
    BY <1>2, <2>1 DEF Tested
  <2>3. QED BY <1>4, <1>5, <2>1, <2>2
<1>8. AllOn /\ t = mistaken /\ AllPassed(<<k1, k2>>)
        /\ HandlesPassed(c) => Seems(c)
  <2> SUFFICES ASSUME AllOn, t = mistaken, k1 = Passed, k2 = Passed,
                      HandlesPassed(c)
               PROVE  Seems(c)
    BY <1>6 DEF AllPassed
  <2>1. Watched /\ "RESOURCE" \in enabled
    BY DEF Watched, Categories, AllOn
  <2>2. Handles(c) = <<b>>
    BY <1>2 DEF Handles
  <2>3. Alive(b)
    <3>1. \A i \in 1 .. Len(Handles(c)) : Alive(Handles(c)[i])
      BY <1>2, HandlesWere
    <3>2. Len(<<b>>) = 1 /\ <<b>>[1] = b /\ 1 \in 1 .. 1
      OBVIOUS
    <3>3. QED BY <2>2, <3>1, <3>2
  <2>4. b \in tables.buffers
    BY <1>2, <1>3, <2>1, <2>3, BufferTells DEF Alive
  <2>5. ~ desc[b].gpuOnly /\ ~ OutOfBounds(c.args[1], c.args[2], Values32)
    BY <1>4, <1>5, <2>4
  <2>6. Tested(c)
    BY <1>2, <2>5 DEF Tested, ArgumentOps, DescOps, DrawOps
  <2>7. InOrder(c)
    BY <1>2, <2>3, <2>5 DEF InOrder
  <2>8. QED BY <2>6, <2>7 DEF Seems
<1>9. QED
  BY <1>1, <1>6, <1>7, <1>8, BufferUseIInv

-----------------------------------------------------------------------------
(* The functions of textures, views and pipelines.                         *)
(* What the calls about them name.                                         *)
LEMMA ObjectShape ==
  ASSUME NEW t, NEW c, Shape(t, c), c # Idle
  PROVE  /\ c.op \in TextureOps => c.obj \in Textures
         /\ c.op \in ViewOps => c.obj \in Views /\ Parent[c.obj] \in Uses(c)
                                /\ Parent[c.obj] \in Textures
         /\ c.op \in PipelineOps \cup {"ValidateSetPipeline"} => c.obj \in Pipelines
         /\ c.op \in TextureOps \cup ViewOps \cup PipelineOps =>
              c.obj \in Uses(c) /\ Thing(c) = c.obj
<1>1. /\ c.op \in TextureOps => c.obj \in Textures
      /\ c.op \in ViewOps => c.obj \in Views
      /\ c.op \in PipelineOps \cup {"ValidateSetPipeline"} => c.obj \in Pipelines
  BY DEF Shape, ObjectCall, ListCall, BufferOps, TextureOps, ViewOps, PipelineOps,
         RecordOps, ListOps, DrawOps, SetBufferOps, DescOps
<1>2. \A v \in Views : Parent[v] \in Textures
  BY ValidationAssumption
<1>3. QED BY <1>1, <1>2, KindsApart DEF Uses, Thing

(* A texture is registered, without views.                                 *)
LEMMA RegisterTextureIInv ==
  ASSUME IInv, NEW t \in Threads, t \notin thrown, RegisterTexture(t)
  PROVE  IInv'
<1> PICK c : c = at[t]
  OBVIOUS
<1> PICK x : x = c.obj
  OBVIOUS
<1>up. PICK upd : upd = [tables EXCEPT !.textures = @ \cup {x}, !.viewHandles[x] = {}]
  OBVIOUS
<1>1. Locked(t, "RegisterTexture", <<>>, upd)
  BY <1>up DEF RegisterTexture
<1>2. c.op = "RegisterTexture" /\ c # Idle
  BY <1>1 DEF Locked, Idle
<1>3. /\ Shape(t, c) /\ x \in Textures /\ Thing(c) = x /\ tables \in TablesType
      /\ "RESOURCE" \in enabled /\ SoundTables(tables)
  BY <1>2, ObjectShape, GateIs, TablesSound
     DEF IInv, CallsWellFormed, Types, TextureOps
<1>4. <<>> \in Seq(CheckType) /\ Among(<<>>) = {}
  BY Tuple0
<1>5. /\ upd.textures = tables.textures \cup {x} /\ upd.buffers = tables.buffers
      /\ upd.views = tables.views /\ upd.bufferMapped = tables.bufferMapped
      /\ upd.pipelines = tables.pipelines /\ upd.registered = tables.registered
      /\ upd.lists = tables.lists /\ upd \in TablesType
      /\ upd.viewHandles = [tables.viewHandles EXCEPT ![x] = {}]
  BY <1>3, <1>up DEF TablesType
<1>6. /\ upd.viewHandles[x] = {}
      /\ \A y \in Textures \ {x} : upd.viewHandles[y] = tables.viewHandles[y]
  BY <1>3, <1>5 DEF TablesType
<1>7. SoundTables(upd)
  <2>1. ViewsKnown(status, upd.viewHandles)
    BY <1>3, <1>6 DEF SoundTables, ViewsKnown
  <2>2. QED BY <1>3, <1>5, <2>1 DEF SoundTables
<1>8. Effects(c, tables, upd)
  <2>1. ViewEffect(c, tables.viewHandles, upd.viewHandles)
    BY <1>2, <1>6, ValidationAssumption DEF ViewEffect
  <2>2. QED
    BY <1>2, <1>3, <1>5, <2>1
       DEF Effects, TableEffect, ListEffect, MapEffect, RecordOps, ListOps, DrawOps,
           SetBufferOps, MapOps
<1>9. ~ SomeReport(<<>>) /\ ~ SomeStop(<<>>)
  BY <1>4 DEF SomeReport, SomeStop
<1>10. Seems(c)
  BY <1>2 DEF Seems, InOrder, Tested, Creating, ArgumentOps, DrawOps, DescOps
<1>11. \A y \in Textures : upd.viewHandles[y] \subseteq tables.viewHandles[y]
  BY <1>6
<1>12. QED
  BY <1>1, <1>4, <1>7, <1>8, <1>9, <1>10, <1>11, LockedIInv

(* One is reported only for views that are known, all of them destroyed.   *)
LEMMA UnregisterTextureIInv ==
  ASSUME IInv, NEW t \in Threads, t \notin thrown, UnregisterTexture(t)
  PROVE  IInv'
<1> PICK c : c = at[t]
  OBVIOUS
<1> PICK x : x = c.obj
  OBVIOUS
<1>k1. PICK k1 : k1 = Check(x \notin tables.textures, "HANDLE", TRUE)
  OBVIOUS
<1>k2. PICK k2 : k2 = Check(tables.viewHandles[x] # {}, "RESOURCE", FALSE)
  OBVIOUS
<1>up. PICK upd : upd = [tables EXCEPT !.textures = @ \ {x}]
  OBVIOUS
<1>1. Locked(t, "UnregisterTexture", <<k1, k2>>, upd)
  BY <1>k1, <1>k2, <1>up DEF UnregisterTexture
<1>2. c.op = "UnregisterTexture" /\ c # Idle
  BY <1>1 DEF Locked, Idle
<1>3. /\ Shape(t, c) /\ x \in Textures /\ x \in Uses(c) /\ tables \in TablesType
      /\ "RESOURCE" \in enabled /\ SoundTables(tables) /\ Thing(c) = x
  BY <1>2, ObjectShape, GateIs, TablesSound
     DEF IInv, CallsWellFormed, Types, TextureOps
<1>4. /\ k1 \in CheckType /\ (k1 # Passed <=> x \notin tables.textures)
      /\ k1 # Passed => k1.category = "HANDLE" /\ k1.stops
  BY <1>k1 DEF Check, CheckType, Passed, Categories
<1>5. /\ k2 \in CheckType /\ (k2 # Passed <=> tables.viewHandles[x] # {})
      /\ k2 # Passed => ~ k2.stops
  BY <1>k2 DEF Check, CheckType, Passed, Categories
<1>6. /\ <<k1, k2>> \in Seq(CheckType) /\ Among(<<k1, k2>>) = {k1, k2}
  BY <1>4, <1>5, Tuple2
<1>7. /\ upd.textures = tables.textures \ {x} /\ upd.buffers = tables.buffers
      /\ upd.views = tables.views /\ upd.bufferMapped = tables.bufferMapped
      /\ upd.pipelines = tables.pipelines /\ upd.registered = tables.registered
      /\ upd.lists = tables.lists /\ upd \in TablesType
      /\ upd.viewHandles = tables.viewHandles
  BY <1>3, <1>up DEF TablesType
<1>8. SoundTables(upd)
  BY <1>3, <1>7 DEF SoundTables
<1>9. Effects(c, tables, upd)
  BY <1>2, <1>3, <1>7
     DEF Effects, TableEffect, ViewEffect, ListEffect, MapEffect, RecordOps,
         ListOps, DrawOps,
         SetBufferOps, MapOps
<1>10. Watched /\ t # mistaken => k1 = Passed /\ ForgottenViews(t)
  <2> SUFFICES ASSUME Watched, t # mistaken PROVE k1 = Passed /\ ForgottenViews(t)
    OBVIOUS
  <2>1. Kept(at, mistaken, status, Textures, tables.textures,
             "RegisterTexture", "UnregisterTexture")
    BY <1>3 DEF IInv, TablesRight
  <2>2. x \in tables.textures
    BY <1>2, <1>3, <2>1 DEF Kept, Doing
  <2>3. CallFacts(c, status, mapped) /\ ViewsKnown(status, tables.viewHandles)
    BY <1>2 DEF IInv, FactsHold
  <2>4. ASSUME NEW v \in tables.viewHandles[x]
        PROVE  status[v] = "dead"
    <3>1. v \in Views /\ Parent[v] = x /\ status[v] # "new"
      BY <1>3, <2>3, <2>4 DEF ViewsKnown, TablesType
    <3>2. status[v] # "alive"
      BY <1>2, <2>3, <3>1 DEF CallFacts
    <3>3. status[v] \in Life
      BY <3>1 DEF IInv, Types, Things, Objects
    <3>4. QED BY <3>1, <3>2, <3>3 DEF Life
  <2>5. QED BY <1>2, <1>4, <2>2, <2>4 DEF ForgottenViews
<1>11. Watched /\ t # mistaken => ~ SomeStop(<<k1, k2>>)
  BY <1>5, <1>6, <1>10 DEF SomeStop
<1>12. AllOn /\ t = mistaken /\ AllPassed(<<k1, k2>>) => Seems(c)
  <2> SUFFICES ASSUME AllOn, t = mistaken, k1 = Passed, k2 = Passed
               PROVE  Seems(c)
    BY <1>6 DEF AllPassed
  <2>1. /\ Kept(at, mistaken, status, Textures, tables.textures,
                "RegisterTexture", "UnregisterTexture")
        /\ ViewsKept(at, mistaken, status, tables.viewHandles)
    BY <1>3 DEF IInv, TablesRight, Watched, AllOn
  <2>2. x \in tables.textures /\ tables.viewHandles[x] = {}
    BY <1>4, <1>5
  <2>3. ~ Doing(at, mistaken, t, {"RegisterTexture", "UnregisterTexture"})
    BY DEF Doing
  <2>4. status[x] = "alive"
    BY <1>2, <1>3, <2>1, <2>2, <2>3, Kinds, TableTells
  <2>5. ASSUME NEW v \in Views, Parent[v] = x, status[v] = "alive"
        PROVE  FALSE
    <3>1. PICK u \in Threads : /\ Doing(at, mistaken, u, {"RegisterTextureView"})
                               /\ Thing(at[u]) = v
      BY <2>1, <2>2, <2>5 DEF ViewsKept, Settled
    <3>2. u # t /\ at[u] # Idle /\ at[u].op = "RegisterTextureView"
      BY <3>1 DEF Doing
    <3>3. Shape(u, at[u])
      BY <3>2 DEF IInv, CallsWellFormed
    <3>4. x \in Uses(at[u])
      BY <2>5, <3>1, <3>2, <3>3, ObjectShape DEF ViewOps
    <3>5. x \in Changes(c)
      BY <1>2 DEF Changes, Destroying
    <3>6. QED BY <1>3, <3>2, <3>4, <3>5, KindsApart DEF IInv, Apart
  <2>6. QED BY <1>2, <2>4, <2>5 DEF Seems, InOrder, Tested, Alive, ArgumentOps,
                                    DrawOps, DescOps
<1>13. TablesKept /\ mistaken = None => Watched /\ t # mistaken
  BY ValidationAssumption DEF Watched, AllOn
<1>14. QED
  BY <1>1, <1>6, <1>7, <1>8, <1>9, <1>10, <1>11, <1>12, <1>13, LockedIInv

(* A view is registered, and its texture told of it.                       *)
LEMMA RegisterTextureViewIInv ==
  ASSUME IInv, NEW t \in Threads, t \notin thrown, RegisterTextureView(t)
  PROVE  IInv'
<1> PICK c : c = at[t]
  OBVIOUS
<1> PICK v, x : v = c.obj /\ x = Parent[v]
  OBVIOUS
<1> PICK known : known = IF x \in tables.textures THEN tables.viewHandles[x] \cup {v}
                         ELSE tables.viewHandles[x]
  OBVIOUS
<1>up. PICK upd : upd = [tables EXCEPT !.views = @ \cup {v}, !.viewHandles[x] = known]
  OBVIOUS
<1>1. Locked(t, "RegisterTextureView", <<>>, upd)
  BY <1>up DEF RegisterTextureView
<1>2. c.op = "RegisterTextureView" /\ c # Idle
  BY <1>1 DEF Locked, Idle
<1>3. /\ Shape(t, c) /\ v \in Views /\ Thing(c) = v /\ tables \in TablesType
      /\ "RESOURCE" \in enabled /\ SoundTables(tables)
      /\ x \in Textures /\ x \in Uses(c)
  BY <1>2, ObjectShape, GateIs, TablesSound DEF IInv, CallsWellFormed, Types,
       ViewOps
<1>4. <<>> \in Seq(CheckType) /\ Among(<<>>) = {}
  BY Tuple0
<1>5. /\ known \subseteq tables.viewHandles[x] \cup {v} /\ known \in SUBSET Views
      /\ x \in tables.textures => v \in known
      /\ tables.viewHandles[x] \subseteq known
  BY <1>3 DEF TablesType
<1>6. /\ upd.views = tables.views \cup {v} /\ upd.buffers = tables.buffers
      /\ upd.textures = tables.textures /\ upd.bufferMapped = tables.bufferMapped
      /\ upd.pipelines = tables.pipelines /\ upd.registered = tables.registered
      /\ upd.lists = tables.lists /\ upd \in TablesType
      /\ upd.viewHandles = [tables.viewHandles EXCEPT ![x] = known]
  BY <1>3, <1>5, <1>up DEF TablesType
<1>7. /\ upd.viewHandles[x] = known
      /\ \A y \in Textures \ {x} : upd.viewHandles[y] = tables.viewHandles[y]
  BY <1>3, <1>6 DEF TablesType
<1>8. t # mistaken /\ status[v] = "alive" /\ status[x] = "alive"
  <2>1. t # mistaken
    BY <1>2, ValidationAssumption DEF IInv, MistakeLimits, Creating
  <2>2. CallFacts(c, status, mapped)
    BY <1>2, <2>1 DEF IInv, FactsHold
  <2>3. QED BY <1>2, <1>3, <2>1, <2>2 DEF CallFacts, Creating
<1>9. SoundTables(upd)
  <2>1. ViewsKnown(status, upd.viewHandles)
    <3> SUFFICES ASSUME NEW y \in Textures, NEW w \in upd.viewHandles[y]
                 PROVE  Parent[w] = y /\ status[w] # "new"
      BY DEF ViewsKnown
    <3>1. CASE w \in tables.viewHandles[y]
      BY <1>3, <3>1 DEF SoundTables, ViewsKnown
    <3>2. CASE w \notin tables.viewHandles[y]
      <4>1. y = x
        BY <1>7, <3>2
      <4>2. w = v
        BY <1>5, <1>7, <3>2, <4>1
      <4>3. QED BY <1>8, <4>1, <4>2
    <3>3. QED BY <3>1, <3>2
  <2>2. QED BY <1>3, <1>6, <2>1 DEF SoundTables
<1>10. Watched => Effects(c, tables, upd)
  <2> SUFFICES ASSUME Watched PROVE Effects(c, tables, upd)
    OBVIOUS
  <2>1. Kept(at, mistaken, status, Textures, tables.textures,
             "RegisterTexture", "UnregisterTexture")
    BY <1>3 DEF IInv, TablesRight
  <2>2. x \in tables.textures
    BY <1>2, <1>3, <1>8, <2>1, Kinds, TableTells DEF Doing
  <2>3. ViewEffect(c, tables.viewHandles, upd.viewHandles)
    BY <1>2, <1>5, <1>7, <2>2, ValidationAssumption DEF ViewEffect
  <2>4. QED
    BY <1>2, <1>3, <1>6, <2>3
       DEF Effects, TableEffect, ListEffect, MapEffect, RecordOps, ListOps, DrawOps,
           SetBufferOps, MapOps
<1>11. ~ SomeReport(<<>>) /\ ~ SomeStop(<<>>)
  BY <1>4 DEF SomeReport, SomeStop
<1>12. \A y \in Textures : upd.viewHandles[y] \subseteq tables.viewHandles[y]
                           \/ y \in Uses(c)
  BY <1>3, <1>7
<1>13. QED
  BY <1>1, <1>4, <1>8, <1>9, <1>10, <1>11, <1>12, LockedIInv

(* A view is forgotten; its texture is not told.                           *)
LEMMA UnregisterTextureViewIInv ==
  ASSUME IInv, NEW t \in Threads, t \notin thrown, UnregisterTextureView(t)
  PROVE  IInv'
<1> PICK c : c = at[t]
  OBVIOUS
<1> PICK v : v = c.obj
  OBVIOUS
<1>k1. PICK k1 : k1 = Check(v \notin tables.views, "HANDLE", TRUE)
  OBVIOUS
<1>up. PICK upd : upd = [tables EXCEPT !.views = @ \ {v}]
  OBVIOUS
<1>1. Locked(t, "UnregisterTextureView", <<k1>>, upd)
  BY <1>k1, <1>up DEF UnregisterTextureView
<1>2. c.op = "UnregisterTextureView" /\ c # Idle
  BY <1>1 DEF Locked, Idle
<1>3. /\ Shape(t, c) /\ v \in Views /\ v \in Uses(c) /\ tables \in TablesType
      /\ "RESOURCE" \in enabled /\ SoundTables(tables) /\ Thing(c) = v
  BY <1>2, ObjectShape, GateIs, TablesSound
     DEF IInv, CallsWellFormed, Types, ViewOps
<1>4. /\ k1 \in CheckType /\ (k1 # Passed <=> v \notin tables.views)
  BY <1>k1 DEF Check, CheckType, Passed, Categories
<1>5. /\ <<k1>> \in Seq(CheckType) /\ Among(<<k1>>) = {k1}
  BY <1>4, Tuple1
<1>6. /\ upd.views = tables.views \ {v} /\ upd.buffers = tables.buffers
      /\ upd.textures = tables.textures /\ upd.bufferMapped = tables.bufferMapped
      /\ upd.pipelines = tables.pipelines /\ upd.registered = tables.registered
      /\ upd.lists = tables.lists /\ upd \in TablesType
      /\ upd.viewHandles = tables.viewHandles
  BY <1>3, <1>up DEF TablesType
<1>7. SoundTables(upd)
  BY <1>3, <1>6 DEF SoundTables
<1>8. Effects(c, tables, upd)
  BY <1>2, <1>3, <1>6
     DEF Effects, TableEffect, ViewEffect, ListEffect, MapEffect, RecordOps,
         ListOps, DrawOps,
         SetBufferOps, MapOps
<1>9. Watched => Kept(at, mistaken, status, Views, tables.views,
                      "RegisterTextureView", "UnregisterTextureView")
  BY <1>3 DEF IInv, TablesRight
<1>10. Watched /\ t # mistaken => k1 = Passed
  BY <1>2, <1>3, <1>4, <1>9 DEF Kept, Doing
<1>11. Watched /\ t # mistaken => ~ SomeReport(<<k1>>) /\ ~ SomeStop(<<k1>>)
  BY <1>5, <1>10 DEF SomeReport, SomeStop
<1>12. AllOn /\ t = mistaken /\ AllPassed(<<k1>>) => Seems(c)
  <2> SUFFICES ASSUME AllOn, t = mistaken, k1 = Passed
               PROVE  Seems(c)
    BY <1>5 DEF AllPassed
  <2>1. ~ Doing(at, mistaken, t, {"RegisterTextureView", "UnregisterTextureView"})
        /\ Watched
    BY DEF Doing, Watched, AllOn
  <2>2. status[v] = "alive"
    BY <1>2, <1>3, <1>4, <1>9, <2>1, Kinds, TableTells
  <2>3. QED BY <1>2, <2>2 DEF Seems, InOrder, Tested, Alive, ArgumentOps, DrawOps,
                              DescOps
<1>13. TablesKept /\ mistaken = None => Watched /\ t # mistaken
  BY ValidationAssumption DEF Watched, AllOn
<1>14. QED
  BY <1>1, <1>5, <1>6, <1>7, <1>8, <1>11, <1>12, <1>13, LockedIInv

(* A pipeline is registered.                                               *)
LEMMA RegisterPipelineIInv ==
  ASSUME IInv, NEW t \in Threads, t \notin thrown, RegisterPipeline(t)
  PROVE  IInv'
<1> PICK c : c = at[t]
  OBVIOUS
<1> PICK p : p = c.obj
  OBVIOUS
<1>up. PICK upd : upd = [tables EXCEPT !.pipelines = @ \cup {p}]
  OBVIOUS
<1>1. Locked(t, "RegisterPipeline", <<>>, upd)
  BY <1>up DEF RegisterPipeline
<1>2. c.op = "RegisterPipeline" /\ c # Idle
  BY <1>1 DEF Locked, Idle
<1>3. /\ Shape(t, c) /\ p \in Pipelines /\ Thing(c) = p /\ tables \in TablesType
      /\ "PIPELINE" \in enabled /\ SoundTables(tables)
  BY <1>2, ObjectShape, GateIs, TablesSound
     DEF IInv, CallsWellFormed, Types, PipelineOps
<1>4. <<>> \in Seq(CheckType) /\ Among(<<>>) = {}
  BY Tuple0
<1>5. /\ upd.pipelines = tables.pipelines \cup {p} /\ upd.buffers = tables.buffers
      /\ upd.views = tables.views /\ upd.bufferMapped = tables.bufferMapped
      /\ upd.textures = tables.textures /\ upd.registered = tables.registered
      /\ upd.lists = tables.lists /\ upd \in TablesType
      /\ upd.viewHandles = tables.viewHandles
  BY <1>3, <1>up DEF TablesType
<1>6. SoundTables(upd)
  BY <1>3, <1>5 DEF SoundTables
<1>7. Effects(c, tables, upd)
  BY <1>2, <1>3, <1>5
     DEF Effects, TableEffect, ViewEffect, ListEffect, MapEffect, RecordOps,
         ListOps, DrawOps,
         SetBufferOps, MapOps
<1>8. ~ SomeReport(<<>>) /\ ~ SomeStop(<<>>)
  BY <1>4 DEF SomeReport, SomeStop
<1>9. Seems(c)
  BY <1>2 DEF Seems, InOrder, Tested, Creating, ArgumentOps, DrawOps, DescOps
<1>10. QED
  BY <1>1, <1>4, <1>5, <1>6, <1>7, <1>8, <1>9, LockedIInv

(* It is forgotten.                                                        *)
LEMMA UnregisterPipelineIInv ==
  ASSUME IInv, NEW t \in Threads, t \notin thrown, UnregisterPipeline(t)
  PROVE  IInv'
<1> PICK c : c = at[t]
  OBVIOUS
<1> PICK p : p = c.obj
  OBVIOUS
<1>k1. PICK k1 : k1 = Check(p \notin tables.pipelines, "HANDLE", TRUE)
  OBVIOUS
<1>up. PICK upd : upd = [tables EXCEPT !.pipelines = @ \ {p}]
  OBVIOUS
<1>1. Locked(t, "UnregisterPipeline", <<k1>>, upd)
  BY <1>k1, <1>up DEF UnregisterPipeline
<1>2. c.op = "UnregisterPipeline" /\ c # Idle
  BY <1>1 DEF Locked, Idle
<1>3. /\ Shape(t, c) /\ p \in Pipelines /\ p \in Uses(c) /\ tables \in TablesType
      /\ "PIPELINE" \in enabled /\ SoundTables(tables) /\ Thing(c) = p
  BY <1>2, ObjectShape, GateIs, TablesSound
     DEF IInv, CallsWellFormed, Types, PipelineOps
<1>4. /\ k1 \in CheckType /\ (k1 # Passed <=> p \notin tables.pipelines)
  BY <1>k1 DEF Check, CheckType, Passed, Categories
<1>5. /\ <<k1>> \in Seq(CheckType) /\ Among(<<k1>>) = {k1}
  BY <1>4, Tuple1
<1>6. /\ upd.pipelines = tables.pipelines \ {p} /\ upd.buffers = tables.buffers
      /\ upd.textures = tables.textures /\ upd.bufferMapped = tables.bufferMapped
      /\ upd.views = tables.views /\ upd.registered = tables.registered
      /\ upd.lists = tables.lists /\ upd \in TablesType
      /\ upd.viewHandles = tables.viewHandles
  BY <1>3, <1>up DEF TablesType
<1>7. SoundTables(upd)
  BY <1>3, <1>6 DEF SoundTables
<1>8. Effects(c, tables, upd)
  BY <1>2, <1>3, <1>6
     DEF Effects, TableEffect, ViewEffect, ListEffect, MapEffect, RecordOps,
         ListOps, DrawOps,
         SetBufferOps, MapOps
<1>9. Watched => Kept(at, mistaken, status, Pipelines, tables.pipelines,
                      "RegisterPipeline", "UnregisterPipeline")
  BY <1>3 DEF IInv, TablesRight
<1>10. Watched /\ t # mistaken => k1 = Passed
  BY <1>2, <1>3, <1>4, <1>9 DEF Kept, Doing
<1>11. Watched /\ t # mistaken => ~ SomeReport(<<k1>>) /\ ~ SomeStop(<<k1>>)
  BY <1>5, <1>10 DEF SomeReport, SomeStop
<1>12. AllOn /\ t = mistaken /\ AllPassed(<<k1>>) => Seems(c)
  <2> SUFFICES ASSUME AllOn, t = mistaken, k1 = Passed
               PROVE  Seems(c)
    BY <1>5 DEF AllPassed
  <2>1. ~ Doing(at, mistaken, t, {"RegisterPipeline", "UnregisterPipeline"})
        /\ Watched
    BY DEF Doing, Watched, AllOn
  <2>2. status[p] = "alive"
    BY <1>2, <1>3, <1>4, <1>9, <2>1, Kinds, TableTells
  <2>3. QED BY <1>2, <2>2 DEF Seems, InOrder, Tested, Alive, ArgumentOps, DrawOps,
                              DescOps
<1>13. TablesKept /\ mistaken = None => Watched /\ t # mistaken
  BY ValidationAssumption DEF Watched, AllOn
<1>14. QED
  BY <1>1, <1>5, <1>6, <1>7, <1>8, <1>11, <1>12, <1>13, LockedIInv

-----------------------------------------------------------------------------
(* The functions of command lists.                                         *)
ListChanged(c, T, T2) ==
  /\ T2 \in TablesType /\ T2.buffers = T.buffers /\ T2.bufferMapped = T.bufferMapped
  /\ T2.textures = T.textures /\ T2.views = T.views /\ T2.pipelines = T.pipelines
  /\ T2.viewHandles = T.viewHandles
  /\ TableEffect(c, T.registered, T2.registered,
                 "RegisterCommandList", "UnregisterCommandList")
  /\ \A l \in Lists : ListEffect(c, T.lists, T2.lists, l)

(* A call that records names a list of its thread.                         *)
LEMMA ListShape ==
  ASSUME NEW t, NEW c, Shape(t, c), c # Idle, c.op \in RecordOps
  PROVE  c.list \in Lists /\ Owner[c.list] = t /\ c.list \in Uses(c)
         /\ (c.op \in {"RegisterCommandList", "UnregisterCommandList"} =>
               Thing(c) = c.list)
<1>1. ListCall(t, c)
      /\ (c.op \in {"RegisterCommandList", "UnregisterCommandList"} => c.obj = None)
  BY DEF Shape, ObjectCall, ListCall, BufferOps, TextureOps, ViewOps, PipelineOps,
         RecordOps, ListOps, DrawOps, SetBufferOps, DescOps
<1>2. QED BY <1>1 DEF ListCall, Uses, Thing

(* It has the effect it should on the tables.                              *)
LEMMA ListEffects ==
  ASSUME NEW t, NEW c, Shape(t, c), c # Idle, c.op \in RecordOps,
         NEW T, NEW T2, ListChanged(c, T, T2)
  PROVE  Effects(c, T, T2)
<1>1. c.op \notin MapOps
      /\ c.op \notin (Creating \cup Destroying)
                       \ {"RegisterCommandList", "UnregisterCommandList"}
  BY DEF RecordOps, ListOps, DrawOps, SetBufferOps, MapOps, Creating, Destroying
<1>2. /\ TableEffect(c, T.buffers, T2.buffers, "RegisterBuffer", "UnregisterBuffer")
      /\ TableEffect(c, T.textures, T2.textures, "RegisterTexture", "UnregisterTexture")
      /\ TableEffect(c, T.views, T2.views,
                     "RegisterTextureView", "UnregisterTextureView")
      /\ TableEffect(c, T.pipelines, T2.pipelines,
                     "RegisterPipeline", "UnregisterPipeline")
      /\ ViewEffect(c, T.viewHandles, T2.viewHandles)
  BY <1>1 DEF ListChanged, TableEffect, ViewEffect, Creating, Destroying
<1>3. MapEffect(c, T.bufferMapped, T2.bufferMapped)
  BY <1>1 DEF ListChanged, MapEffect, MapOps
<1>4. QED BY <1>2, <1>3 DEF Effects, ListChanged

(* A function that changes the list's info and nothing else.               *)
LEMMA ListUpdated ==
  ASSUME NEW T \in TablesType, NEW c, NEW i, i = Recorded(T.lists[c.list], c.op),
         c.op \in RecordOps \ {"RegisterCommandList", "UnregisterCommandList"},
         c.list \in Lists, NEW T2, T2 = [T EXCEPT !.lists[c.list] = i]
  PROVE  ListChanged(c, T, T2)
<1>1. i \in InfoType
  BY RecordedType DEF TablesType
<1>2. /\ T2.buffers = T.buffers /\ T2.bufferMapped = T.bufferMapped
      /\ T2.textures = T.textures /\ T2.views = T.views /\ T2.pipelines = T.pipelines
      /\ T2.viewHandles = T.viewHandles /\ T2.registered = T.registered
      /\ T2.lists = [T.lists EXCEPT ![c.list] = i] /\ T2 \in TablesType
  BY <1>1 DEF TablesType
<1>3. \A l \in Lists : T2.lists[l] = IF l = c.list THEN i ELSE T.lists[l]
  BY <1>2 DEF TablesType
<1>4. \A l \in Lists : ListEffect(c, T.lists, T2.lists, l)
  BY <1>3 DEF ListEffect
<1>5. TableEffect(c, T.registered, T2.registered,
                  "RegisterCommandList", "UnregisterCommandList")
  BY <1>2 DEF TableEffect
<1>6. QED BY <1>2, <1>4, <1>5 DEF ListChanged

(* And leaves them sound if it leaves the list so.                         *)
LEMMA ListSound ==
  ASSUME NEW T, SoundTables(T), NEW t, NEW c, Shape(t, c), c # Idle,
         c.op \in RecordOps, NEW T2, ListChanged(c, T, T2),
         SoundInfo(Recorded(T.lists[c.list], c.op)),
         c.op \in {"RegisterCommandList", "UnregisterCommandList"} =>
           "COMMAND_LIST" \in enabled
  PROVE  SoundTables(T2)
<1>1. \A l \in Lists : SoundInfo(T2.lists[l])
  <2> SUFFICES ASSUME NEW l \in Lists PROVE SoundInfo(T2.lists[l])
    OBVIOUS
  <2>1. ListEffect(c, T.lists, T2.lists, l) /\ SoundInfo(T.lists[l])
    BY DEF ListChanged, SoundTables
  <2>2. CASE c.list = l
    <3>1. T2.lists[l] = Recorded(T.lists[c.list], c.op)
      BY <2>1, <2>2 DEF ListEffect
    <3>2. QED BY <3>1
  <2>3. CASE c.list # l
    <3>1. T2.lists[l] = T.lists[l]
      BY <2>1, <2>3 DEF ListEffect
    <3>2. QED BY <2>1, <3>1
  <2>4. QED BY <2>2, <2>3
<1>2. "COMMAND_LIST" \notin enabled => T2.registered = T.registered
  BY DEF ListChanged, TableEffect
<1>3. QED BY <1>1, <1>2 DEF SoundTables, ListChanged

(* What the layer knows of the list a call records.                        *)
LEMMA ListKnown ==
  ASSUME IInv, NEW t \in Threads, at[t] # Idle, NEW op, at[t].op = op,
         op \in RecordOps \ {"RegisterCommandList"}, Watched,
         "COMMAND_LIST" \in enabled, NEW l, l = at[t].list
  PROVE  /\ t # mistaken => /\ l \in tables.registered
                            /\ Before(tables.lists[l], rec[l], op)
         /\ t = mistaken => /\ l \in tables.registered <=> Alive(l)
                            /\ Match(tables.lists[l], rec[l])
<1> PICK c : c = at[t]
  OBVIOUS
<1>1. Shape(t, c) /\ c # Idle
  BY DEF IInv, CallsWellFormed
<1>2. l \in Lists /\ Owner[l] = t /\ l \in Uses(c)
      /\ (op = "UnregisterCommandList" => Thing(c) = l)
  BY <1>1, ListShape
<1>3. /\ Kept(at, mistaken, status, Lists, tables.registered,
              "RegisterCommandList", "UnregisterCommandList")
      /\ ListKept(at, mistaken, rec, tables.lists, l)
  BY <1>2 DEF IInv, TablesRight
<1>4. ASSUME t # mistaken
      PROVE  l \in tables.registered /\ Before(tables.lists[l], rec[l], op)
  <2>1. Doing(at, mistaken, t, RecordOps) /\ CallFacts(c, status, mapped)
    BY <1>1, <1>4 DEF Doing, IInv, FactsHold
  <2>2. Before(tables.lists[l], rec[l], op)
    BY <1>2, <1>3, <2>1 DEF ListKept
  <2>3. l \in tables.registered
    <3>1. CASE op = "UnregisterCommandList"
      BY <1>1, <1>2, <1>3, <1>4, <3>1 DEF Kept, Doing
    <3>2. CASE op # "UnregisterCommandList"
      <4>1. ~ Doing(at, mistaken, t, {"RegisterCommandList", "UnregisterCommandList"})
        BY <3>2 DEF Doing
      <4>2. status[l] = "alive"
        BY <2>1, <3>2 DEF CallFacts
      <4>3. QED BY <1>1, <1>2, <1>3, <4>1, <4>2, Kinds, TableTells
    <3>3. QED BY <3>1, <3>2
  <2>4. QED BY <2>2, <2>3
<1>5. ASSUME t = mistaken
      PROVE  (l \in tables.registered <=> Alive(l)) /\ Match(tables.lists[l], rec[l])
  <2>1. /\ ~ Doing(at, mistaken, t, {"RegisterCommandList", "UnregisterCommandList"})
        /\ ~ Doing(at, mistaken, t, RecordOps)
    BY <1>5 DEF Doing
  <2>2. Match(tables.lists[l], rec[l])
    BY <1>2, <1>3, <2>1 DEF ListKept
  <2>3. l \in tables.registered <=> status[l] = "alive"
    BY <1>1, <1>2, <1>3, <2>1, Kinds, TableTells
  <2>4. QED BY <2>2, <2>3 DEF Alive
<1>6. QED BY <1>4, <1>5

(* A function of lists: what it finds when the call follows the rules, and *)
(* what it must have found to pass everything.                             *)
ListOp(t, op, checks, updated) ==
  /\ op \in RecordOps \ {"RegisterCommandList"} /\ checks \in Seq(CheckType)
  /\ Locked(t, op, checks, updated) /\ ListChanged(at[t], tables, updated)
  /\ checks[1] = Unknown(t) /\ Unknown(t) \in Among(checks)
  /\ NoneSeen(checks) /\ SoundInfo(Info(t)) => SoundInfo(Recorded(Info(t), op))
  /\ \A old \in InfoType :
       t # mistaken /\ "COMMAND_LIST" \in enabled /\ Gate[op] \in enabled
         /\ Match(Info(t), old) /\ Rule(old, op) =>
         \A x \in Among(checks) : x # Passed /\ x # checks[1] =>
           x.category \notin enabled /\ ~ x.stops
  /\ AllOn /\ t = mistaken /\ AllPassed(checks)
       /\ HandlesPassed(at[t]) /\ Match(Info(t), rec[at[t].list])
       /\ Alive(at[t].list) => Seems(at[t])

(* Such a function keeps the invariant.                                    *)
LEMMA ListOpIInv ==
  ASSUME IInv, NEW t \in Threads, t \notin thrown, NEW op, NEW checks, NEW updated,
         ListOp(t, op, checks, updated)
  PROVE  IInv'
<1> PICK c, l : c = at[t] /\ l = at[t].list
  OBVIOUS
<1> PICK i : i = Info(t)
  OBVIOUS
<1>k1. PICK k1 : k1 = Unknown(t)
  OBVIOUS
<1>0. /\ op \in RecordOps \ {"RegisterCommandList"} /\ checks \in Seq(CheckType)
      /\ Locked(t, op, checks, updated) /\ ListChanged(c, tables, updated)
      /\ checks[1] = k1 /\ k1 \in Among(checks)
      /\ NoneSeen(checks) /\ SoundInfo(i) => SoundInfo(Recorded(i, op))
  BY <1>k1 DEF ListOp
<1>1. c.op = op /\ c # Idle /\ op # "none"
  BY <1>0 DEF Locked, Idle, RecordOps, ListOps, DrawOps, SetBufferOps
<1>2. /\ Shape(t, c) /\ Gate[op] \in enabled /\ SoundTables(tables)
      /\ op = "UnregisterCommandList" => "COMMAND_LIST" \in enabled
  BY <1>1, TablesSound, GateIs DEF IInv, CallsWellFormed
<1>3. l \in Lists /\ i = tables.lists[l] /\ SoundInfo(i)
  BY <1>0, <1>1, <1>2, ListShape DEF Info, SoundTables
<1>4. /\ k1 # Passed <=> l \notin tables.registered
      /\ k1 # Passed => k1.category = "COMMAND_LIST" /\ k1.stops
  BY <1>k1 DEF Unknown, Check, Passed
<1>5. NoneSeen(checks) => SoundTables(updated)
  BY <1>0, <1>1, <1>2, <1>3, ListSound
<1>6. Effects(c, tables, updated) /\ updated.viewHandles = tables.viewHandles
  BY <1>0, <1>1, <1>2, ListEffects DEF ListChanged
<1>7. Watched /\ t # mistaken /\ "COMMAND_LIST" \in enabled =>
        \A x \in Among(checks) : x # Passed => x.category \notin enabled /\ ~ x.stops
  <2> SUFFICES ASSUME Watched, t # mistaken, "COMMAND_LIST" \in enabled
               PROVE  \A x \in Among(checks) : x # Passed =>
                        x.category \notin enabled /\ ~ x.stops
    OBVIOUS
  <2>1. l \in tables.registered /\ Before(tables.lists[l], rec[l], op)
    BY <1>0, <1>1, ListKnown
  <2>2. PICK old \in InfoType : Match(i, old) /\ Rule(old, op)
    BY <1>3, <2>1 DEF Before
  <2>3. k1 = Passed
    BY <1>4, <2>1
  <2>4. QED BY <1>0, <1>2, <2>2, <2>3 DEF ListOp
<1>8. "COMMAND_LIST" \notin enabled =>
        k1 # Passed /\ k1.category \notin enabled /\ checks[1].stops
  <2>1. "COMMAND_LIST" \notin enabled => l \notin tables.registered
    BY <1>2 DEF SoundTables
  <2>2. QED BY <1>0, <1>4, <2>1
<1>9. Watched /\ t # mistaken => ~ SomeReport(checks)
  BY <1>0, <1>7, <1>8 DEF SomeReport
<1>10. Watched /\ t # mistaken /\ SomeStop(checks) => Effects(c, tables, tables)
  <2> SUFFICES ASSUME Watched, t # mistaken, SomeStop(checks)
               PROVE  Effects(c, tables, tables)
    OBVIOUS
  <2>1. "COMMAND_LIST" \notin enabled
    BY <1>7 DEF SomeStop
  <2>2. QED BY <1>0, <1>1, <1>2, <2>1, NoEffectOff
<1>11. AllOn /\ t = mistaken /\ AllPassed(checks) /\ HandlesPassed(c)
         => Seems(c)
  <2> SUFFICES ASSUME AllOn, t = mistaken, AllPassed(checks),
                      HandlesPassed(c)
               PROVE  Seems(c)
    OBVIOUS
  <2>1. Watched /\ "COMMAND_LIST" \in enabled
    BY DEF Watched, Categories, AllOn
  <2>2. (l \in tables.registered <=> Alive(l)) /\ Match(tables.lists[l], rec[l])
    BY <1>0, <1>1, <2>1, ListKnown
  <2>3. l \in tables.registered
    BY <1>0, <1>4 DEF AllPassed
  <2>4. QED BY <1>3, <2>2, <2>3 DEF ListOp
<1>12. TablesKept /\ mistaken = None => Watched /\ t # mistaken
  BY ValidationAssumption DEF Watched, AllOn
<1>13. QED
  BY <1>0, <1>1, <1>5, <1>6, <1>9, <1>10, <1>11, <1>12, LockedIInv

(* The info of the list a call records.                                    *)
LEMMA ListInfo ==
  ASSUME IInv, NEW t \in Threads, at[t] # Idle, at[t].op \in RecordOps
  PROVE  /\ Shape(t, at[t]) /\ at[t].list \in Lists /\ tables \in TablesType
         /\ Info(t) = tables.lists[at[t].list] /\ Info(t) \in InfoType
<1>1. Shape(t, at[t]) /\ tables \in TablesType
  BY DEF IInv, CallsWellFormed, Types
<1>2. at[t].list \in Lists
  BY <1>1, ListShape
<1>3. QED BY <1>1, <1>2 DEF Info, TablesType

(* Draws change nothing.                                                   *)
LEMMA ListUnchanged ==
  ASSUME NEW T \in TablesType, NEW c, c.op \in {"ValidateDrawCall", "ValidateDrawIndexed"}
  PROVE  ListChanged(c, T, T)
<1>1. \A i : Recorded(i, c.op) = i
  BY DEF Recorded
<1>2. \A l \in Lists : ListEffect(c, T.lists, T.lists, l)
  BY <1>1 DEF ListEffect
<1>3. TableEffect(c, T.registered, T.registered,
                  "RegisterCommandList", "UnregisterCommandList")
  BY DEF TableEffect
<1>4. QED BY <1>2, <1>3 DEF ListChanged

(* To create or destroy a list leaves it fresh.                            *)
LEMMA ListFresh ==
  ASSUME NEW T \in TablesType, NEW c, c.list \in Lists,
         c.op \in {"RegisterCommandList", "UnregisterCommandList"},
         NEW R \in SUBSET Lists,
         TableEffect(c, T.registered, R,
                     "RegisterCommandList", "UnregisterCommandList"),
         NEW T2,
         T2 = [[T EXCEPT !.lists[c.list] = FreshInfo] EXCEPT !.registered = R]
  PROVE  ListChanged(c, T, T2) /\ Recorded(T.lists[c.list], c.op) = FreshInfo
<1>1. FreshInfo \in InfoType
  BY DEF FreshInfo, InfoType, States
<1>2. /\ T2.buffers = T.buffers /\ T2.bufferMapped = T.bufferMapped
      /\ T2.textures = T.textures /\ T2.views = T.views /\ T2.pipelines = T.pipelines
      /\ T2.viewHandles = T.viewHandles /\ T2.registered = R
      /\ T2.lists = [T.lists EXCEPT ![c.list] = FreshInfo] /\ T2 \in TablesType
  BY <1>1 DEF TablesType
<1>3. \A l \in Lists : T2.lists[l] = IF l = c.list THEN FreshInfo ELSE T.lists[l]
  BY <1>2 DEF TablesType
<1>4. Recorded(T.lists[c.list], c.op) = FreshInfo
  BY DEF Recorded
<1>5. \A l \in Lists : ListEffect(c, T.lists, T2.lists, l)
  BY <1>3, <1>4 DEF ListEffect, RecordOps, ListOps, DrawOps
<1>6. QED BY <1>2, <1>4, <1>5 DEF ListChanged

(* A list is registered, fresh.                                            *)
LEMMA RegisterCommandListIInv ==
  ASSUME IInv, NEW t \in Threads, t \notin thrown, RegisterCommandList(t)
  PROVE  IInv'
<1> PICK c : c = at[t]
  OBVIOUS
<1> PICK R : R = tables.registered \cup {c.list}
  OBVIOUS
<1>up. PICK upd : upd = [[tables EXCEPT !.lists[c.list] = FreshInfo]
                           EXCEPT !.registered = R]
  OBVIOUS
<1>1. Locked(t, "RegisterCommandList", <<>>, upd)
  <2>1. [WithInfo(t, FreshInfo) EXCEPT !.registered = @ \cup {c.list}] = upd
    BY <1>up DEF WithInfo
  <2>2. QED BY <2>1 DEF RegisterCommandList
<1>2. c.op = "RegisterCommandList" /\ c # Idle
  BY <1>1 DEF Locked, Idle
<1>3. /\ Shape(t, c) /\ c.list \in Lists /\ tables \in TablesType
      /\ SoundTables(tables) /\ "COMMAND_LIST" \in enabled
      /\ c.op \in RecordOps /\ Thing(c) = c.list
  BY <1>2, ListInfo, ListShape, GateIs, TablesSound
     DEF RecordOps, IInv, CallsWellFormed
<1>4. <<>> \in Seq(CheckType) /\ Among(<<>>) = {}
  BY Tuple0
<1>5. R \in SUBSET Lists
      /\ TableEffect(c, tables.registered, R,
                     "RegisterCommandList", "UnregisterCommandList")
  BY <1>2, <1>3 DEF TableEffect, TablesType
<1>6. ListChanged(c, tables, upd) /\ Recorded(tables.lists[c.list], c.op) = FreshInfo
  BY <1>2, <1>3, <1>5, <1>up, ListFresh
<1>7. SoundTables(upd) /\ Effects(c, tables, upd)
      /\ upd.viewHandles = tables.viewHandles
  <2>1. SoundInfo(FreshInfo)
    BY DEF SoundInfo, FreshInfo
  <2>2. QED BY <1>2, <1>3, <1>6, <2>1, ListSound, ListEffects DEF ListChanged
<1>8. ~ SomeReport(<<>>) /\ ~ SomeStop(<<>>)
  BY <1>4 DEF SomeReport, SomeStop
<1>9. Seems(c)
  BY <1>2 DEF Seems, InOrder, Tested, Creating, ArgumentOps, DrawOps, DescOps
<1>10. QED
  BY <1>1, <1>4, <1>7, <1>8, <1>9, LockedIInv

(* It is forgotten, and was outside any render pass.                       *)
LEMMA UnregisterCommandListIInv ==
  ASSUME IInv, NEW t \in Threads, t \notin thrown, UnregisterCommandList(t)
  PROVE  IInv'
<1> PICK c : c = at[t]
  OBVIOUS
<1>i. PICK i : i = Info(t)
  OBVIOUS
<1>k1. PICK k1 : k1 = Unknown(t)
  OBVIOUS
<1>k2. PICK k2 : k2 = Check(i.inPass \/ i.inRendering, "COMMAND_LIST", FALSE)
  OBVIOUS
<1> PICK R : R = tables.registered \ {c.list}
  OBVIOUS
<1>up. PICK upd : upd = [[tables EXCEPT !.lists[c.list] = FreshInfo]
                           EXCEPT !.registered = R]
  OBVIOUS
<1>1. Locked(t, "UnregisterCommandList", <<k1, k2>>, upd)
  <2>1. [WithInfo(t, FreshInfo) EXCEPT !.registered = @ \ {c.list}] = upd
    BY <1>up DEF WithInfo
  <2>2. QED BY <1>i, <1>k1, <1>k2, <2>1 DEF UnregisterCommandList
<1>2. c.op = "UnregisterCommandList" /\ c # Idle /\ c.op \in RecordOps
  BY <1>1 DEF Locked, Idle, RecordOps, ListOps, DrawOps
<1>3. /\ Shape(t, c) /\ c.list \in Lists /\ tables \in TablesType
      /\ i = tables.lists[c.list] /\ i \in InfoType /\ Thing(c) = c.list
  BY <1>2, <1>i, ListInfo, ListShape
<1>4. R \in SUBSET Lists
      /\ TableEffect(c, tables.registered, R,
                     "RegisterCommandList", "UnregisterCommandList")
  BY <1>2, <1>3 DEF TableEffect, TablesType
<1>5. ListChanged(c, tables, upd) /\ Recorded(i, "UnregisterCommandList") = FreshInfo
  BY <1>2, <1>3, <1>4, <1>up, ListFresh
<1>6. k1 \in CheckType
  BY <1>k1 DEF Unknown, Check, CheckType, Categories
<1>7. k2 \in CheckType /\ (k2 # Passed <=> i.inPass \/ i.inRendering)
  BY <1>k2 DEF Check, CheckType, Passed, Categories
<1>8. /\ <<k1, k2>> \in Seq(CheckType)
      /\ Among(<<k1, k2>>) = {k1, k2} /\ <<k1, k2>>[1] = k1
  BY <1>6, <1>7, Tuple2
<1>9. SoundInfo(FreshInfo)
  BY DEF SoundInfo, FreshInfo
<1>10. ASSUME NEW old \in InfoType, Match(i, old), Rule(old, "UnregisterCommandList")
       PROVE  k2 = Passed
  BY <1>3, <1>7, <1>10 DEF Match, Rule, InfoType
<1>11. AllOn /\ t = mistaken /\ AllPassed(<<k1, k2>>)
         /\ HandlesPassed(c) /\ Match(i, rec[c.list]) /\ Alive(c.list) => Seems(c)
  <2> SUFFICES ASSUME AllOn, t = mistaken, k1 = Passed, k2 = Passed,
                      Match(i, rec[c.list]), Alive(c.list)
               PROVE  Seems(c)
    BY <1>8 DEF AllPassed
  <2>1. QED
    BY <1>2, <1>3, <1>7 DEF Seems, InOrder, Tested, Inside, Match, Categories,
                            ArgumentOps, DrawOps, DescOps, AllOn
<1>12. ListOp(t, "UnregisterCommandList", <<k1, k2>>, upd)
  BY <1>i, <1>k1, <1>1, <1>2, <1>5, <1>8, <1>9, <1>10, <1>11 DEF ListOp
<1>13. QED BY <1>12, ListOpIInv

(* A list is begun that is neither recording nor submitted.                *)
LEMMA OnCommandListBeginIInv ==
  ASSUME IInv, NEW t \in Threads, t \notin thrown, OnCommandListBegin(t)
  PROVE  IInv'
<1> PICK c : c = at[t]
  OBVIOUS
<1>i. PICK i : i = Info(t)
  OBVIOUS
<1>k1. PICK k1 : k1 = Unknown(t)
  OBVIOUS
<1>k2. PICK k2 : k2 = Check(i.state = "RECORDING", "STATE", TRUE)
  OBVIOUS
<1>k3. PICK k3 : k3 = Check(i.state = "SUBMITTED", "STATE", TRUE)
  OBVIOUS
<1>j. PICK j : j = [FreshInfo EXCEPT !.state = "RECORDING"]
  OBVIOUS
<1>up. PICK upd : upd = [tables EXCEPT !.lists[c.list] = j]
  OBVIOUS
<1>1. Locked(t, "OnCommandListBegin", <<k1, k2, k3>>, upd)
  BY <1>i, <1>k1, <1>k2, <1>k3, <1>j, <1>up
     DEF OnCommandListBegin, Info, WithInfo
<1>2. c.op = "OnCommandListBegin" /\ c # Idle /\ c.handles = <<>>
  BY <1>1 DEF Locked, Idle
<1>3. /\ Shape(t, c) /\ c.list \in Lists /\ tables \in TablesType
      /\ i = tables.lists[c.list] /\ i \in InfoType
  BY <1>2, <1>i, ListInfo DEF RecordOps, ListOps, DrawOps, SetBufferOps
<1>4. j = Recorded(i, "OnCommandListBegin")
  BY <1>j DEF Recorded
<1>5. ListChanged(c, tables, upd)
  BY <1>2, <1>3, <1>4, <1>up, ListUpdated DEF RecordOps, ListOps, DrawOps,
       SetBufferOps
<1>6. k1 \in CheckType
  BY <1>k1 DEF Unknown, Check, CheckType, Categories
<1>7. /\ k2 \in CheckType /\ (k2 # Passed <=> i.state = "RECORDING")
      /\ k2 # Passed => k2.category = "STATE" /\ k2.stops
  BY <1>k2 DEF Check, CheckType, Passed, Categories
<1>8. /\ k3 \in CheckType /\ (k3 # Passed <=> i.state = "SUBMITTED")
      /\ k3 # Passed => k3.category = "STATE" /\ k3.stops
  BY <1>k3 DEF Check, CheckType, Passed, Categories
<1>9. /\ <<k1, k2, k3>> \in Seq(CheckType)
      /\ Among(<<k1, k2, k3>>) = {k1, k2, k3} /\ <<k1, k2, k3>>[1] = k1
  BY <1>6, <1>7, <1>8, Tuple3
<1>10. NoneSeen(<<k1, k2, k3>>) /\ SoundInfo(i) => SoundInfo(j)
  BY <1>3, <1>j, <1>9, <1>7, <1>8
     DEF NoneSeen, SoundInfo, FreshInfo, InfoType
<1>11. ASSUME NEW old \in InfoType, t # mistaken, "COMMAND_LIST" \in enabled,
              Gate["OnCommandListBegin"] \in enabled, Match(i, old),
              Rule(old, "OnCommandListBegin")
       PROVE  \A x \in Among(<<k1, k2, k3>>) : x # Passed /\ x # k1 =>
                x.category \notin enabled /\ ~ x.stops
  BY <1>11, <1>3, <1>9, <1>7, <1>8, GateIs
     DEF Match, Rule, InfoType, SetBufferOps
<1>12. AllOn /\ t = mistaken /\ AllPassed(<<k1, k2, k3>>)
         /\ HandlesPassed(c) /\ Match(i, rec[c.list]) /\ Alive(c.list) => Seems(c)
  <2> SUFFICES ASSUME AllOn, t = mistaken, k1 = Passed, k2 = Passed,
                      k3 = Passed, HandlesPassed(c),
                      Match(i, rec[c.list]), Alive(c.list)
               PROVE  Seems(c)
    BY <1>9 DEF AllPassed
  <2>1. QED
    BY <1>2, <1>3, <1>7, <1>8
       DEF Seems, InOrder, Tested, Recording, Inside, Match, Categories, InfoType,
           States, ArgumentOps, DrawOps, DescOps, AllOn
<1>13. ListOp(t, "OnCommandListBegin", <<k1, k2, k3>>, upd)
  BY <1>i, <1>k1, <1>1, <1>4, <1>5, <1>9, <1>10, <1>11, <1>12
     DEF ListOp, RecordOps, ListOps, DrawOps, SetBufferOps
<1>14. QED BY <1>13, ListOpIInv

(* It is ended while it records, outside any render pass.                  *)
LEMMA OnCommandListEndIInv ==
  ASSUME IInv, NEW t \in Threads, t \notin thrown, OnCommandListEnd(t)
  PROVE  IInv'
<1> PICK c : c = at[t]
  OBVIOUS
<1>i. PICK i : i = Info(t)
  OBVIOUS
<1>k1. PICK k1 : k1 = Unknown(t)
  OBVIOUS
<1>k2. PICK k2 : k2 = Check(i.state # "RECORDING", "STATE", TRUE)
  OBVIOUS
<1>k3. PICK k3 : k3 = Check(i.inPass, "RENDER_PASS", FALSE)
  OBVIOUS
<1>k4. PICK k4 : k4 = Check(i.inRendering, "RENDER_PASS", FALSE)
  OBVIOUS
<1>j. PICK j : j = [i EXCEPT !.state = "EXECUTABLE"]
  OBVIOUS
<1>up. PICK upd : upd = [tables EXCEPT !.lists[c.list] = j]
  OBVIOUS
<1>1. Locked(t, "OnCommandListEnd", <<k1, k2, k3, k4>>, upd)
  BY <1>i, <1>k1, <1>k2, <1>k3, <1>k4, <1>j, <1>up
     DEF OnCommandListEnd, Info, NotRecording, WithInfo
<1>2. c.op = "OnCommandListEnd" /\ c # Idle /\ c.handles = <<>>
  BY <1>1 DEF Locked, Idle
<1>3. /\ Shape(t, c) /\ c.list \in Lists /\ tables \in TablesType
      /\ i = tables.lists[c.list] /\ i \in InfoType
  BY <1>2, <1>i, ListInfo DEF RecordOps, ListOps, DrawOps, SetBufferOps
<1>4. j = Recorded(i, "OnCommandListEnd")
  BY <1>j DEF Recorded
<1>5. ListChanged(c, tables, upd)
  BY <1>2, <1>3, <1>4, <1>up, ListUpdated DEF RecordOps, ListOps, DrawOps,
       SetBufferOps
<1>6. k1 \in CheckType
  BY <1>k1 DEF Unknown, Check, CheckType, Categories
<1>7. /\ k2 \in CheckType /\ (k2 # Passed <=> i.state # "RECORDING")
      /\ k2 # Passed => k2.category = "STATE" /\ k2.stops
  BY <1>k2 DEF Check, CheckType, Passed, Categories
<1>8. /\ k3 \in CheckType /\ (k3 # Passed <=> i.inPass)
      /\ k3 # Passed => k3.category = "RENDER_PASS" /\ ~ k3.stops
  BY <1>k3 DEF Check, CheckType, Passed, Categories
<1>9. /\ k4 \in CheckType /\ (k4 # Passed <=> i.inRendering)
      /\ k4 # Passed => k4.category = "RENDER_PASS" /\ ~ k4.stops
  BY <1>k4 DEF Check, CheckType, Passed, Categories
<1>10. /\ <<k1, k2, k3, k4>> \in Seq(CheckType)
       /\ Among(<<k1, k2, k3, k4>>) = {k1, k2, k3, k4} /\ <<k1, k2, k3, k4>>[1] = k1
  BY <1>6, <1>7, <1>8, <1>9, Tuple4
<1>11. NoneSeen(<<k1, k2, k3, k4>>) /\ SoundInfo(i) => SoundInfo(j)
  BY <1>3, <1>j, <1>10, <1>7, <1>8, <1>9
     DEF NoneSeen, SoundInfo, FreshInfo, InfoType
<1>12. ASSUME NEW old \in InfoType, t # mistaken, "COMMAND_LIST" \in enabled,
              Gate["OnCommandListEnd"] \in enabled, Match(i, old),
              Rule(old, "OnCommandListEnd")
       PROVE  \A x \in Among(<<k1, k2, k3, k4>>) : x # Passed /\ x # k1 =>
                x.category \notin enabled /\ ~ x.stops
  BY <1>12, <1>3, <1>10, <1>7, <1>8, <1>9, GateIs
     DEF Match, Rule, InfoType, SetBufferOps
<1>13. AllOn /\ t = mistaken /\ AllPassed(<<k1, k2, k3, k4>>)
         /\ HandlesPassed(c) /\ Match(i, rec[c.list]) /\ Alive(c.list) => Seems(c)
  <2> SUFFICES ASSUME AllOn, t = mistaken, k1 = Passed, k2 = Passed,
                      k3 = Passed, k4 = Passed, HandlesPassed(c),
                      Match(i, rec[c.list]), Alive(c.list)
               PROVE  Seems(c)
    BY <1>10 DEF AllPassed
  <2>1. QED
    BY <1>2, <1>3, <1>7, <1>8, <1>9
       DEF Seems, InOrder, Tested, Recording, Inside, Match, Categories, InfoType,
           States, ArgumentOps, DrawOps, DescOps, AllOn
<1>14. ListOp(t, "OnCommandListEnd", <<k1, k2, k3, k4>>, upd)
  BY <1>i, <1>k1, <1>1, <1>4, <1>5, <1>10, <1>11, <1>12, <1>13
     DEF ListOp, RecordOps, ListOps, DrawOps, SetBufferOps
<1>15. QED BY <1>14, ListOpIInv

(* It is submitted once it is executable.                                  *)
LEMMA OnCommandListSubmitIInv ==
  ASSUME IInv, NEW t \in Threads, t \notin thrown, OnCommandListSubmit(t)
  PROVE  IInv'
<1> PICK c : c = at[t]
  OBVIOUS
<1>i. PICK i : i = Info(t)
  OBVIOUS
<1>k1. PICK k1 : k1 = Unknown(t)
  OBVIOUS
<1>k2. PICK k2 : k2 = Check(i.state # "EXECUTABLE", "STATE", TRUE)
  OBVIOUS
<1>j. PICK j : j = [i EXCEPT !.state = "SUBMITTED"]
  OBVIOUS
<1>up. PICK upd : upd = [tables EXCEPT !.lists[c.list] = j]
  OBVIOUS
<1>1. Locked(t, "OnCommandListSubmit", <<k1, k2>>, upd)
  BY <1>i, <1>k1, <1>k2, <1>j, <1>up
     DEF OnCommandListSubmit, Info, WithInfo
<1>2. c.op = "OnCommandListSubmit" /\ c # Idle /\ c.handles = <<>>
  BY <1>1 DEF Locked, Idle
<1>3. /\ Shape(t, c) /\ c.list \in Lists /\ tables \in TablesType
      /\ i = tables.lists[c.list] /\ i \in InfoType
  BY <1>2, <1>i, ListInfo DEF RecordOps, ListOps, DrawOps, SetBufferOps
<1>4. j = Recorded(i, "OnCommandListSubmit")
  BY <1>j DEF Recorded
<1>5. ListChanged(c, tables, upd)
  BY <1>2, <1>3, <1>4, <1>up, ListUpdated DEF RecordOps, ListOps, DrawOps,
       SetBufferOps
<1>6. k1 \in CheckType
  BY <1>k1 DEF Unknown, Check, CheckType, Categories
<1>7. /\ k2 \in CheckType /\ (k2 # Passed <=> i.state # "EXECUTABLE")
      /\ k2 # Passed => k2.category = "STATE" /\ k2.stops
  BY <1>k2 DEF Check, CheckType, Passed, Categories
<1>8. /\ <<k1, k2>> \in Seq(CheckType)
      /\ Among(<<k1, k2>>) = {k1, k2} /\ <<k1, k2>>[1] = k1
  BY <1>6, <1>7, Tuple2
<1>9. NoneSeen(<<k1, k2>>) /\ SoundInfo(i) => SoundInfo(j)
  BY <1>3, <1>j, <1>8, <1>7
     DEF NoneSeen, SoundInfo, FreshInfo, InfoType
<1>10. ASSUME NEW old \in InfoType, t # mistaken, "COMMAND_LIST" \in enabled,
              Gate["OnCommandListSubmit"] \in enabled, Match(i, old),
              Rule(old, "OnCommandListSubmit")
       PROVE  \A x \in Among(<<k1, k2>>) : x # Passed /\ x # k1 =>
                x.category \notin enabled /\ ~ x.stops
  BY <1>10, <1>3, <1>8, <1>7, GateIs
     DEF Match, Rule, InfoType, SetBufferOps
<1>11. AllOn /\ t = mistaken /\ AllPassed(<<k1, k2>>)
         /\ HandlesPassed(c) /\ Match(i, rec[c.list]) /\ Alive(c.list) => Seems(c)
  <2> SUFFICES ASSUME AllOn, t = mistaken, k1 = Passed, k2 = Passed,
                      HandlesPassed(c), Match(i, rec[c.list]),
                      Alive(c.list)
               PROVE  Seems(c)
    BY <1>8 DEF AllPassed
  <2>1. QED
    BY <1>2, <1>3, <1>7
       DEF Seems, InOrder, Tested, Recording, Inside, Match, Categories, InfoType,
           States, ArgumentOps, DrawOps, DescOps, AllOn
<1>12. ListOp(t, "OnCommandListSubmit", <<k1, k2>>, upd)
  BY <1>i, <1>k1, <1>1, <1>4, <1>5, <1>8, <1>9, <1>10, <1>11
     DEF ListOp, RecordOps, ListOps, DrawOps, SetBufferOps
<1>13. QED BY <1>12, ListOpIInv

(* A reset needs nothing but the list.                                     *)
LEMMA OnCommandListResetIInv ==
  ASSUME IInv, NEW t \in Threads, t \notin thrown, OnCommandListReset(t)
  PROVE  IInv'
<1> PICK c : c = at[t]
  OBVIOUS
<1>i. PICK i : i = Info(t)
  OBVIOUS
<1>k1. PICK k1 : k1 = Unknown(t)
  OBVIOUS
<1>j. PICK j : j = FreshInfo
  OBVIOUS
<1>up. PICK upd : upd = [tables EXCEPT !.lists[c.list] = j]
  OBVIOUS
<1>1. Locked(t, "OnCommandListReset", <<k1>>, upd)
  BY <1>i, <1>k1, <1>j, <1>up
     DEF OnCommandListReset, Info, WithInfo
<1>2. c.op = "OnCommandListReset" /\ c # Idle /\ c.handles = <<>>
  BY <1>1 DEF Locked, Idle
<1>3. /\ Shape(t, c) /\ c.list \in Lists /\ tables \in TablesType
      /\ i = tables.lists[c.list] /\ i \in InfoType
  BY <1>2, <1>i, ListInfo DEF RecordOps, ListOps, DrawOps, SetBufferOps
<1>4. j = Recorded(i, "OnCommandListReset")
  BY <1>j DEF Recorded
<1>5. ListChanged(c, tables, upd)
  BY <1>2, <1>3, <1>4, <1>up, ListUpdated DEF RecordOps, ListOps, DrawOps,
       SetBufferOps
<1>6. k1 \in CheckType
  BY <1>k1 DEF Unknown, Check, CheckType, Categories
<1>7. /\ <<k1>> \in Seq(CheckType)
      /\ Among(<<k1>>) = {k1} /\ <<k1>>[1] = k1
  BY <1>6, Tuple1
<1>8. NoneSeen(<<k1>>) /\ SoundInfo(i) => SoundInfo(j)
  BY <1>3, <1>j, <1>7
     DEF NoneSeen, SoundInfo, FreshInfo, InfoType
<1>9. ASSUME NEW old \in InfoType, t # mistaken, "COMMAND_LIST" \in enabled,
             Gate["OnCommandListReset"] \in enabled, Match(i, old),
             Rule(old, "OnCommandListReset")
      PROVE  \A x \in Among(<<k1>>) : x # Passed /\ x # k1 =>
               x.category \notin enabled /\ ~ x.stops
  BY <1>9, <1>3, <1>7, GateIs
     DEF Match, Rule, InfoType, SetBufferOps
<1>10. AllOn /\ t = mistaken /\ AllPassed(<<k1>>)
         /\ HandlesPassed(c) /\ Match(i, rec[c.list]) /\ Alive(c.list) => Seems(c)
  <2> SUFFICES ASSUME AllOn, t = mistaken, k1 = Passed, HandlesPassed(c),
                      Match(i, rec[c.list]), Alive(c.list)
               PROVE  Seems(c)
    BY <1>7 DEF AllPassed
  <2>1. QED
    BY <1>2, <1>3
       DEF Seems, InOrder, Tested, Recording, Inside, Match, Categories, InfoType,
           States, ArgumentOps, DrawOps, DescOps, AllOn
<1>11. ListOp(t, "OnCommandListReset", <<k1>>, upd)
  BY <1>i, <1>k1, <1>1, <1>4, <1>5, <1>7, <1>8, <1>9, <1>10
     DEF ListOp, RecordOps, ListOps, DrawOps, SetBufferOps
<1>12. QED BY <1>11, ListOpIInv

(* A draw needs a pass, a pipeline and vertices.                           *)
LEMMA ValidateDrawCallIInv ==
  ASSUME IInv, NEW t \in Threads, t \notin thrown, ValidateDrawCall(t)
  PROVE  IInv'
<1> PICK c : c = at[t]
  OBVIOUS
<1>i. PICK i : i = Info(t)
  OBVIOUS
<1>k1. PICK k1 : k1 = Unknown(t)
  OBVIOUS
<1>k2. PICK k2 : k2 = Check(i.state # "RECORDING", "STATE", TRUE)
  OBVIOUS
<1>k3. PICK k3 : k3 = Check(~ i.inPass /\ ~ i.inRendering, "RENDER_PASS", FALSE)
  OBVIOUS
<1>k4. PICK k4 : k4 = Check(~ i.pipeline, "PIPELINE", FALSE)
  OBVIOUS
<1>k5. PICK k5 : k5 = Check(~ i.vertex, "STATE", FALSE)
  OBVIOUS
<1>k6. PICK k6 : k6 = Check(c.args[1] = 0, "COMMAND_LIST", FALSE)
  OBVIOUS
<1>k7. PICK k7 : k7 = Check(c.args[2] = 0, "COMMAND_LIST", FALSE)
  OBVIOUS
<1>1. Locked(t, "ValidateDrawCall", <<k1, k2, k3, k4, k5, k6, k7>>, tables)
  BY <1>i, <1>k1, <1>k2, <1>k3, <1>k4, <1>k5, <1>k6, <1>k7
     DEF ValidateDrawCall, Info, NotRecording
<1>2. c.op = "ValidateDrawCall" /\ c # Idle /\ c.handles = <<>>
  BY <1>1 DEF Locked, Idle
<1>3. /\ Shape(t, c) /\ c.list \in Lists /\ tables \in TablesType
      /\ i = tables.lists[c.list] /\ i \in InfoType
  BY <1>2, <1>i, ListInfo DEF RecordOps, ListOps, DrawOps, SetBufferOps
<1>4. i = Recorded(i, "ValidateDrawCall")
  BY DEF Recorded
<1>5. ListChanged(c, tables, tables)
  BY <1>2, <1>3, ListUnchanged
<1>6. k1 \in CheckType
  BY <1>k1 DEF Unknown, Check, CheckType, Categories
<1>7. /\ k2 \in CheckType /\ (k2 # Passed <=> i.state # "RECORDING")
      /\ k2 # Passed => k2.category = "STATE" /\ k2.stops
  BY <1>k2 DEF Check, CheckType, Passed, Categories
<1>8. /\ k3 \in CheckType /\ (k3 # Passed <=> (~ i.inPass /\ ~ i.inRendering))
      /\ k3 # Passed => k3.category = "RENDER_PASS" /\ ~ k3.stops
  BY <1>k3 DEF Check, CheckType, Passed, Categories
<1>9. /\ k4 \in CheckType /\ (k4 # Passed <=> ~ i.pipeline)
      /\ k4 # Passed => k4.category = "PIPELINE" /\ ~ k4.stops
  BY <1>k4 DEF Check, CheckType, Passed, Categories
<1>10. /\ k5 \in CheckType /\ (k5 # Passed <=> ~ i.vertex)
       /\ k5 # Passed => k5.category = "STATE" /\ ~ k5.stops
  BY <1>k5 DEF Check, CheckType, Passed, Categories
<1>11. /\ k6 \in CheckType /\ (k6 # Passed <=> c.args[1] = 0)
       /\ k6 # Passed => k6.category = "COMMAND_LIST" /\ ~ k6.stops
  BY <1>k6 DEF Check, CheckType, Passed, Categories
<1>12. /\ k7 \in CheckType /\ (k7 # Passed <=> c.args[2] = 0)
       /\ k7 # Passed => k7.category = "COMMAND_LIST" /\ ~ k7.stops
  BY <1>k7 DEF Check, CheckType, Passed, Categories
<1>13. <<k1, k2, k3, k4, k5, k6, k7>> \in Seq(CheckType)
  BY <1>6, <1>7, <1>8, <1>9, <1>10, <1>11, <1>12
<1>14. Among(<<k1, k2, k3, k4, k5, k6, k7>>) = {k1, k2, k3, k4, k5, k6, k7}
      /\ <<k1, k2, k3, k4, k5, k6, k7>>[1] = k1
  BY Tuple7
<1>15. t # mistaken => c.args[1] # 0 /\ c.args[2] # 0
  BY <1>2 DEF IInv, FactsHold, CallFacts, Tested, DrawOps
<1>16. ASSUME NEW old \in InfoType, t # mistaken, "COMMAND_LIST" \in enabled,
              Gate["ValidateDrawCall"] \in enabled, Match(i, old),
              Rule(old, "ValidateDrawCall")
       PROVE  \A x \in Among(<<k1, k2, k3, k4, k5, k6, k7>>) : x # Passed /\ x # k1 =>
                x.category \notin enabled /\ ~ x.stops
  <2>1. k2 # Passed => k2.category \notin enabled /\ ~ k2.stops
    BY <1>16, <1>3, <1>7
       DEF Match, Rule, InfoType
  <2>2. k3 # Passed => k3.category \notin enabled /\ ~ k3.stops
    BY <1>16, <1>3, <1>8, GateIs
       DEF Match, Rule, InfoType
  <2>3. k4 # Passed => k4.category \notin enabled /\ ~ k4.stops
    BY <1>16, <1>3, <1>9
       DEF Match, Rule, InfoType
  <2>4. k5 # Passed => k5.category \notin enabled /\ ~ k5.stops
    BY <1>16, <1>3, <1>10
       DEF Match, Rule, InfoType
  <2>5. k6 # Passed => k6.category \notin enabled /\ ~ k6.stops
    BY <1>16, <1>3, <1>11, <1>15
       DEF Match, Rule, InfoType
  <2>6. k7 # Passed => k7.category \notin enabled /\ ~ k7.stops
    BY <1>16, <1>3, <1>12, <1>15
       DEF Match, Rule, InfoType
  <2>7. QED BY <2>1, <2>2, <2>3, <2>4, <2>5, <2>6, <1>14
<1>17. AllOn /\ t = mistaken /\ AllPassed(<<k1, k2, k3, k4, k5, k6, k7>>)
         /\ HandlesPassed(c) /\ Match(i, rec[c.list]) /\ Alive(c.list) => Seems(c)
  <2> SUFFICES ASSUME AllOn, t = mistaken, k1 = Passed, k2 = Passed,
                      k3 = Passed, k4 = Passed, k5 = Passed,
                      k6 = Passed, k7 = Passed, HandlesPassed(c),
                      Match(i, rec[c.list]), Alive(c.list)
               PROVE  Seems(c)
    BY <1>14 DEF AllPassed
  <2>1. /\ i.state = "RECORDING" /\ (i.inPass \/ i.inRendering) /\ i.pipeline /\ i.vertex
        /\ c.args[1] # 0 /\ c.args[2] # 0
    BY <1>3, <1>7, <1>8, <1>9, <1>10, <1>11, <1>12 DEF InfoType
  <2>2. QED
    BY <1>2, <1>3, <2>1
       DEF Seems, InOrder, Tested, Recording, Inside, Match, Categories, InfoType,
           ArgumentOps, DrawOps, DescOps, AllOn
<1>18. ListOp(t, "ValidateDrawCall", <<k1, k2, k3, k4, k5, k6, k7>>, tables)
  BY <1>i, <1>k1, <1>1, <1>4, <1>5, <1>13, <1>14, <1>16, <1>17
     DEF ListOp, RecordOps, ListOps, DrawOps, SetBufferOps
<1>19. QED BY <1>18, ListOpIInv

(* An indexed draw needs an index buffer as well.                          *)
LEMMA ValidateDrawIndexedIInv ==
  ASSUME IInv, NEW t \in Threads, t \notin thrown, ValidateDrawIndexed(t)
  PROVE  IInv'
<1> PICK c : c = at[t]
  OBVIOUS
<1>i. PICK i : i = Info(t)
  OBVIOUS
<1>k1. PICK k1 : k1 = Unknown(t)
  OBVIOUS
<1>k2. PICK k2 : k2 = Check(i.state # "RECORDING", "STATE", TRUE)
  OBVIOUS
<1>k3. PICK k3 : k3 = Check(~ i.inPass /\ ~ i.inRendering, "RENDER_PASS", FALSE)
  OBVIOUS
<1>k4. PICK k4 : k4 = Check(~ i.pipeline, "PIPELINE", FALSE)
  OBVIOUS
<1>k5. PICK k5 : k5 = Check(~ i.index, "STATE", FALSE)
  OBVIOUS
<1>k6. PICK k6 : k6 = Check(~ i.vertex, "STATE", FALSE)
  OBVIOUS
<1>k7. PICK k7 : k7 = Check(c.args[1] = 0, "COMMAND_LIST", FALSE)
  OBVIOUS
<1>1. Locked(t, "ValidateDrawIndexed", <<k1, k2, k3, k4, k5, k6, k7>>, tables)
  BY <1>i, <1>k1, <1>k2, <1>k3, <1>k4, <1>k5, <1>k6, <1>k7
     DEF ValidateDrawIndexed, Info, NotRecording
<1>2. c.op = "ValidateDrawIndexed" /\ c # Idle /\ c.handles = <<>>
  BY <1>1 DEF Locked, Idle
<1>3. /\ Shape(t, c) /\ c.list \in Lists /\ tables \in TablesType
      /\ i = tables.lists[c.list] /\ i \in InfoType
  BY <1>2, <1>i, ListInfo DEF RecordOps, ListOps, DrawOps, SetBufferOps
<1>4. i = Recorded(i, "ValidateDrawIndexed")
  BY DEF Recorded
<1>5. ListChanged(c, tables, tables)
  BY <1>2, <1>3, ListUnchanged
<1>6. k1 \in CheckType
  BY <1>k1 DEF Unknown, Check, CheckType, Categories
<1>7. /\ k2 \in CheckType /\ (k2 # Passed <=> i.state # "RECORDING")
      /\ k2 # Passed => k2.category = "STATE" /\ k2.stops
  BY <1>k2 DEF Check, CheckType, Passed, Categories
<1>8. /\ k3 \in CheckType /\ (k3 # Passed <=> (~ i.inPass /\ ~ i.inRendering))
      /\ k3 # Passed => k3.category = "RENDER_PASS" /\ ~ k3.stops
  BY <1>k3 DEF Check, CheckType, Passed, Categories
<1>9. /\ k4 \in CheckType /\ (k4 # Passed <=> ~ i.pipeline)
      /\ k4 # Passed => k4.category = "PIPELINE" /\ ~ k4.stops
  BY <1>k4 DEF Check, CheckType, Passed, Categories
<1>10. /\ k5 \in CheckType /\ (k5 # Passed <=> ~ i.index)
       /\ k5 # Passed => k5.category = "STATE" /\ ~ k5.stops
  BY <1>k5 DEF Check, CheckType, Passed, Categories
<1>11. /\ k6 \in CheckType /\ (k6 # Passed <=> ~ i.vertex)
       /\ k6 # Passed => k6.category = "STATE" /\ ~ k6.stops
  BY <1>k6 DEF Check, CheckType, Passed, Categories
<1>12. /\ k7 \in CheckType /\ (k7 # Passed <=> c.args[1] = 0)
       /\ k7 # Passed => k7.category = "COMMAND_LIST" /\ ~ k7.stops
  BY <1>k7 DEF Check, CheckType, Passed, Categories
<1>13. <<k1, k2, k3, k4, k5, k6, k7>> \in Seq(CheckType)
  BY <1>6, <1>7, <1>8, <1>9, <1>10, <1>11, <1>12
<1>14. Among(<<k1, k2, k3, k4, k5, k6, k7>>) = {k1, k2, k3, k4, k5, k6, k7}
      /\ <<k1, k2, k3, k4, k5, k6, k7>>[1] = k1
  BY Tuple7
<1>15. t # mistaken => c.args[1] # 0
  BY <1>2 DEF IInv, FactsHold, CallFacts, Tested, DrawOps
<1>16. ASSUME NEW old \in InfoType, t # mistaken, "COMMAND_LIST" \in enabled,
              Gate["ValidateDrawIndexed"] \in enabled, Match(i, old),
              Rule(old, "ValidateDrawIndexed")
       PROVE  \A x \in Among(<<k1, k2, k3, k4, k5, k6, k7>>) : x # Passed /\ x # k1 =>
                x.category \notin enabled /\ ~ x.stops
  <2>1. k2 # Passed => k2.category \notin enabled /\ ~ k2.stops
    BY <1>16, <1>3, <1>7
       DEF Match, Rule, InfoType
  <2>2. k3 # Passed => k3.category \notin enabled /\ ~ k3.stops
    BY <1>16, <1>3, <1>8, GateIs
       DEF Match, Rule, InfoType
  <2>3. k4 # Passed => k4.category \notin enabled /\ ~ k4.stops
    BY <1>16, <1>3, <1>9
       DEF Match, Rule, InfoType
  <2>4. k5 # Passed => k5.category \notin enabled /\ ~ k5.stops
    BY <1>16, <1>3, <1>10
       DEF Match, Rule, InfoType
  <2>5. k6 # Passed => k6.category \notin enabled /\ ~ k6.stops
    BY <1>16, <1>3, <1>11
       DEF Match, Rule, InfoType
  <2>6. k7 # Passed => k7.category \notin enabled /\ ~ k7.stops
    BY <1>16, <1>3, <1>12, <1>15
       DEF Match, Rule, InfoType
  <2>7. QED BY <2>1, <2>2, <2>3, <2>4, <2>5, <2>6, <1>14
<1>17. AllOn /\ t = mistaken /\ AllPassed(<<k1, k2, k3, k4, k5, k6, k7>>)
         /\ HandlesPassed(c) /\ Match(i, rec[c.list]) /\ Alive(c.list) => Seems(c)
  <2> SUFFICES ASSUME AllOn, t = mistaken, k1 = Passed, k2 = Passed,
                      k3 = Passed, k4 = Passed, k5 = Passed,
                      k6 = Passed, k7 = Passed, HandlesPassed(c),
                      Match(i, rec[c.list]), Alive(c.list)
               PROVE  Seems(c)
    BY <1>14 DEF AllPassed
  <2>1. /\ i.state = "RECORDING" /\ (i.inPass \/ i.inRendering) /\ i.pipeline /\ i.index
        /\ i.vertex /\ c.args[1] # 0
    BY <1>3, <1>7, <1>8, <1>9, <1>10, <1>11, <1>12 DEF InfoType
  <2>2. QED
    BY <1>2, <1>3, <2>1
       DEF Seems, InOrder, Tested, Recording, Inside, Match, Categories, InfoType,
           ArgumentOps, DrawOps, DescOps, AllOn
<1>18. ListOp(t, "ValidateDrawIndexed", <<k1, k2, k3, k4, k5, k6, k7>>, tables)
  BY <1>i, <1>k1, <1>1, <1>4, <1>5, <1>13, <1>14, <1>16, <1>17
     DEF ListOp, RecordOps, ListOps, DrawOps, SetBufferOps
<1>19. QED BY <1>18, ListOpIInv

(* A render pass begins where none is active.                              *)
LEMMA ValidateBeginRenderPassIInv ==
  ASSUME IInv, NEW t \in Threads, t \notin thrown, ValidateBeginRenderPass(t)
  PROVE  IInv'
<1> PICK c : c = at[t]
  OBVIOUS
<1>i. PICK i : i = Info(t)
  OBVIOUS
<1>k1. PICK k1 : k1 = Unknown(t)
  OBVIOUS
<1>k2. PICK k2 : k2 = Check(i.state # "RECORDING", "STATE", TRUE)
  OBVIOUS
<1>k3. PICK k3 : k3 = Check(i.inPass, "RENDER_PASS", TRUE)
  OBVIOUS
<1>k4. PICK k4 : k4 = Check(i.inRendering, "RENDER_PASS", TRUE)
  OBVIOUS
<1>k5. PICK k5 : k5 = Check(~ c.ok, "HANDLE", TRUE)
  OBVIOUS
<1>j. PICK j : j = [i EXCEPT !.inPass = TRUE]
  OBVIOUS
<1>up. PICK upd : upd = [tables EXCEPT !.lists[c.list] = j]
  OBVIOUS
<1>1. Locked(t, "ValidateBeginRenderPass", <<k1, k2, k3, k4, k5>>, upd)
  BY <1>i, <1>k1, <1>k2, <1>k3, <1>k4, <1>k5, <1>j, <1>up
     DEF ValidateBeginRenderPass, Info, NotRecording, WithInfo
<1>2. c.op = "ValidateBeginRenderPass" /\ c # Idle /\ c.handles = <<>>
  BY <1>1 DEF Locked, Idle
<1>3. /\ Shape(t, c) /\ c.list \in Lists /\ tables \in TablesType
      /\ i = tables.lists[c.list] /\ i \in InfoType
  BY <1>2, <1>i, ListInfo DEF RecordOps, ListOps, DrawOps, SetBufferOps
<1>4. j = Recorded(i, "ValidateBeginRenderPass")
  BY <1>j DEF Recorded
<1>5. ListChanged(c, tables, upd)
  BY <1>2, <1>3, <1>4, <1>up, ListUpdated DEF RecordOps, ListOps, DrawOps,
       SetBufferOps
<1>6. k1 \in CheckType
  BY <1>k1 DEF Unknown, Check, CheckType, Categories
<1>7. /\ k2 \in CheckType /\ (k2 # Passed <=> i.state # "RECORDING")
      /\ k2 # Passed => k2.category = "STATE" /\ k2.stops
  BY <1>k2 DEF Check, CheckType, Passed, Categories
<1>8. /\ k3 \in CheckType /\ (k3 # Passed <=> i.inPass)
      /\ k3 # Passed => k3.category = "RENDER_PASS" /\ k3.stops
  BY <1>k3 DEF Check, CheckType, Passed, Categories
<1>9. /\ k4 \in CheckType /\ (k4 # Passed <=> i.inRendering)
      /\ k4 # Passed => k4.category = "RENDER_PASS" /\ k4.stops
  BY <1>k4 DEF Check, CheckType, Passed, Categories
<1>10. /\ k5 \in CheckType /\ (k5 # Passed <=> ~ c.ok)
       /\ k5 # Passed => k5.category = "HANDLE" /\ k5.stops
  BY <1>k5 DEF Check, CheckType, Passed, Categories
<1>11. <<k1, k2, k3, k4, k5>> \in Seq(CheckType)
  BY <1>6, <1>7, <1>8, <1>9, <1>10
<1>12. Among(<<k1, k2, k3, k4, k5>>) = {k1, k2, k3, k4, k5}
      /\ <<k1, k2, k3, k4, k5>>[1] = k1
  BY Tuple5
<1>13. NoneSeen(<<k1, k2, k3, k4, k5>>) /\ SoundInfo(i) => SoundInfo(j)
  BY <1>3, <1>j, <1>12, <1>7, <1>8, <1>9, <1>10
     DEF NoneSeen, SoundInfo, FreshInfo, InfoType
<1>14. t # mistaken => c.ok
  BY <1>2 DEF IInv, FactsHold, CallFacts, Tested, ArgumentOps, DrawOps
<1>15. ASSUME NEW old \in InfoType, t # mistaken, "COMMAND_LIST" \in enabled,
              Gate["ValidateBeginRenderPass"] \in enabled, Match(i, old),
              Rule(old, "ValidateBeginRenderPass")
       PROVE  \A x \in Among(<<k1, k2, k3, k4, k5>>) : x # Passed /\ x # k1 =>
                x.category \notin enabled /\ ~ x.stops
  <2>1. k2 # Passed => k2.category \notin enabled /\ ~ k2.stops
    BY <1>15, <1>3, <1>7
       DEF Match, Rule, InfoType
  <2>2. k3 # Passed => k3.category \notin enabled /\ ~ k3.stops
    BY <1>15, <1>3, <1>8, GateIs
       DEF Match, Rule, InfoType
  <2>3. k4 # Passed => k4.category \notin enabled /\ ~ k4.stops
    BY <1>15, <1>3, <1>9, GateIs
       DEF Match, Rule, InfoType
  <2>4. k5 # Passed => k5.category \notin enabled /\ ~ k5.stops
    BY <1>15, <1>3, <1>10, <1>14
       DEF Match, Rule, InfoType
  <2>5. QED BY <2>1, <2>2, <2>3, <2>4, <1>12
<1>16. AllOn /\ t = mistaken /\ AllPassed(<<k1, k2, k3, k4, k5>>)
         /\ HandlesPassed(c) /\ Match(i, rec[c.list]) /\ Alive(c.list) => Seems(c)
  <2> SUFFICES ASSUME AllOn, t = mistaken, k1 = Passed, k2 = Passed,
                      k3 = Passed, k4 = Passed, k5 = Passed,
                      HandlesPassed(c), Match(i, rec[c.list]),
                      Alive(c.list)
               PROVE  Seems(c)
    BY <1>12 DEF AllPassed
  <2>1. /\ i.state = "RECORDING" /\ ~ i.inPass /\ ~ i.inRendering /\ c.ok
    BY <1>3, <1>7, <1>8, <1>9, <1>10 DEF InfoType
  <2>2. QED
    BY <1>2, <1>3, <2>1
       DEF Seems, InOrder, Tested, Recording, Inside, Match, Categories, InfoType,
           ArgumentOps, DrawOps, DescOps, AllOn
<1>17. ListOp(t, "ValidateBeginRenderPass", <<k1, k2, k3, k4, k5>>, upd)
  BY <1>i, <1>k1, <1>1, <1>4, <1>5, <1>11, <1>12, <1>13, <1>15, <1>16
     DEF ListOp, RecordOps, ListOps, DrawOps, SetBufferOps
<1>18. QED BY <1>17, ListOpIInv

(* It ends where one is.                                                   *)
LEMMA ValidateEndRenderPassIInv ==
  ASSUME IInv, NEW t \in Threads, t \notin thrown, ValidateEndRenderPass(t)
  PROVE  IInv'
<1> PICK c : c = at[t]
  OBVIOUS
<1>i. PICK i : i = Info(t)
  OBVIOUS
<1>k1. PICK k1 : k1 = Unknown(t)
  OBVIOUS
<1>k2. PICK k2 : k2 = Check(i.state # "RECORDING", "STATE", TRUE)
  OBVIOUS
<1>k3. PICK k3 : k3 = Check(~ i.inPass, "RENDER_PASS", TRUE)
  OBVIOUS
<1>j. PICK j : j = [i EXCEPT !.inPass = FALSE]
  OBVIOUS
<1>up. PICK upd : upd = [tables EXCEPT !.lists[c.list] = j]
  OBVIOUS
<1>1. Locked(t, "ValidateEndRenderPass", <<k1, k2, k3>>, upd)
  BY <1>i, <1>k1, <1>k2, <1>k3, <1>j, <1>up
     DEF ValidateEndRenderPass, Info, NotRecording, WithInfo
<1>2. c.op = "ValidateEndRenderPass" /\ c # Idle /\ c.handles = <<>>
  BY <1>1 DEF Locked, Idle
<1>3. /\ Shape(t, c) /\ c.list \in Lists /\ tables \in TablesType
      /\ i = tables.lists[c.list] /\ i \in InfoType
  BY <1>2, <1>i, ListInfo DEF RecordOps, ListOps, DrawOps, SetBufferOps
<1>4. j = Recorded(i, "ValidateEndRenderPass")
  BY <1>j DEF Recorded
<1>5. ListChanged(c, tables, upd)
  BY <1>2, <1>3, <1>4, <1>up, ListUpdated DEF RecordOps, ListOps, DrawOps,
       SetBufferOps
<1>6. k1 \in CheckType
  BY <1>k1 DEF Unknown, Check, CheckType, Categories
<1>7. /\ k2 \in CheckType /\ (k2 # Passed <=> i.state # "RECORDING")
      /\ k2 # Passed => k2.category = "STATE" /\ k2.stops
  BY <1>k2 DEF Check, CheckType, Passed, Categories
<1>8. /\ k3 \in CheckType /\ (k3 # Passed <=> ~ i.inPass)
      /\ k3 # Passed => k3.category = "RENDER_PASS" /\ k3.stops
  BY <1>k3 DEF Check, CheckType, Passed, Categories
<1>9. /\ <<k1, k2, k3>> \in Seq(CheckType)
      /\ Among(<<k1, k2, k3>>) = {k1, k2, k3} /\ <<k1, k2, k3>>[1] = k1
  BY <1>6, <1>7, <1>8, Tuple3
<1>10. NoneSeen(<<k1, k2, k3>>) /\ SoundInfo(i) => SoundInfo(j)
  BY <1>3, <1>j, <1>9, <1>7, <1>8
     DEF NoneSeen, SoundInfo, FreshInfo, InfoType
<1>11. ASSUME NEW old \in InfoType, t # mistaken, "COMMAND_LIST" \in enabled,
              Gate["ValidateEndRenderPass"] \in enabled, Match(i, old),
              Rule(old, "ValidateEndRenderPass")
       PROVE  \A x \in Among(<<k1, k2, k3>>) : x # Passed /\ x # k1 =>
                x.category \notin enabled /\ ~ x.stops
  BY <1>11, <1>3, <1>9, <1>7, <1>8, GateIs
     DEF Match, Rule, InfoType, SetBufferOps
<1>12. AllOn /\ t = mistaken /\ AllPassed(<<k1, k2, k3>>)
         /\ HandlesPassed(c) /\ Match(i, rec[c.list]) /\ Alive(c.list) => Seems(c)
  <2> SUFFICES ASSUME AllOn, t = mistaken, k1 = Passed, k2 = Passed,
                      k3 = Passed, HandlesPassed(c),
                      Match(i, rec[c.list]), Alive(c.list)
               PROVE  Seems(c)
    BY <1>9 DEF AllPassed
  <2>1. QED
    BY <1>2, <1>3, <1>7, <1>8
       DEF Seems, InOrder, Tested, Recording, Inside, Match, Categories, InfoType,
           States, ArgumentOps, DrawOps, DescOps, AllOn
<1>13. ListOp(t, "ValidateEndRenderPass", <<k1, k2, k3>>, upd)
  BY <1>i, <1>k1, <1>1, <1>4, <1>5, <1>9, <1>10, <1>11, <1>12
     DEF ListOp, RecordOps, ListOps, DrawOps, SetBufferOps
<1>14. QED BY <1>13, ListOpIInv

(* So does a rendering block.                                              *)
LEMMA ValidateBeginRenderingIInv ==
  ASSUME IInv, NEW t \in Threads, t \notin thrown, ValidateBeginRendering(t)
  PROVE  IInv'
<1> PICK c : c = at[t]
  OBVIOUS
<1>i. PICK i : i = Info(t)
  OBVIOUS
<1>k1. PICK k1 : k1 = Unknown(t)
  OBVIOUS
<1>k2. PICK k2 : k2 = Check(i.state # "RECORDING", "STATE", TRUE)
  OBVIOUS
<1>k3. PICK k3 : k3 = Check(i.inRendering, "RENDER_PASS", TRUE)
  OBVIOUS
<1>k4. PICK k4 : k4 = Check(i.inPass, "RENDER_PASS", TRUE)
  OBVIOUS
<1>k5. PICK k5 : k5 = Check(~ c.ok, "RENDER_PASS", FALSE)
  OBVIOUS
<1>j. PICK j : j = [i EXCEPT !.inRendering = TRUE]
  OBVIOUS
<1>up. PICK upd : upd = [tables EXCEPT !.lists[c.list] = j]
  OBVIOUS
<1>1. Locked(t, "ValidateBeginRendering", <<k1, k2, k3, k4, k5>>, upd)
  BY <1>i, <1>k1, <1>k2, <1>k3, <1>k4, <1>k5, <1>j, <1>up
     DEF ValidateBeginRendering, Info, NotRecording, WithInfo
<1>2. c.op = "ValidateBeginRendering" /\ c # Idle /\ c.handles = <<>>
  BY <1>1 DEF Locked, Idle
<1>3. /\ Shape(t, c) /\ c.list \in Lists /\ tables \in TablesType
      /\ i = tables.lists[c.list] /\ i \in InfoType
  BY <1>2, <1>i, ListInfo DEF RecordOps, ListOps, DrawOps, SetBufferOps
<1>4. j = Recorded(i, "ValidateBeginRendering")
  BY <1>j DEF Recorded
<1>5. ListChanged(c, tables, upd)
  BY <1>2, <1>3, <1>4, <1>up, ListUpdated DEF RecordOps, ListOps, DrawOps,
       SetBufferOps
<1>6. k1 \in CheckType
  BY <1>k1 DEF Unknown, Check, CheckType, Categories
<1>7. /\ k2 \in CheckType /\ (k2 # Passed <=> i.state # "RECORDING")
      /\ k2 # Passed => k2.category = "STATE" /\ k2.stops
  BY <1>k2 DEF Check, CheckType, Passed, Categories
<1>8. /\ k3 \in CheckType /\ (k3 # Passed <=> i.inRendering)
      /\ k3 # Passed => k3.category = "RENDER_PASS" /\ k3.stops
  BY <1>k3 DEF Check, CheckType, Passed, Categories
<1>9. /\ k4 \in CheckType /\ (k4 # Passed <=> i.inPass)
      /\ k4 # Passed => k4.category = "RENDER_PASS" /\ k4.stops
  BY <1>k4 DEF Check, CheckType, Passed, Categories
<1>10. /\ k5 \in CheckType /\ (k5 # Passed <=> ~ c.ok)
       /\ k5 # Passed => k5.category = "RENDER_PASS" /\ ~ k5.stops
  BY <1>k5 DEF Check, CheckType, Passed, Categories
<1>11. <<k1, k2, k3, k4, k5>> \in Seq(CheckType)
  BY <1>6, <1>7, <1>8, <1>9, <1>10
<1>12. Among(<<k1, k2, k3, k4, k5>>) = {k1, k2, k3, k4, k5}
      /\ <<k1, k2, k3, k4, k5>>[1] = k1
  BY Tuple5
<1>13. NoneSeen(<<k1, k2, k3, k4, k5>>) /\ SoundInfo(i) => SoundInfo(j)
  BY <1>3, <1>j, <1>12, <1>7, <1>8, <1>9, <1>10
     DEF NoneSeen, SoundInfo, FreshInfo, InfoType
<1>14. t # mistaken => c.ok
  BY <1>2 DEF IInv, FactsHold, CallFacts, Tested, ArgumentOps, DrawOps
<1>15. ASSUME NEW old \in InfoType, t # mistaken, "COMMAND_LIST" \in enabled,
              Gate["ValidateBeginRendering"] \in enabled, Match(i, old),
              Rule(old, "ValidateBeginRendering")
       PROVE  \A x \in Among(<<k1, k2, k3, k4, k5>>) : x # Passed /\ x # k1 =>
                x.category \notin enabled /\ ~ x.stops
  <2>1. k2 # Passed => k2.category \notin enabled /\ ~ k2.stops
    BY <1>15, <1>3, <1>7
       DEF Match, Rule, InfoType
  <2>2. k3 # Passed => k3.category \notin enabled /\ ~ k3.stops
    BY <1>15, <1>3, <1>8, GateIs
       DEF Match, Rule, InfoType
  <2>3. k4 # Passed => k4.category \notin enabled /\ ~ k4.stops
    BY <1>15, <1>3, <1>9, GateIs
       DEF Match, Rule, InfoType
  <2>4. k5 # Passed => k5.category \notin enabled /\ ~ k5.stops
    BY <1>15, <1>3, <1>10, <1>14, GateIs
       DEF Match, Rule, InfoType
  <2>5. QED BY <2>1, <2>2, <2>3, <2>4, <1>12
<1>16. AllOn /\ t = mistaken /\ AllPassed(<<k1, k2, k3, k4, k5>>)
         /\ HandlesPassed(c) /\ Match(i, rec[c.list]) /\ Alive(c.list) => Seems(c)
  <2> SUFFICES ASSUME AllOn, t = mistaken, k1 = Passed, k2 = Passed,
                      k3 = Passed, k4 = Passed, k5 = Passed,
                      HandlesPassed(c), Match(i, rec[c.list]),
                      Alive(c.list)
               PROVE  Seems(c)
    BY <1>12 DEF AllPassed
  <2>1. /\ i.state = "RECORDING" /\ ~ i.inRendering /\ ~ i.inPass /\ c.ok
    BY <1>3, <1>7, <1>8, <1>9, <1>10 DEF InfoType
  <2>2. QED
    BY <1>2, <1>3, <2>1
       DEF Seems, InOrder, Tested, Recording, Inside, Match, Categories, InfoType,
           ArgumentOps, DrawOps, DescOps, AllOn
<1>17. ListOp(t, "ValidateBeginRendering", <<k1, k2, k3, k4, k5>>, upd)
  BY <1>i, <1>k1, <1>1, <1>4, <1>5, <1>11, <1>12, <1>13, <1>15, <1>16
     DEF ListOp, RecordOps, ListOps, DrawOps, SetBufferOps
<1>18. QED BY <1>17, ListOpIInv

(* And it ends where one is.                                               *)
LEMMA ValidateEndRenderingIInv ==
  ASSUME IInv, NEW t \in Threads, t \notin thrown, ValidateEndRendering(t)
  PROVE  IInv'
<1> PICK c : c = at[t]
  OBVIOUS
<1>i. PICK i : i = Info(t)
  OBVIOUS
<1>k1. PICK k1 : k1 = Unknown(t)
  OBVIOUS
<1>k2. PICK k2 : k2 = Check(i.state # "RECORDING", "STATE", TRUE)
  OBVIOUS
<1>k3. PICK k3 : k3 = Check(~ i.inRendering, "RENDER_PASS", TRUE)
  OBVIOUS
<1>j. PICK j : j = [i EXCEPT !.inRendering = FALSE]
  OBVIOUS
<1>up. PICK upd : upd = [tables EXCEPT !.lists[c.list] = j]
  OBVIOUS
<1>1. Locked(t, "ValidateEndRendering", <<k1, k2, k3>>, upd)
  BY <1>i, <1>k1, <1>k2, <1>k3, <1>j, <1>up
     DEF ValidateEndRendering, Info, NotRecording, WithInfo
<1>2. c.op = "ValidateEndRendering" /\ c # Idle /\ c.handles = <<>>
  BY <1>1 DEF Locked, Idle
<1>3. /\ Shape(t, c) /\ c.list \in Lists /\ tables \in TablesType
      /\ i = tables.lists[c.list] /\ i \in InfoType
  BY <1>2, <1>i, ListInfo DEF RecordOps, ListOps, DrawOps, SetBufferOps
<1>4. j = Recorded(i, "ValidateEndRendering")
  BY <1>j DEF Recorded
<1>5. ListChanged(c, tables, upd)
  BY <1>2, <1>3, <1>4, <1>up, ListUpdated DEF RecordOps, ListOps, DrawOps,
       SetBufferOps
<1>6. k1 \in CheckType
  BY <1>k1 DEF Unknown, Check, CheckType, Categories
<1>7. /\ k2 \in CheckType /\ (k2 # Passed <=> i.state # "RECORDING")
      /\ k2 # Passed => k2.category = "STATE" /\ k2.stops
  BY <1>k2 DEF Check, CheckType, Passed, Categories
<1>8. /\ k3 \in CheckType /\ (k3 # Passed <=> ~ i.inRendering)
      /\ k3 # Passed => k3.category = "RENDER_PASS" /\ k3.stops
  BY <1>k3 DEF Check, CheckType, Passed, Categories
<1>9. /\ <<k1, k2, k3>> \in Seq(CheckType)
      /\ Among(<<k1, k2, k3>>) = {k1, k2, k3} /\ <<k1, k2, k3>>[1] = k1
  BY <1>6, <1>7, <1>8, Tuple3
<1>10. NoneSeen(<<k1, k2, k3>>) /\ SoundInfo(i) => SoundInfo(j)
  BY <1>3, <1>j, <1>9, <1>7, <1>8
     DEF NoneSeen, SoundInfo, FreshInfo, InfoType
<1>11. ASSUME NEW old \in InfoType, t # mistaken, "COMMAND_LIST" \in enabled,
              Gate["ValidateEndRendering"] \in enabled, Match(i, old),
              Rule(old, "ValidateEndRendering")
       PROVE  \A x \in Among(<<k1, k2, k3>>) : x # Passed /\ x # k1 =>
                x.category \notin enabled /\ ~ x.stops
  BY <1>11, <1>3, <1>9, <1>7, <1>8, GateIs
     DEF Match, Rule, InfoType, SetBufferOps
<1>12. AllOn /\ t = mistaken /\ AllPassed(<<k1, k2, k3>>)
         /\ HandlesPassed(c) /\ Match(i, rec[c.list]) /\ Alive(c.list) => Seems(c)
  <2> SUFFICES ASSUME AllOn, t = mistaken, k1 = Passed, k2 = Passed,
                      k3 = Passed, HandlesPassed(c),
                      Match(i, rec[c.list]), Alive(c.list)
               PROVE  Seems(c)
    BY <1>9 DEF AllPassed
  <2>1. QED
    BY <1>2, <1>3, <1>7, <1>8
       DEF Seems, InOrder, Tested, Recording, Inside, Match, Categories, InfoType,
           States, ArgumentOps, DrawOps, DescOps, AllOn
<1>13. ListOp(t, "ValidateEndRendering", <<k1, k2, k3>>, upd)
  BY <1>i, <1>k1, <1>1, <1>4, <1>5, <1>9, <1>10, <1>11, <1>12
     DEF ListOp, RecordOps, ListOps, DrawOps, SetBufferOps
<1>14. QED BY <1>13, ListOpIInv

(* A pipeline is set: its handle passed before.                            *)
LEMMA ValidateSetPipelineIInv ==
  ASSUME IInv, NEW t \in Threads, t \notin thrown, ValidateSetPipeline(t)
  PROVE  IInv'
<1> PICK c : c = at[t]
  OBVIOUS
<1>i. PICK i : i = Info(t)
  OBVIOUS
<1>k1. PICK k1 : k1 = Unknown(t)
  OBVIOUS
<1>k2. PICK k2 : k2 = Check(i.state # "RECORDING", "STATE", TRUE)
  OBVIOUS
<1>j. PICK j : j = [i EXCEPT !.pipeline = TRUE]
  OBVIOUS
<1>up. PICK upd : upd = [tables EXCEPT !.lists[c.list] = j]
  OBVIOUS
<1>1. Locked(t, "ValidateSetPipeline", <<k1, k2>>, upd)
  BY <1>i, <1>k1, <1>k2, <1>j, <1>up
     DEF ValidateSetPipeline, Info, NotRecording, WithInfo
<1>2. c.op = "ValidateSetPipeline" /\ c # Idle /\ c.handles = <<>>
  BY <1>1 DEF Locked, Idle
<1>3. /\ Shape(t, c) /\ c.list \in Lists /\ tables \in TablesType
      /\ i = tables.lists[c.list] /\ i \in InfoType
  BY <1>2, <1>i, ListInfo DEF RecordOps, ListOps, DrawOps, SetBufferOps
<1>4. j = Recorded(i, "ValidateSetPipeline")
  BY <1>j DEF Recorded
<1>5. ListChanged(c, tables, upd)
  BY <1>2, <1>3, <1>4, <1>up, ListUpdated DEF RecordOps, ListOps, DrawOps,
       SetBufferOps
<1>6. k1 \in CheckType
  BY <1>k1 DEF Unknown, Check, CheckType, Categories
<1>7. /\ k2 \in CheckType /\ (k2 # Passed <=> i.state # "RECORDING")
      /\ k2 # Passed => k2.category = "STATE" /\ k2.stops
  BY <1>k2 DEF Check, CheckType, Passed, Categories
<1>8. /\ <<k1, k2>> \in Seq(CheckType)
      /\ Among(<<k1, k2>>) = {k1, k2} /\ <<k1, k2>>[1] = k1
  BY <1>6, <1>7, Tuple2
<1>9. NoneSeen(<<k1, k2>>) /\ SoundInfo(i) => SoundInfo(j)
  BY <1>3, <1>j, <1>8, <1>7
     DEF NoneSeen, SoundInfo, FreshInfo, InfoType
<1>10. ASSUME NEW old \in InfoType, t # mistaken, "COMMAND_LIST" \in enabled,
              Gate["ValidateSetPipeline"] \in enabled, Match(i, old),
              Rule(old, "ValidateSetPipeline")
       PROVE  \A x \in Among(<<k1, k2>>) : x # Passed /\ x # k1 =>
                x.category \notin enabled /\ ~ x.stops
  BY <1>10, <1>3, <1>8, <1>7, GateIs
     DEF Match, Rule, InfoType, SetBufferOps
<1>11. AllOn /\ t = mistaken /\ AllPassed(<<k1, k2>>)
         /\ HandlesPassed(c) /\ Match(i, rec[c.list]) /\ Alive(c.list) => Seems(c)
  <2> SUFFICES ASSUME AllOn, t = mistaken, k1 = Passed, k2 = Passed,
                      HandlesPassed(c), Match(i, rec[c.list]),
                      Alive(c.list)
               PROVE  Seems(c)
    BY <1>8 DEF AllPassed
  <2>1. Handles(c) = <<c.obj>>
    BY <1>2 DEF Handles
  <2>2. Alive(c.obj)
    <3>1. \A k \in 1 .. Len(Handles(c)) : Alive(Handles(c)[k])
      BY <1>2, HandlesWere
    <3>2. Len(<<c.obj>>) = 1 /\ <<c.obj>>[1] = c.obj /\ 1 \in 1 .. 1
      OBVIOUS
    <3>3. QED BY <2>1, <3>1, <3>2
  <2>3. QED
    BY <1>2, <1>3, <1>7, <2>2
       DEF Seems, InOrder, Tested, Recording, Inside, Match, Categories, InfoType,
           States, ArgumentOps, DrawOps, DescOps, AllOn
<1>12. ListOp(t, "ValidateSetPipeline", <<k1, k2>>, upd)
  BY <1>i, <1>k1, <1>1, <1>4, <1>5, <1>8, <1>9, <1>10, <1>11
     DEF ListOp, RecordOps, ListOps, DrawOps, SetBufferOps
<1>13. QED BY <1>12, ListOpIInv

(* A vertex buffer: its usage is right if it is known, and it is.          *)
LEMMA ValidateSetVertexBufferIInv ==
  ASSUME IInv, NEW t \in Threads, t \notin thrown, ValidateSetVertexBuffer(t)
  PROVE  IInv'
<1> PICK c : c = at[t]
  OBVIOUS
<1>i. PICK i : i = Info(t)
  OBVIOUS
<1>k1. PICK k1 : k1 = Unknown(t)
  OBVIOUS
<1>k2. PICK k2 : k2 = Check(i.state # "RECORDING", "STATE", TRUE)
  OBVIOUS
<1>k3. PICK k3 : k3 = Check(c.obj \in tables.buffers /\ ~ desc[c.obj].usage,
                              "RESOURCE", FALSE)
  OBVIOUS
<1>j. PICK j : j = [i EXCEPT !.vertex = TRUE]
  OBVIOUS
<1>up. PICK upd : upd = [tables EXCEPT !.lists[c.list] = j]
  OBVIOUS
<1>1. Locked(t, "ValidateSetVertexBuffer", <<k1, k2, k3>>, upd)
  BY <1>i, <1>k1, <1>k2, <1>k3, <1>j, <1>up
     DEF ValidateSetVertexBuffer, Info, NotRecording, WithInfo, WrongUsage
<1>2. c.op = "ValidateSetVertexBuffer" /\ c # Idle /\ c.handles = <<>>
  BY <1>1 DEF Locked, Idle
<1>3. /\ Shape(t, c) /\ c.list \in Lists /\ tables \in TablesType
      /\ i = tables.lists[c.list] /\ i \in InfoType
  BY <1>2, <1>i, ListInfo DEF RecordOps, ListOps, DrawOps, SetBufferOps
<1>4. j = Recorded(i, "ValidateSetVertexBuffer")
  BY <1>j DEF Recorded
<1>5. ListChanged(c, tables, upd)
  BY <1>2, <1>3, <1>4, <1>up, ListUpdated DEF RecordOps, ListOps, DrawOps,
       SetBufferOps
<1>6. k1 \in CheckType
  BY <1>k1 DEF Unknown, Check, CheckType, Categories
<1>7. /\ k2 \in CheckType /\ (k2 # Passed <=> i.state # "RECORDING")
      /\ k2 # Passed => k2.category = "STATE" /\ k2.stops
  BY <1>k2 DEF Check, CheckType, Passed, Categories
<1>8. /\ k3 \in CheckType
      /\ (k3 # Passed <=> (c.obj \in tables.buffers /\ ~ desc[c.obj].usage))
      /\ k3 # Passed => k3.category = "RESOURCE" /\ ~ k3.stops
  BY <1>k3 DEF Check, CheckType, Passed, Categories
<1>9. /\ <<k1, k2, k3>> \in Seq(CheckType)
      /\ Among(<<k1, k2, k3>>) = {k1, k2, k3} /\ <<k1, k2, k3>>[1] = k1
  BY <1>6, <1>7, <1>8, Tuple3
<1>10. NoneSeen(<<k1, k2, k3>>) /\ SoundInfo(i) => SoundInfo(j)
  BY <1>3, <1>j, <1>9, <1>7, <1>8
     DEF NoneSeen, SoundInfo, FreshInfo, InfoType
<1>11. t # mistaken => desc[c.obj].usage
  BY <1>2 DEF IInv, FactsHold, CallFacts, SetBufferOps
<1>12. ASSUME NEW old \in InfoType, t # mistaken, "COMMAND_LIST" \in enabled,
              Gate["ValidateSetVertexBuffer"] \in enabled, Match(i, old),
              Rule(old, "ValidateSetVertexBuffer")
       PROVE  \A x \in Among(<<k1, k2, k3>>) : x # Passed /\ x # k1 =>
                x.category \notin enabled /\ ~ x.stops
  BY <1>12, <1>3, <1>9, <1>7, <1>8, <1>11, GateIs
     DEF Match, Rule, InfoType, SetBufferOps
<1>13. AllOn /\ t = mistaken /\ AllPassed(<<k1, k2, k3>>)
         /\ HandlesPassed(c) /\ Match(i, rec[c.list]) /\ Alive(c.list) => Seems(c)
  <2> SUFFICES ASSUME AllOn, t = mistaken, k1 = Passed, k2 = Passed,
                      k3 = Passed, HandlesPassed(c),
                      Match(i, rec[c.list]), Alive(c.list)
               PROVE  Seems(c)
    BY <1>9 DEF AllPassed
  <2>1. Handles(c) = <<c.obj>>
    BY <1>2 DEF Handles
  <2>2. Alive(c.obj)
    <3>1. \A k \in 1 .. Len(Handles(c)) : Alive(Handles(c)[k])
      BY <1>2, HandlesWere
    <3>2. Len(<<c.obj>>) = 1 /\ <<c.obj>>[1] = c.obj /\ 1 \in 1 .. 1
      OBVIOUS
    <3>3. QED BY <2>1, <3>1, <3>2
  <2>3. c.obj \in Buffers /\ c.obj \in Uses(c) /\ Watched /\ "RESOURCE" \in enabled
    BY <1>2, <1>3, BufferShape DEF SetBufferOps, Watched, Categories, AllOn
  <2>4. c.obj \in tables.buffers
    BY <1>2, <2>2, <2>3, BufferTells DEF Alive
  <2>5. QED
    BY <1>2, <1>3, <1>7, <1>8, <2>2, <2>4
       DEF Seems, InOrder, Tested, Recording, Inside, Match, Categories, InfoType,
           States, ArgumentOps, DrawOps, DescOps, AllOn
<1>14. ListOp(t, "ValidateSetVertexBuffer", <<k1, k2, k3>>, upd)
  BY <1>i, <1>k1, <1>1, <1>4, <1>5, <1>9, <1>10, <1>12, <1>13
     DEF ListOp, RecordOps, ListOps, DrawOps, SetBufferOps
<1>15. QED BY <1>14, ListOpIInv

(* An index buffer likewise.                                               *)
LEMMA ValidateSetIndexBufferIInv ==
  ASSUME IInv, NEW t \in Threads, t \notin thrown, ValidateSetIndexBuffer(t)
  PROVE  IInv'
<1> PICK c : c = at[t]
  OBVIOUS
<1>i. PICK i : i = Info(t)
  OBVIOUS
<1>k1. PICK k1 : k1 = Unknown(t)
  OBVIOUS
<1>k2. PICK k2 : k2 = Check(i.state # "RECORDING", "STATE", TRUE)
  OBVIOUS
<1>k3. PICK k3 : k3 = Check(c.obj \in tables.buffers /\ ~ desc[c.obj].usage,
                              "RESOURCE", FALSE)
  OBVIOUS
<1>j. PICK j : j = [i EXCEPT !.index = TRUE]
  OBVIOUS
<1>up. PICK upd : upd = [tables EXCEPT !.lists[c.list] = j]
  OBVIOUS
<1>1. Locked(t, "ValidateSetIndexBuffer", <<k1, k2, k3>>, upd)
  BY <1>i, <1>k1, <1>k2, <1>k3, <1>j, <1>up
     DEF ValidateSetIndexBuffer, Info, NotRecording, WithInfo, WrongUsage
<1>2. c.op = "ValidateSetIndexBuffer" /\ c # Idle /\ c.handles = <<>>
  BY <1>1 DEF Locked, Idle
<1>3. /\ Shape(t, c) /\ c.list \in Lists /\ tables \in TablesType
      /\ i = tables.lists[c.list] /\ i \in InfoType
  BY <1>2, <1>i, ListInfo DEF RecordOps, ListOps, DrawOps, SetBufferOps
<1>4. j = Recorded(i, "ValidateSetIndexBuffer")
  BY <1>j DEF Recorded
<1>5. ListChanged(c, tables, upd)
  BY <1>2, <1>3, <1>4, <1>up, ListUpdated DEF RecordOps, ListOps, DrawOps,
       SetBufferOps
<1>6. k1 \in CheckType
  BY <1>k1 DEF Unknown, Check, CheckType, Categories
<1>7. /\ k2 \in CheckType /\ (k2 # Passed <=> i.state # "RECORDING")
      /\ k2 # Passed => k2.category = "STATE" /\ k2.stops
  BY <1>k2 DEF Check, CheckType, Passed, Categories
<1>8. /\ k3 \in CheckType
      /\ (k3 # Passed <=> (c.obj \in tables.buffers /\ ~ desc[c.obj].usage))
      /\ k3 # Passed => k3.category = "RESOURCE" /\ ~ k3.stops
  BY <1>k3 DEF Check, CheckType, Passed, Categories
<1>9. /\ <<k1, k2, k3>> \in Seq(CheckType)
      /\ Among(<<k1, k2, k3>>) = {k1, k2, k3} /\ <<k1, k2, k3>>[1] = k1
  BY <1>6, <1>7, <1>8, Tuple3
<1>10. NoneSeen(<<k1, k2, k3>>) /\ SoundInfo(i) => SoundInfo(j)
  BY <1>3, <1>j, <1>9, <1>7, <1>8
     DEF NoneSeen, SoundInfo, FreshInfo, InfoType
<1>11. t # mistaken => desc[c.obj].usage
  BY <1>2 DEF IInv, FactsHold, CallFacts, SetBufferOps
<1>12. ASSUME NEW old \in InfoType, t # mistaken, "COMMAND_LIST" \in enabled,
              Gate["ValidateSetIndexBuffer"] \in enabled, Match(i, old),
              Rule(old, "ValidateSetIndexBuffer")
       PROVE  \A x \in Among(<<k1, k2, k3>>) : x # Passed /\ x # k1 =>
                x.category \notin enabled /\ ~ x.stops
  BY <1>12, <1>3, <1>9, <1>7, <1>8, <1>11, GateIs
     DEF Match, Rule, InfoType, SetBufferOps
<1>13. AllOn /\ t = mistaken /\ AllPassed(<<k1, k2, k3>>)
         /\ HandlesPassed(c) /\ Match(i, rec[c.list]) /\ Alive(c.list) => Seems(c)
  <2> SUFFICES ASSUME AllOn, t = mistaken, k1 = Passed, k2 = Passed,
                      k3 = Passed, HandlesPassed(c),
                      Match(i, rec[c.list]), Alive(c.list)
               PROVE  Seems(c)
    BY <1>9 DEF AllPassed
  <2>1. Handles(c) = <<c.obj>>
    BY <1>2 DEF Handles
  <2>2. Alive(c.obj)
    <3>1. \A k \in 1 .. Len(Handles(c)) : Alive(Handles(c)[k])
      BY <1>2, HandlesWere
    <3>2. Len(<<c.obj>>) = 1 /\ <<c.obj>>[1] = c.obj /\ 1 \in 1 .. 1
      OBVIOUS
    <3>3. QED BY <2>1, <3>1, <3>2
  <2>3. c.obj \in Buffers /\ c.obj \in Uses(c) /\ Watched /\ "RESOURCE" \in enabled
    BY <1>2, <1>3, BufferShape DEF SetBufferOps, Watched, Categories, AllOn
  <2>4. c.obj \in tables.buffers
    BY <1>2, <2>2, <2>3, BufferTells DEF Alive
  <2>5. QED
    BY <1>2, <1>3, <1>7, <1>8, <2>2, <2>4
       DEF Seems, InOrder, Tested, Recording, Inside, Match, Categories, InfoType,
           States, ArgumentOps, DrawOps, DescOps, AllOn
<1>14. ListOp(t, "ValidateSetIndexBuffer", <<k1, k2, k3>>, upd)
  BY <1>i, <1>k1, <1>1, <1>4, <1>5, <1>9, <1>10, <1>12, <1>13
     DEF ListOp, RecordOps, ListOps, DrawOps, SetBufferOps
<1>15. QED BY <1>14, ListOpIInv

-----------------------------------------------------------------------------
(* The whole layer.                                                        *)
(* At first nothing exists and every table is empty.                       *)
LEMMA InitIInv ==
  ASSUME Init
  PROVE  IInv
<1>1. FreshInfo \in InfoType
  BY DEF FreshInfo, InfoType, States
<1>2. /\ enabled \subseteq Categories /\ holder = None /\ thrown = {} /\ counted = FALSE
      /\ mapped = {} /\ mistaken = None
      /\ at \in [Threads -> {Idle}] /\ \A t \in Threads : at[t] = Idle
      /\ status \in [Things -> Life] /\ \A o \in Things : status[o] = "new"
      /\ rec = [l \in Lists |-> FreshInfo] /\ overlooked = FALSE
  BY ValidationAssumption DEF Init, Life
<1>3. /\ tables.buffers = {} /\ tables.bufferMapped = {} /\ tables.textures = {}
      /\ tables.viewHandles = [x \in Textures |-> {}] /\ tables.views = {}
      /\ tables.pipelines = {} /\ tables.registered = {}
      /\ tables.lists = [l \in Lists |-> FreshInfo]
  BY DEF Init
<1>4. Types
  <2>1. tables \in TablesType
    BY <1>1 DEF Init, TablesType
  <2>2. desc \in [Buffers -> [usage : BOOLEAN, gpuOnly : BOOLEAN]]
    <3>1. {[usage |-> TRUE, gpuOnly |-> FALSE], [usage |-> FALSE, gpuOnly |-> TRUE]}
            \subseteq [usage : BOOLEAN, gpuOnly : BOOLEAN]
      OBVIOUS
    <3> PICK D : D = {[usage |-> TRUE, gpuOnly |-> FALSE],
                      [usage |-> FALSE, gpuOnly |-> TRUE]}
      OBVIOUS
    <3>2. desc \in [Buffers -> D] /\ D \subseteq [usage : BOOLEAN, gpuOnly : BOOLEAN]
      BY <3>1 DEF Init
    <3>3. QED BY <3>2
  <2>3. rec \in [Lists -> InfoType]
    BY <1>1, <1>2
  <2>4. QED BY <1>2, <2>1, <2>2, <2>3 DEF Types
<1>5. \A m, u, ops : ~ Doing(at, m, u, ops) \/ u \notin Threads
  BY <1>2 DEF Doing
<1>6. TypeOK
  BY <1>2, <1>3 DEF TypeOK, FreshInfo
<1>7. CallsWellFormed /\ FactsHold(at, mistaken, status, mapped) /\ NoFalseReports
  BY <1>2, ValidationAssumption DEF CallsWellFormed, FactsHold, NoFalseReports
<1>8. Apart(at)
  BY <1>2 DEF Apart, Changes, Uses
<1>9. OffIsEmpty /\ MistakeCaught /\ MistakeLimits
  BY <1>2, <1>3 DEF OffIsEmpty, MistakeCaught, MistakeLimits
<1>10. \A o \in Things : status[o] # "alive"
  BY <1>2
<1>11. Views \subseteq Things /\ \A v \in Views : Parent[v] \in Things
  BY ValidationAssumption DEF Things, Objects
<1>12. ProgramSane /\ ViewsKnown(status, tables.viewHandles)
  BY <1>2, <1>3, <1>11 DEF ProgramSane, ViewsKnown, Alive
<1>13. TablesRight
  <2>1. ASSUME NEW K \in SUBSET Things, NEW reg, NEW unreg
        PROVE  Kept(at, mistaken, status, K, {}, reg, unreg)
    BY <1>5, <1>10 DEF Kept
  <2>2. /\ Buffers \subseteq Things /\ Textures \subseteq Things
        /\ Pipelines \subseteq Things /\ Lists \subseteq Things
    BY DEF Things, Objects
  <2>3. ViewsKept(at, mistaken, status, tables.viewHandles)
    BY <1>10, <1>11 DEF ViewsKept
  <2>4. MapsKept(at, mistaken, mapped, tables.bufferMapped)
    BY <1>2, <1>3, <1>5 DEF MapsKept
  <2>5. ASSUME NEW l \in Lists
        PROVE  ListKept(at, mistaken, rec, tables.lists, l)
    <3>1. Owner[l] \in Threads
      BY ValidationAssumption
    <3>2. Match(FreshInfo, FreshInfo)
      BY DEF Match, FreshInfo
    <3>3. QED BY <1>2, <1>3, <1>5, <3>1, <3>2 DEF ListKept
  <2>6. QED BY <1>3, <1>11, <2>1, <2>2, <2>3, <2>4, <2>5 DEF TablesRight
<1>14. QED
  BY <1>4, <1>6, <1>7, <1>8, <1>9, <1>12, <1>13 DEF IInv

(* Every function of the layer keeps the invariant.                        *)
LEMMA LayerIInv ==
  ASSUME IInv, NEW t \in Threads, t \notin thrown, Layer(t)
  PROVE  IInv'
<1>1. CASE ValidateBuffer(t) \/ ValidateTexture(t) \/ ValidateTextureView(t)
           \/ ValidatePipeline(t)
  BY <1>1, ValidateIInv
<1>2. CASE RegisterBuffer(t) \/ UnregisterBuffer(t) \/ OnBufferMap(t)
           \/ OnBufferUnmap(t) \/ ValidateBufferCopy(t) \/ ValidateBufferWrite(t)
  BY <1>2, RegisterBufferIInv, UnregisterBufferIInv, OnBufferMapIInv,
     OnBufferUnmapIInv, ValidateBufferCopyIInv, ValidateBufferWriteIInv
<1>3. CASE RegisterTexture(t) \/ UnregisterTexture(t) \/ RegisterTextureView(t)
           \/ UnregisterTextureView(t) \/ RegisterPipeline(t) \/ UnregisterPipeline(t)
  BY <1>3, RegisterTextureIInv, UnregisterTextureIInv, RegisterTextureViewIInv,
     UnregisterTextureViewIInv, RegisterPipelineIInv, UnregisterPipelineIInv
<1>4. CASE RegisterCommandList(t) \/ UnregisterCommandList(t) \/ OnCommandListBegin(t)
           \/ OnCommandListEnd(t) \/ OnCommandListSubmit(t) \/ OnCommandListReset(t)
  BY <1>4, RegisterCommandListIInv, UnregisterCommandListIInv,
     OnCommandListBeginIInv, OnCommandListEndIInv, OnCommandListSubmitIInv,
     OnCommandListResetIInv
<1>5. CASE ValidateDrawCall(t) \/ ValidateDrawIndexed(t)
           \/ ValidateBeginRenderPass(t) \/ ValidateEndRenderPass(t)
           \/ ValidateBeginRendering(t) \/ ValidateEndRendering(t)
           \/ ValidateSetPipeline(t) \/ ValidateSetVertexBuffer(t)
           \/ ValidateSetIndexBuffer(t)
  BY <1>5, ValidateDrawCallIInv, ValidateDrawIndexedIInv,
     ValidateBeginRenderPassIInv, ValidateEndRenderPassIInv,
     ValidateBeginRenderingIInv, ValidateEndRenderingIInv, ValidateSetPipelineIInv,
     ValidateSetVertexBufferIInv, ValidateSetIndexBufferIInv
<1>6. CASE ValidateBufferDesc(t) \/ ValidateTextureDesc(t) \/ ValidatePipelineDesc(t)
           \/ ValidateRenderPassDesc(t) \/ ValidateFramebufferDesc(t)
           \/ ValidateRenderingDesc(t) \/ ValidateQueueSubmit(t)
  <2>1. PICK op \in DescOps : Unlocked(t, op)
    BY <1>6 DEF DescOps, ValidateBufferDesc, ValidateTextureDesc,
                ValidatePipelineDesc,
                ValidateRenderPassDesc, ValidateFramebufferDesc,
                ValidateRenderingDesc,
                ValidateQueueSubmit
  <2>2. QED BY <2>1, UnlockedIInv
<1>7. QED
  BY <1>1, <1>2, <1>3, <1>4, <1>5, <1>6 DEF Layer

(* So does every step.                                                     *)
LEMMA StepIInv ==
  ASSUME IInv, [Next]_vars
  PROVE  IInv'
<1>1. ASSUME NEW t \in Threads, NEW c \in Calls(t), Obey(t, c) PROVE IInv'
  BY <1>1, ObeyIInv
<1>2. ASSUME NEW t \in Threads, NEW c \in Calls(t), Err(t, c) PROVE IInv'
  BY <1>2, ErrIInv
<1>3. ASSUME NEW t \in Threads, t \notin thrown, Layer(t) PROVE IInv'
  BY <1>3, LayerIInv
<1>4. CASE UNCHANGED vars
  <2>1. /\ UNCHANGED <<enabled, holder, thrown, counted, tables, at>>
        /\ UNCHANGED <<desc, status, mapped, rec, program, mistaken, overlooked>>
    BY <1>4 DEF vars, layerVars, programVars
  <2>2. Types' /\ TypeOK' /\ OffIsEmpty'
    BY <2>1 DEF IInv, Types, TypeOK, OffIsEmpty
  <2>3. CallsWellFormed' /\ Apart(at)' /\ ProgramSane'
    BY <2>1 DEF IInv, CallsWellFormed, Apart, ProgramSane, Alive
  <2>4. FactsHold(at, mistaken, status, mapped)'
    BY <2>1 DEF IInv, FactsHold, CallFacts
  <2>5. ViewsKnown(status, tables.viewHandles)'
    BY <2>1 DEF IInv, ViewsKnown
  <2>6. TablesRight'
    BY <2>1, StillListKept, StillWatched DEF IInv, TablesRight, Kept, Settled,
                                             Doing,
       ViewsKept, MapsKept
  <2>7. MistakeCaught'
    BY <2>1 DEF IInv, MistakeCaught, HandlesPassed, AllOn, Seems, InOrder, Tested,
                Alive,
                Recording, Inside, ArgumentOps, DrawOps, DescOps
  <2>8. MistakeLimits' /\ NoFalseReports'
    BY <2>1 DEF IInv, MistakeLimits, NoFalseReports, TablesKept, ForgottenViews
  <2>9. QED BY <2>2, <2>3, <2>4, <2>5, <2>6, <2>7, <2>8 DEF IInv
<1>5. QED BY <1>1, <1>2, <1>3, <1>4 DEF Next

(* It holds of every behaviour.                                            *)
LEMMA Invariance == Spec => []IInv
<1>1. Init => IInv
  BY InitIInv
<1>2. IInv /\ [Next]_vars => IInv'
  BY StepIInv
<1>3. QED BY <1>1, <1>2, PTL DEF Spec

(* The tables hold what they should, and no list is taken to be inside a   *)
(* render pass and a rendering block at once, or inside either when it is  *)
(* not recording.                                                          *)
THEOREM TypesHold == Spec => []TypeOK
<1>1. IInv => TypeOK
  BY DEF IInv
<1>2. QED BY <1>1, Invariance, PTL

(* A program that follows the rules is never reported, whichever           *)
(* categories are on, but for views that are destroyed: Report is reached  *)
(* with the mutex held in no other case.                                   *)
THEOREM ReportsAreTrue == Spec => []NoFalseReports
<1>1. IInv => NoFalseReports
  BY DEF IInv
<1>2. QED BY <1>1, Invariance, PTL

(* With every category on, the thread that made a mistake is still in the  *)
(* layer or a report of it has been counted: no function returns as if the *)
(* call had been right.  Only an indexed draw of no instances, and a write *)
(* or a copy whose end comes round to a place in the buffer, pass.         *)
THEOREM MistakesAreNoticed == Spec => []MistakesNoticed
<1>1. IInv => MistakesNoticed
  BY DEF IInv, MistakeCaught, MistakesNoticed, AllOn
<1>2. QED BY <1>1, Invariance, PTL
=============================================================================
