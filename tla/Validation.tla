----------------------------- MODULE Validation -----------------------------
(***************************************************************************)
(* The validation layer (src/RenderX/RX_Validation.cpp): tables of what    *)
(* was created, the state of every command list, and one mutex.  A         *)
(* function of the layer returns at once when its category is off;         *)
(* otherwise it takes the mutex, checks, and updates its tables.  Checks   *)
(* of handles take the mutex once more, before the function does.          *)
(*                                                                         *)
(* Report() takes the mutex too, and to take a std::mutex twice is         *)
(* undefined: of the builds the project supports, the thread waits for     *)
(* ever with glibc, and the lock throws std::system_error with MSVC, which *)
(* nothing catches and which releases the mutex on its way out.            *)
(*                                                                         *)
(* The program has several threads, each with command lists of its own,    *)
(* and does not use an object on one thread while another creates, changes *)
(* or destroys it.  It is followed up to the first mistake it makes of the *)
(* kinds the layer looks for, and to the end of the calls then under way.  *)
(***************************************************************************)
EXTENDS Integers, Sequences, FiniteSets

CONSTANTS
  Threads,
  Lists, Owner,         \* command lists, and the thread of each
  Buffers, Textures, Pipelines,
  Views, Parent,        \* texture views, and the texture of each
  None,
  BufferSize,           \* the size in every BufferDesc
  Values32, Values64,   \* the numbers of values of uint32_t and uint64_t
  Offsets,              \* bound: the offsets and sizes of writes and copies
  Configs,              \* the enabledCategories to examine
  Programs              \* bound: which functions each thread calls

Objects == Buffers \cup Textures \cup Views \cup Pipelines
Things == Objects \cup Lists

Categories == {"HANDLE", "STATE", "RESOURCE", "SYNCHRONIZATION", "MEMORY",
               "PIPELINE", "DESCRIPTOR", "COMMAND_LIST", "RENDER_PASS"}

ASSUME ValidationAssumption ==
  /\ Owner \in [Lists -> Threads] /\ Parent \in [Views -> Textures]
  /\ None \notin Threads \cup Things
  /\ Buffers \cap (Textures \cup Views \cup Pipelines \cup Lists) = {}
  /\ Textures \cap (Views \cup Pipelines \cup Lists) = {}
  /\ Views \cap (Pipelines \cup Lists) = {} /\ Pipelines \cap Lists = {}
  /\ BufferSize \in Nat
  /\ Values32 \in Nat \ {0} /\ Values64 \in Nat \ {0}
  /\ Offsets \subseteq Nat
  /\ Configs \subseteq SUBSET Categories
  /\ \A p \in Programs : DOMAIN p = Threads

(* The category that switches each function on.                            *)
Gate == [RegisterBuffer         |-> "RESOURCE",
         UnregisterBuffer       |-> "RESOURCE",
         ValidateBuffer         |-> "HANDLE",
         ValidateBufferDesc     |-> "RESOURCE",
         OnBufferMap            |-> "MEMORY",
         OnBufferUnmap          |-> "MEMORY",
         RegisterTexture        |-> "RESOURCE",
         UnregisterTexture      |-> "RESOURCE",
         ValidateTexture        |-> "HANDLE",
         ValidateTextureDesc    |-> "RESOURCE",
         RegisterTextureView    |-> "RESOURCE",
         UnregisterTextureView  |-> "RESOURCE",
         ValidateTextureView    |-> "HANDLE",
         RegisterPipeline       |-> "PIPELINE",
         UnregisterPipeline     |-> "PIPELINE",
         ValidatePipeline       |-> "HANDLE",
         ValidatePipelineDesc   |-> "PIPELINE",
         RegisterCommandList    |-> "COMMAND_LIST",
         UnregisterCommandList  |-> "COMMAND_LIST",
         OnCommandListBegin     |-> "COMMAND_LIST",
         OnCommandListEnd       |-> "COMMAND_LIST",
         OnCommandListSubmit    |-> "COMMAND_LIST",
         OnCommandListReset     |-> "COMMAND_LIST",
         ValidateDrawCall       |-> "COMMAND_LIST",
         ValidateDrawIndexed    |-> "COMMAND_LIST",
         ValidateBeginRenderPass |-> "RENDER_PASS",
         ValidateEndRenderPass  |-> "RENDER_PASS",
         ValidateBeginRendering |-> "RENDER_PASS",
         ValidateEndRendering   |-> "RENDER_PASS",
         ValidateSetPipeline    |-> "PIPELINE",
         ValidateSetVertexBuffer |-> "STATE",
         ValidateSetIndexBuffer |-> "STATE",
         ValidateBufferCopy     |-> "RESOURCE",
         ValidateBufferWrite    |-> "MEMORY",
         ValidateRenderPassDesc |-> "RENDER_PASS",
         ValidateFramebufferDesc |-> "RENDER_PASS",
         ValidateRenderingDesc  |-> "RENDER_PASS",
         ValidateQueueSubmit    |-> "SYNCHRONIZATION"]

VARIABLES
  enabled,       \* config_.enabledCategories
  holder,        \* the thread that waits for the mutex_ it holds, or None
  thrown,        \* the threads that left the layer by an exception
  counted,       \* errorCount_ + warningCount_ > 0
  tables,        \* buffers_, textures_, textureViews_, pipelines_,
                 \* commandLists_
  at,            \* the call each thread is in
  desc,          \* the BufferDesc of each buffer
  status,        \* "new", "alive" or "dead": each object and list
  mapped,        \* buffers the program has mapped
  rec,           \* what the program has recorded into each list
  program,       \* the functions each thread of this program calls
  mistaken,      \* the thread that has made a mistake, or None
  overlooked     \* the mistake is one of those that nothing looks for

programVars == <<desc, status, mapped, rec, program, mistaken, overlooked>>
layerVars == <<enabled, holder, thrown, counted, tables>>
vars == <<layerVars, at, programVars>>

Idle == [op |-> "none"]

(* CommandListInfo: the state, whether the list is inside a render pass or *)
(* a rendering block, and whether there is a pipeline, a vertex and an     *)
(* index buffer.                                                           *)
FreshInfo == [state |-> "INITIAL", inPass |-> FALSE, inRendering |-> FALSE,
              pipeline |-> FALSE, vertex |-> FALSE, index |-> FALSE]

Init == /\ enabled \in Configs
        /\ holder = None
        /\ thrown = {}
        /\ counted = FALSE
        /\ tables = [buffers |-> {}, bufferMapped |-> {}, textures |-> {},
                     viewHandles |-> [x \in Textures |-> {}], views |-> {},
                     pipelines |-> {}, registered |-> {},
                     lists |-> [l \in Lists |-> FreshInfo]]
        /\ at = [t \in Threads |-> Idle]
        /\ desc \in [Buffers -> {[usage |-> TRUE, gpuOnly |-> FALSE],
                                 [usage |-> FALSE, gpuOnly |-> TRUE]}]
        /\ status = [o \in Things |-> "new"]
        /\ mapped = {}
        /\ rec = [l \in Lists |-> FreshInfo]
        /\ program \in Programs
        /\ mistaken = None
        /\ overlooked = FALSE

-----------------------------------------------------------------------------
(* The program.  A call names the function, the list, the object or the    *)
(* two buffers.  Of a description, a render pass or an attachment it says  *)
(* whether it is free of the flaws that the function lists.                *)
Call(op, list, obj, dst, ok) ==
  [op |-> op, list |-> list, obj |-> obj, dst |-> dst, ok |-> ok,
   args |-> <<>>]

(* Numbers are given as they are: the count and the instances of a draw,   *)
(* the offset and the size of a write, both offsets and the size of a copy.*)
CallWith(op, list, obj, dst, args) ==
  [Call(op, list, obj, dst, TRUE) EXCEPT !.args = args]

Creating == {"RegisterBuffer", "RegisterTexture", "RegisterTextureView",
             "RegisterPipeline", "RegisterCommandList"}
Destroying == {"UnregisterBuffer", "UnregisterTexture",
               "UnregisterTextureView", "UnregisterPipeline",
               "UnregisterCommandList"}
BufferOps == {"UnregisterBuffer", "ValidateBuffer", "OnBufferMap",
              "OnBufferUnmap"}
ListOps == {"UnregisterCommandList", "OnCommandListBegin", "OnCommandListEnd",
            "OnCommandListSubmit", "OnCommandListReset",
            "ValidateBeginRenderPass", "ValidateEndRenderPass",
            "ValidateBeginRendering", "ValidateEndRendering"}
(* Those of them with an argument that can be wrong: an invalid render     *)
(* pass, no attachments.                                                   *)
ArgumentOps == {"ValidateBeginRenderPass", "ValidateBeginRendering"}
DrawOps == {"ValidateDrawCall", "ValidateDrawIndexed"}
DescOps == {"ValidateBufferDesc", "ValidateTextureDesc",
            "ValidatePipelineDesc", "ValidateRenderPassDesc",
            "ValidateFramebufferDesc", "ValidateRenderingDesc",
            "ValidateQueueSubmit"}

UInt32 == {n \in Offsets : n < Values32}
UInt64 == {n \in Offsets : n < Values64}

On(ops, objs) == {Call(op, None, o, None, TRUE) : op \in ops, o \in objs}

ObjectCalls ==
  On({"RegisterBuffer"} \cup BufferOps, Buffers) \cup
  On({"RegisterTexture", "UnregisterTexture", "ValidateTexture"}, Textures) \cup
  On({"RegisterTextureView", "UnregisterTextureView", "ValidateTextureView"},
     Views) \cup
  On({"RegisterPipeline", "UnregisterPipeline", "ValidatePipeline"}, Pipelines)

ListCalls(mine) ==
  {Call(op, l, None, None, ok) :
     op \in ArgumentOps, l \in mine, ok \in BOOLEAN} \cup
  {Call(op, l, None, None, TRUE) :
     op \in {"RegisterCommandList"} \cup ListOps, l \in mine} \cup
  {Call("ValidateSetPipeline", l, p, None, TRUE) :
     l \in mine, p \in Pipelines} \cup
  {Call(op, l, b, None, TRUE) :
     op \in {"ValidateSetVertexBuffer", "ValidateSetIndexBuffer"},
     l \in mine, b \in Buffers}

NumberCalls(mine) ==
  {CallWith(op, l, None, None, n) :
     op \in DrawOps, l \in mine, n \in (0 .. 1) \X (0 .. 1)} \cup
  {CallWith("ValidateBufferCopy", None, b, d, n) :
     b \in Buffers, d \in Buffers, n \in UInt64 \X UInt64 \X UInt64} \cup
  {CallWith("ValidateBufferWrite", None, b, None, n) :
     b \in Buffers, n \in UInt32 \X UInt32}

DescCalls == {Call(op, None, None, None, ok) : op \in DescOps, ok \in BOOLEAN}

Calls(t) ==
  LET mine == {l \in Lists : Owner[l] = t}
  IN  ObjectCalls \cup ListCalls(mine) \cup NumberCalls(mine) \cup DescCalls

Alive(o) == status[o] = "alive"

Recording(l) == Alive(l) /\ rec[l].state = "RECORDING"

Inside(l) == rec[l].inPass \/ rec[l].inRendering

(* A draw draws something; a write or a copy ends inside the buffer.       *)
RightArguments(c) ==
  /\ c.ok
  /\ c.op \in DrawOps => c.args[1] > 0 /\ c.args[2] > 0
  /\ c.op = "ValidateBufferWrite" => c.args[1] + c.args[2] <= BufferSize
  /\ c.op = "ValidateBufferCopy" =>
       /\ c.args[1] + c.args[3] <= BufferSize
       /\ c.args[2] + c.args[3] <= BufferSize

(* The call comes at the right time, for what the program has done.        *)
InOrder(c) ==
  \/ c.op \in Creating \cup {"UnregisterTextureView", "UnregisterPipeline",
                             "ValidateBuffer", "ValidateTexture",
                             "ValidateTextureView", "ValidatePipeline"}
     /\ (c.op \notin Creating => Alive(c.obj))
  \/ c.op = "UnregisterBuffer" /\ Alive(c.obj) /\ c.obj \notin mapped
  \/ c.op = "UnregisterTexture" /\ Alive(c.obj)
     /\ \A v \in Views : Parent[v] = c.obj => ~ Alive(v)
  \/ c.op = "OnBufferMap" /\ Alive(c.obj) /\ c.obj \notin mapped
     /\ ~ desc[c.obj].gpuOnly
  \/ c.op = "OnBufferUnmap" /\ Alive(c.obj) /\ c.obj \in mapped
  \/ c.op = "UnregisterCommandList" /\ Alive(c.list) /\ ~ Inside(c.list)
  \/ c.op = "OnCommandListBegin" /\ Alive(c.list)
     /\ rec[c.list].state \in {"INITIAL", "EXECUTABLE"}
  \/ c.op = "OnCommandListEnd" /\ Recording(c.list) /\ ~ Inside(c.list)
  \/ c.op = "OnCommandListSubmit" /\ Alive(c.list)
     /\ rec[c.list].state = "EXECUTABLE"
  \/ c.op = "OnCommandListReset" /\ Alive(c.list)
  \/ c.op = "ValidateDrawCall" /\ Recording(c.list) /\ Inside(c.list)
     /\ rec[c.list].pipeline /\ rec[c.list].vertex
  \/ c.op = "ValidateDrawIndexed" /\ Recording(c.list)
     /\ Inside(c.list) /\ rec[c.list].pipeline /\ rec[c.list].vertex
     /\ rec[c.list].index
  \/ c.op \in {"ValidateBeginRenderPass", "ValidateBeginRendering"}
     /\ Recording(c.list) /\ ~ Inside(c.list)
  \/ c.op = "ValidateEndRenderPass" /\ Recording(c.list) /\ rec[c.list].inPass
  \/ c.op = "ValidateEndRendering" /\ Recording(c.list)
     /\ rec[c.list].inRendering
  \/ c.op = "ValidateSetPipeline" /\ Recording(c.list) /\ Alive(c.obj)
  \/ c.op \in {"ValidateSetVertexBuffer", "ValidateSetIndexBuffer"}
     /\ Recording(c.list) /\ Alive(c.obj) /\ desc[c.obj].usage
  \/ c.op = "ValidateBufferCopy" /\ Alive(c.obj) /\ Alive(c.dst)
     /\ desc[c.obj].usage /\ desc[c.dst].usage
  \/ c.op = "ValidateBufferWrite" /\ Alive(c.obj)
     /\ ~ desc[c.obj].gpuOnly
  \/ c.op \in DescOps

(* The rules of the API.                                                   *)
Follows(c) == InOrder(c) /\ RightArguments(c)

(* The mistakes that the layer does not see: an indexed draw of no         *)
(* instances, which ValidateDrawCall would report, and a write or a copy   *)
(* past the end whose sum of offset and size comes round to a place in the *)
(* buffer.                                                                 *)
ComesRound(offset, size, values) ==
  /\ offset + size >= values
  /\ offset + size - values <= BufferSize

Overlooked(c) ==
  /\ InOrder(c) /\ ~ RightArguments(c)
  /\ \/ c.op = "ValidateDrawIndexed" /\ c.args[1] > 0
     \/ c.op = "ValidateBufferWrite"
        /\ ComesRound(c.args[1], c.args[2], Values32)
     \/ c.op = "ValidateBufferCopy"
        /\ \A i \in 1 .. 2 : \/ c.args[i] + c.args[3] <= BufferSize
                            \/ ComesRound(c.args[i], c.args[3], Values64)

(* What the call does to the list it records.                              *)
Recorded(r, op) ==
  CASE op \in {"RegisterCommandList", "UnregisterCommandList",
               "OnCommandListReset"} -> FreshInfo
    [] op = "OnCommandListBegin" -> [FreshInfo EXCEPT !.state = "RECORDING"]
    [] op = "OnCommandListEnd" -> [r EXCEPT !.state = "EXECUTABLE"]
    [] op = "OnCommandListSubmit" -> [r EXCEPT !.state = "SUBMITTED"]
    [] op = "ValidateBeginRenderPass" -> [r EXCEPT !.inPass = TRUE]
    [] op = "ValidateEndRenderPass" -> [r EXCEPT !.inPass = FALSE]
    [] op = "ValidateBeginRendering" -> [r EXCEPT !.inRendering = TRUE]
    [] op = "ValidateEndRendering" -> [r EXCEPT !.inRendering = FALSE]
    [] op = "ValidateSetPipeline" -> [r EXCEPT !.pipeline = TRUE]
    [] op = "ValidateSetVertexBuffer" -> [r EXCEPT !.vertex = TRUE]
    [] op = "ValidateSetIndexBuffer" -> [r EXCEPT !.index = TRUE]
    [] OTHER -> r

(* No other thread is in a call this one could race with.                  *)
Uses(c) == IF c = Idle THEN {}
           ELSE {c.list, c.obj, c.dst} \cup
                (IF c.obj \in Views THEN {Parent[c.obj]} ELSE {})

Changes(c) == IF c = Idle THEN {}
              ELSE IF c.op \in Creating \cup Destroying \cup
                               {"OnBufferMap", "OnBufferUnmap"}
              THEN {c.list, c.obj} ELSE {}

Synchronised(t, c) ==
  \A u \in Threads \ {t} :
    /\ Changes(c) \cap Uses(at[u]) \subseteq {None}
    /\ Uses(c) \cap Changes(at[u]) \subseteq {None}

(* Handles a function passes to ValidateBuffer or ValidatePipeline first.  *)
Handles(c) ==
  IF c.op \in {"ValidateBuffer", "ValidateTexture", "ValidateTextureView",
               "ValidatePipeline", "ValidateSetPipeline",
               "ValidateSetVertexBuffer", "ValidateSetIndexBuffer",
               "ValidateBufferWrite"}
  THEN <<c.obj>>
  ELSE IF c.op = "ValidateBufferCopy" THEN <<c.obj, c.dst>> ELSE <<>>

(* The call begins: the function tests its category without the mutex.     *)
Enter(t, c) ==
  at' = [at EXCEPT ![t] = IF Gate[c.op] \in enabled
                          THEN [op |-> c.op, list |-> c.list, obj |-> c.obj,
                                dst |-> c.dst, ok |-> c.ok, args |-> c.args,
                                handles |-> Handles(c)]
                          ELSE Idle]

Calling(t, c) ==
  /\ at[t] = Idle /\ mistaken = None
  /\ c.op \in program[t] /\ Synchronised(t, c)

Thing(c) == IF c.obj # None THEN c.obj ELSE c.list

Obey(t, c) ==
  /\ Calling(t, c) /\ Follows(c)
  /\ c.op \in Creating =>
       /\ status[Thing(c)] = "new"
       /\ c.op = "RegisterTextureView" => Alive(Parent[c.obj])
  /\ Enter(t, c)
  /\ status' = IF c.op \in Creating
               THEN [status EXCEPT ![Thing(c)] = "alive"]
               ELSE IF c.op \in Destroying
               THEN [status EXCEPT ![Thing(c)] = "dead"] ELSE status
  /\ mapped' = IF c.op = "OnBufferMap" THEN mapped \cup {c.obj}
               ELSE IF c.op = "OnBufferUnmap" THEN mapped \ {c.obj}
               ELSE mapped
  /\ rec' = IF c.list = None THEN rec
            ELSE [rec EXCEPT ![c.list] = Recorded(@, c.op)]
  /\ UNCHANGED <<layerVars, desc, program, mistaken, overlooked>>

(* A mistake: nothing comes of it in the driver.                           *)
Err(t, c) ==
  /\ Calling(t, c) /\ ~ Follows(c)
  /\ Enter(t, c)
  /\ mistaken' = t
  /\ overlooked' = Overlooked(c)
  /\ UNCHANGED <<layerVars, desc, status, mapped, rec, program>>

-----------------------------------------------------------------------------
(* The layer.  What comes of a check: it passes, or it fails in a category *)
(* and the function returns or goes on.                                    *)
Passed == [category |-> "none", stops |-> FALSE]

Check(bad, category, stops) ==
  IF bad THEN [category |-> category, stops |-> stops] ELSE Passed

(* Report() is silent in a category that is off.                           *)
Reports(checks) ==
  \E i \in 1 .. Len(checks) :
    /\ checks[i].category \in enabled
    /\ \A j \in 1 .. i - 1 : ~ checks[j].stops

Stops(checks) == \E i \in 1 .. Len(checks) : checks[i].stops

(* Report() by a thread that holds the mutex: nothing is counted.          *)
SelfLock(t) == \/ holder' = t /\ UNCHANGED thrown
               \/ thrown' = thrown \cup {t} /\ UNCHANGED holder

(* The body of a function, under the mutex.                                *)
Locked(t, op, checks, updated) ==
  /\ at[t].op = op /\ at[t].handles = <<>>
  /\ holder = None
  /\ IF Reports(checks)
     THEN SelfLock(t) /\ UNCHANGED <<tables, at>>
     ELSE /\ at' = [at EXCEPT ![t] = Idle]
          /\ tables' = IF Stops(checks) THEN tables ELSE updated
          /\ UNCHANGED <<holder, thrown>>
  /\ UNCHANGED <<enabled, counted, programVars>>

(* ValidateBuffer and its likes: on their own, or called by another        *)
(* function before it takes the mutex.                                     *)
ValidateHandle(t, op, kind, table) ==
  /\ at[t] # Idle /\ at[t].handles # <<>> /\ Head(at[t].handles) \in kind
  /\ LET rest == Tail(at[t].handles)
         done == [at EXCEPT ![t] = IF rest = <<>> /\ at[t].op = op THEN Idle
                                   ELSE [@ EXCEPT !.handles = rest]]
     IN  IF "HANDLE" \notin enabled
         THEN at' = done /\ UNCHANGED <<holder, thrown>>
         ELSE /\ holder = None
              /\ IF Head(at[t].handles) \in table
                 THEN at' = done /\ UNCHANGED <<holder, thrown>>
                 ELSE SelfLock(t) /\ UNCHANGED at
  /\ UNCHANGED <<enabled, counted, tables, programVars>>

ValidateBuffer(t) ==
  ValidateHandle(t, "ValidateBuffer", Buffers, tables.buffers)
ValidateTexture(t) ==
  ValidateHandle(t, "ValidateTexture", Textures, tables.textures)
ValidateTextureView(t) ==
  ValidateHandle(t, "ValidateTextureView", Views, tables.views)
ValidatePipeline(t) ==
  ValidateHandle(t, "ValidatePipeline", Pipelines, tables.pipelines)

RegisterBuffer(t) ==
  Locked(t, "RegisterBuffer", <<>>,
         [tables EXCEPT !.buffers = @ \cup {at[t].obj},
                        !.bufferMapped = @ \ {at[t].obj}])

(* Bug variant: the record of the buffer stays.                            *)
UnregisterBufferKeeping(t) ==
  Locked(t, "UnregisterBuffer",
         <<Check(at[t].obj \notin tables.buffers, "HANDLE", TRUE),
           Check(at[t].obj \in tables.bufferMapped, "RESOURCE", FALSE)>>,
         tables)

UnregisterBuffer(t) ==
  Locked(t, "UnregisterBuffer",
         <<Check(at[t].obj \notin tables.buffers, "HANDLE", TRUE),
           Check(at[t].obj \in tables.bufferMapped, "RESOURCE", FALSE)>>,
         [tables EXCEPT !.buffers = @ \ {at[t].obj},
                        !.bufferMapped = @ \ {at[t].obj}])

OnBufferMap(t) ==
  Locked(t, "OnBufferMap",
         <<Check(at[t].obj \notin tables.buffers, "HANDLE", TRUE),
           Check(at[t].obj \in tables.bufferMapped, "MEMORY", TRUE),
           Check(desc[at[t].obj].gpuOnly, "MEMORY", TRUE)>>,
         [tables EXCEPT !.bufferMapped = @ \cup {at[t].obj}])

OnBufferUnmap(t) ==
  Locked(t, "OnBufferUnmap",
         <<Check(at[t].obj \notin tables.buffers, "HANDLE", TRUE),
           Check(at[t].obj \notin tables.bufferMapped, "MEMORY", TRUE)>>,
         [tables EXCEPT !.bufferMapped = @ \ {at[t].obj}])

RegisterTexture(t) ==
  Locked(t, "RegisterTexture", <<>>,
         [tables EXCEPT !.textures = @ \cup {at[t].obj},
                        !.viewHandles[at[t].obj] = {}])

UnregisterTexture(t) ==
  Locked(t, "UnregisterTexture",
         <<Check(at[t].obj \notin tables.textures, "HANDLE", TRUE),
           Check(tables.viewHandles[at[t].obj] # {}, "RESOURCE", FALSE)>>,
         [tables EXCEPT !.textures = @ \ {at[t].obj}])

RegisterTextureView(t) ==
  Locked(t, "RegisterTextureView", <<>>,
         [tables EXCEPT
            !.views = @ \cup {at[t].obj},
            !.viewHandles[Parent[at[t].obj]] =
                IF Parent[at[t].obj] \in tables.textures
                THEN @ \cup {at[t].obj} ELSE @])

(* The parent's list of views is not told.                                 *)
UnregisterTextureView(t) ==
  Locked(t, "UnregisterTextureView",
         <<Check(at[t].obj \notin tables.views, "HANDLE", TRUE)>>,
         [tables EXCEPT !.views = @ \ {at[t].obj}])

RegisterPipeline(t) ==
  Locked(t, "RegisterPipeline", <<>>,
         [tables EXCEPT !.pipelines = @ \cup {at[t].obj}])

UnregisterPipeline(t) ==
  Locked(t, "UnregisterPipeline",
         <<Check(at[t].obj \notin tables.pipelines, "HANDLE", TRUE)>>,
         [tables EXCEPT !.pipelines = @ \ {at[t].obj}])

(* offset + size > desc.size, in unsigned integers of so many values.      *)
OutOfBounds(offset, size, values) == (offset + size) % values > BufferSize

ValidateBufferCopy(t) ==
  LET both == at[t].obj \in tables.buffers /\ at[t].dst \in tables.buffers
      args == at[t].args
  IN  Locked(t, "ValidateBufferCopy",
             <<Check(both /\ ~ desc[at[t].obj].usage, "RESOURCE", FALSE),
               Check(both /\ ~ desc[at[t].dst].usage, "RESOURCE", FALSE),
               Check(both /\ OutOfBounds(args[1], args[3], Values64),
                     "RESOURCE", FALSE),
               Check(both /\ OutOfBounds(args[2], args[3], Values64),
                     "RESOURCE", FALSE)>>, tables)

ValidateBufferWrite(t) ==
  LET known == at[t].obj \in tables.buffers
  IN  Locked(t, "ValidateBufferWrite",
             <<Check(known /\ OutOfBounds(at[t].args[1], at[t].args[2],
                                          Values32), "MEMORY", FALSE),
               Check(known /\ desc[at[t].obj].gpuOnly, "MEMORY", FALSE)>>,
             tables)

-----------------------------------------------------------------------------
(* Command lists.                                                          *)
Info(t) == tables.lists[at[t].list]

(* GetCommandListInfo, which every function below begins with.             *)
Unknown(t) ==
  Check(at[t].list \notin tables.registered, "COMMAND_LIST", TRUE)

NotRecording(t) == Check(Info(t).state # "RECORDING", "STATE", TRUE)

WithInfo(t, info) == [tables EXCEPT !.lists[at[t].list] = info]

RegisterCommandList(t) ==
  Locked(t, "RegisterCommandList", <<>>,
         [WithInfo(t, FreshInfo) EXCEPT
            !.registered = @ \cup {at[t].list}])

UnregisterCommandList(t) ==
  Locked(t, "UnregisterCommandList",
         <<Unknown(t),
           Check(Info(t).inPass \/ Info(t).inRendering, "COMMAND_LIST",
                 FALSE)>>,
         [WithInfo(t, FreshInfo) EXCEPT
            !.registered = @ \ {at[t].list}])

OnCommandListBegin(t) ==
  Locked(t, "OnCommandListBegin",
         <<Unknown(t),
           Check(Info(t).state = "RECORDING", "STATE", TRUE),
           Check(Info(t).state = "SUBMITTED", "STATE", TRUE)>>,
         WithInfo(t, [FreshInfo EXCEPT !.state = "RECORDING"]))

OnCommandListEnd(t) ==
  Locked(t, "OnCommandListEnd",
         <<Unknown(t), NotRecording(t),
           Check(Info(t).inPass, "RENDER_PASS", FALSE),
           Check(Info(t).inRendering, "RENDER_PASS", FALSE)>>,
         WithInfo(t, [Info(t) EXCEPT !.state = "EXECUTABLE"]))

OnCommandListSubmit(t) ==
  Locked(t, "OnCommandListSubmit",
         <<Unknown(t), Check(Info(t).state # "EXECUTABLE", "STATE", TRUE)>>,
         WithInfo(t, [Info(t) EXCEPT !.state = "SUBMITTED"]))

OnCommandListReset(t) ==
  Locked(t, "OnCommandListReset", <<Unknown(t)>>, WithInfo(t, FreshInfo))

ValidateDrawCall(t) ==
  Locked(t, "ValidateDrawCall",
         <<Unknown(t), NotRecording(t),
           Check(~ Info(t).inPass /\ ~ Info(t).inRendering, "RENDER_PASS",
                 FALSE),
           Check(~ Info(t).pipeline, "PIPELINE", FALSE),
           Check(~ Info(t).vertex, "STATE", FALSE),
           Check(at[t].args[1] = 0, "COMMAND_LIST", FALSE),
           Check(at[t].args[2] = 0, "COMMAND_LIST", FALSE)>>, tables)

(* The number of instances is not looked at.                               *)
ValidateDrawIndexed(t) ==
  Locked(t, "ValidateDrawIndexed",
         <<Unknown(t), NotRecording(t),
           Check(~ Info(t).inPass /\ ~ Info(t).inRendering, "RENDER_PASS",
                 FALSE),
           Check(~ Info(t).pipeline, "PIPELINE", FALSE),
           Check(~ Info(t).index, "STATE", FALSE),
           Check(~ Info(t).vertex, "STATE", FALSE),
           Check(at[t].args[1] = 0, "COMMAND_LIST", FALSE)>>, tables)

ValidateBeginRenderPass(t) ==
  Locked(t, "ValidateBeginRenderPass",
         <<Unknown(t), NotRecording(t),
           Check(Info(t).inPass, "RENDER_PASS", TRUE),
           Check(Info(t).inRendering, "RENDER_PASS", TRUE),
           Check(~ at[t].ok, "HANDLE", TRUE)>>,
         WithInfo(t, [Info(t) EXCEPT !.inPass = TRUE]))

(* Bug variant: the render pass stays active.                              *)
EndRenderPassKeeping(t) ==
  Locked(t, "ValidateEndRenderPass",
         <<Unknown(t), NotRecording(t),
           Check(~ Info(t).inPass, "RENDER_PASS", TRUE)>>, tables)

ValidateEndRenderPass(t) ==
  Locked(t, "ValidateEndRenderPass",
         <<Unknown(t), NotRecording(t),
           Check(~ Info(t).inPass, "RENDER_PASS", TRUE)>>,
         WithInfo(t, [Info(t) EXCEPT !.inPass = FALSE]))

(* Bug variant: without the check that a render pass is not active.        *)
BeginRenderingAnywhere(t) ==
  Locked(t, "ValidateBeginRendering",
         <<Unknown(t), NotRecording(t),
           Check(Info(t).inRendering, "RENDER_PASS", TRUE),
           Check(~ at[t].ok, "RENDER_PASS", FALSE)>>,
         WithInfo(t, [Info(t) EXCEPT !.inRendering = TRUE]))

ValidateBeginRendering(t) ==
  Locked(t, "ValidateBeginRendering",
         <<Unknown(t), NotRecording(t),
           Check(Info(t).inRendering, "RENDER_PASS", TRUE),
           Check(Info(t).inPass, "RENDER_PASS", TRUE),
           Check(~ at[t].ok, "RENDER_PASS", FALSE)>>,
         WithInfo(t, [Info(t) EXCEPT !.inRendering = TRUE]))

ValidateEndRendering(t) ==
  Locked(t, "ValidateEndRendering",
         <<Unknown(t), NotRecording(t),
           Check(~ Info(t).inRendering, "RENDER_PASS", TRUE)>>,
         WithInfo(t, [Info(t) EXCEPT !.inRendering = FALSE]))

ValidateSetPipeline(t) ==
  Locked(t, "ValidateSetPipeline", <<Unknown(t), NotRecording(t)>>,
         WithInfo(t, [Info(t) EXCEPT !.pipeline = TRUE]))

WrongUsage(t) == Check(at[t].obj \in tables.buffers /\ ~ desc[at[t].obj].usage,
                       "RESOURCE", FALSE)

ValidateSetVertexBuffer(t) ==
  Locked(t, "ValidateSetVertexBuffer",
         <<Unknown(t), NotRecording(t), WrongUsage(t)>>,
         WithInfo(t, [Info(t) EXCEPT !.vertex = TRUE]))

ValidateSetIndexBuffer(t) ==
  Locked(t, "ValidateSetIndexBuffer",
         <<Unknown(t), NotRecording(t), WrongUsage(t)>>,
         WithInfo(t, [Info(t) EXCEPT !.index = TRUE]))

-----------------------------------------------------------------------------
(* The functions that only look at a description do not take the mutex, so *)
(* their reports are made: Report() waits for the mutex and counts.        *)
Unlocked(t, op) ==
  /\ at[t].op = op
  /\ ~ at[t].ok => holder = None
  /\ counted' = (counted \/ ~ at[t].ok)
  /\ at' = [at EXCEPT ![t] = Idle]
  /\ UNCHANGED <<enabled, holder, thrown, tables, programVars>>

ValidateBufferDesc(t) == Unlocked(t, "ValidateBufferDesc")
ValidateTextureDesc(t) == Unlocked(t, "ValidateTextureDesc")
ValidatePipelineDesc(t) == Unlocked(t, "ValidatePipelineDesc")
ValidateRenderPassDesc(t) == Unlocked(t, "ValidateRenderPassDesc")
ValidateFramebufferDesc(t) == Unlocked(t, "ValidateFramebufferDesc")
ValidateRenderingDesc(t) == Unlocked(t, "ValidateRenderingDesc")
ValidateQueueSubmit(t) == Unlocked(t, "ValidateQueueSubmit")

Layer(t) ==
  \/ ValidateBuffer(t) \/ ValidateTexture(t) \/ ValidateTextureView(t)
  \/ ValidatePipeline(t)
  \/ RegisterBuffer(t) \/ UnregisterBuffer(t)
  \/ OnBufferMap(t) \/ OnBufferUnmap(t)
  \/ RegisterTexture(t) \/ UnregisterTexture(t)
  \/ RegisterTextureView(t) \/ UnregisterTextureView(t)
  \/ RegisterPipeline(t) \/ UnregisterPipeline(t)
  \/ ValidateBufferCopy(t) \/ ValidateBufferWrite(t)
  \/ RegisterCommandList(t) \/ UnregisterCommandList(t)
  \/ OnCommandListBegin(t) \/ OnCommandListEnd(t)
  \/ OnCommandListSubmit(t) \/ OnCommandListReset(t)
  \/ ValidateDrawCall(t) \/ ValidateDrawIndexed(t)
  \/ ValidateBeginRenderPass(t) \/ ValidateEndRenderPass(t)
  \/ ValidateBeginRendering(t) \/ ValidateEndRendering(t)
  \/ ValidateSetPipeline(t)
  \/ ValidateSetVertexBuffer(t) \/ ValidateSetIndexBuffer(t)
  \/ ValidateBufferDesc(t) \/ ValidateTextureDesc(t)
  \/ ValidatePipelineDesc(t) \/ ValidateRenderPassDesc(t)
  \/ ValidateFramebufferDesc(t) \/ ValidateRenderingDesc(t)
  \/ ValidateQueueSubmit(t)

Next == \E t \in Threads : \/ \E c \in Calls(t) : Obey(t, c) \/ Err(t, c)
                           \/ t \notin thrown /\ Layer(t)

(* A thread that has entered the layer runs on while it can.               *)
Fairness == \A t \in Threads : WF_vars(t \notin thrown /\ Layer(t))

Spec == Init /\ [][Next]_vars /\ Fairness

-----------------------------------------------------------------------------
(* The tables hold what they should; no list is inside a render pass and a *)
(* rendering block at once, and none but a recording one is inside either, *)
(* as long as the layer watches both.                                      *)
TypeOK ==
  /\ holder \in Threads \cup {None}
  /\ tables.bufferMapped \subseteq tables.buffers
  /\ tables.registered \subseteq Lists
  /\ \A x \in Textures : tables.viewHandles[x] \subseteq Views
  /\ \A l \in Lists :
       LET i == tables.lists[l]
       IN  /\ i.state \in {"INITIAL", "RECORDING", "EXECUTABLE", "SUBMITTED"}
           /\ ~ (i.inPass /\ i.inRendering)
           /\ {"RENDER_PASS", "COMMAND_LIST"} \subseteq enabled =>
                (i.inPass \/ i.inRendering => i.state = "RECORDING")

(* A program that follows the rules is never reported, whatever threads do *)
(* at the same time and whichever categories are on - provided the tables  *)
(* of the objects are kept when handles are checked.  One report is false  *)
(* all the same: a texture is said to have views that were destroyed long  *)
(* ago.                                                                    *)
TablesKept == "HANDLE" \in enabled => {"RESOURCE", "PIPELINE"} \subseteq enabled

ForgottenViews(t) ==
  /\ at[t].op = "UnregisterTexture"
  /\ \A v \in tables.viewHandles[at[t].obj] : status[v] = "dead"

NoFalseReports ==
  TablesKept /\ mistaken = None =>
    \A t \in Threads : holder = t \/ t \in thrown => ForgottenViews(t)

(* With every category on, no mistake goes unnoticed but the indexed draw  *)
(* of no instances and the write or copy that wraps round (Overlooked): the*)
(* thread that made it is in the layer, or a report has been counted.      *)
MistakesNoticed ==
  enabled = Categories /\ mistaken # None =>
    at[mistaken] # Idle \/ counted \/ overlooked

(* Reporting is meant to log, to count and, if configured, to break into a *)
(* debugger; the call that reports then returns.                           *)
ReportsReturn == \A t \in Threads : (at[t] # Idle) ~> (at[t] = Idle)
=============================================================================
