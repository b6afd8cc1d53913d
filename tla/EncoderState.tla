---------------------------- MODULE EncoderState ----------------------------
(***************************************************************************)
(* The compute-encoder commands that draw (compute_inner_ops.c): the       *)
(* render state a task accumulates, the translation of a pipeline state to *)
(* Vulkan objects, and the draw itself (draw_emit.c, draw_descriptors.c,   *)
(* pipeline_build.c), which creates its temporaries, records, waits and    *)
(* frees them.  Any Vulkan call that creates something may fail.           *)
(*                                                                         *)
(* One task.  Handlers run one after the other under the emulator's lock;  *)
(* they are cut into steps so that each creation can fail by itself.  What *)
(* a guest object holds is chosen when it is read.  Surfaces has the       *)
(* registry and the per-pass surface, DrawData the computations,           *)
(* GpuSites the recording.  Policies are at their defaults, the diagnostic *)
(* environment variables unset.                                            *)
(***************************************************************************)
EXTENDS DrawData, FiniteSetsExt

CONSTANTS
    PerKind,      \* bound: Vulkan objects of one kind that can exist at once
    Programs,     \* shader pairs a pipeline state can translate to
    Slots,        \* binding slots 0 .. LAGFX_MAX_BINDING_SLOTS - 1
    FragBase,     \* LAGFX_FRAG_BINDING_BASE: first binding of the fragment stage
    Formats,      \* colour formats of a render pass
    Target,       \* size of the render target
    MaxRect,      \* largest coordinate of a rectangle that is accepted (16384)
    Rects,        \* bound: rectangles the guest asks for
    LayoutFails   \* whether vkCreateDescriptorSetLayout and -PipelineLayout can fail

\* What the AIR reader reports of a shader pair: the component counts of its vertex
\* inputs and its bindings, with the Metal index of each (-1: none).
Program ==
    [in : Seq(Nat), samples : BOOLEAN, stride : Nat,
     bind : Seq([no : Nat, metal : Int, kind : {"image", "sampler", "buffer", "other"}])]

ASSUME EncoderAssumption ==
    /\ PerKind \in Nat /\ FragBase \in Nat /\ LayoutFails \in BOOLEAN
    /\ Programs \subseteq Program /\ Slots \subseteq Nat /\ IsFiniteSet(Slots)
    /\ Target \in [w : Nat, h : Nat] /\ Rects \subseteq [x : Nat, y : Nat, w : Nat, h : Nat]
    /\ MaxRect \in Nat /\ 2 * MaxRect < Word

VARIABLES
    pass,    \* render_pass_desc
    region,  \* viewport and scissor: value and "set in this pass" flag
    bound,   \* which vertex-buffer and fragment-texture slots are valid
    pipe,    \* pending_pipeline
    alive,   \* handles of existing Vulkan objects
    pc, job, \* the handler in progress and its local variables
    since,   \* history: what was set since the render pass began
    lost,    \* history: handles the task forgot without destroying them
    wild     \* history: handles used or destroyed while they did not exist

encVars == <<pass, region, bound, pipe, alive, pc, job, since,
             lost, wild>>

\* A Vulkan handle is a kind and a number; a freed one can come back.
None == <<"null", 0>>
Kinds == {"vs", "fs", "pl", "dsl", "pipeline", "vbuf", "set", "buf"}
NoRect == [x |-> 0, y |-> 0, w |-> 0, h |-> 0]
NoProgram == [in |-> <<>>, bind |-> <<>>, samples |-> FALSE, stride |-> 0]
NoCache == [h |-> None, fmt |-> 0, desc |-> <<>>]
NoPipe == [valid |-> FALSE, translated |-> FALSE, vs |-> None, fs |-> None,
           prog |-> NoProgram, uses |-> {}, layout |-> None, dsl |-> None,
           cache |-> NoCache]
NoJob == [vs |-> None, fs |-> None, dsl |-> None, pl |-> None, prog |-> NoProgram,
          pipeline |-> None, vbuf |-> None, from |-> {}, set |-> None, order |-> <<>>, i |-> 0,
          texOrd |-> 0, bufs |-> {}, written |-> {},
          vp |-> NoRect, sc |-> NoRect]
\* The device's substitute modules are not among the task's handles.
TriVertex == <<"triangle", 1>>
TriFragment == <<"triangle", 2>>

EncInit ==
    /\ pass = [valid |-> FALSE, fmt |-> 0]
    /\ region = [vp |-> NoRect, vpCurrent |-> FALSE, sc |-> NoRect, scHave |-> FALSE]
    /\ bound = [vtx |-> {}, ftex |-> {}]
    /\ pipe = NoPipe
    /\ alive = {}
    /\ pc = "idle" /\ job = NoJob
    /\ since = {} /\ lost = {} /\ wild = {}

\* The handle the driver gives the next object of a kind, if it can make one.
FreeNumbers(kind) == {n \in 1 .. PerKind : <<kind, n>> \notin alive}
CanMake(kind) == FreeNumbers(kind) # {}
New(kind) == <<kind, Min(FreeNumbers(kind))>>

\* vkDestroy..: the null handle is ignored, one that does not exist is remembered.
Destroy(S) ==
    /\ alive' = alive \ S
    /\ wild' = wild \cup (S \ (alive \cup {None}))

Goto(p) == pc' = p /\ UNCHANGED <<since, lost>>

-----------------------------------------------------------------------------
(* Commands that set state. *)

\* 0x1a: a pass begins; viewport and scissor go back to the whole target.
DescribeKeepsRegion(fmt) ==
    /\ pass' = [valid |-> TRUE, fmt |-> fmt]
    /\ UNCHANGED region

Describe(fmt) ==
    /\ pass' = [valid |-> TRUE, fmt |-> fmt]
    /\ region' = [region EXCEPT !.vpCurrent = FALSE, !.scHave = FALSE]

op_render_describe_render_pass(fmt) ==
    /\ pc = "idle"
    /\ Describe(fmt)
    /\ since' = {}
    /\ UNCHANGED <<bound, pipe, alive, pc, job, lost, wild>>

\* 0x75 and 0x82: a rectangle outside the accepted range changes nothing.
AcceptedAny(r) == r.w >= 1 /\ r.h >= 1

Accepted(r) ==
    /\ r.w \in 1 .. MaxRect /\ r.h \in 1 .. MaxRect
    /\ r.x <= MaxRect /\ r.y <= MaxRect

op_set_scissor_rect(r) ==
    /\ pc = "idle" /\ Accepted(r)
    /\ region' = [region EXCEPT !.sc = r, !.scHave = TRUE]
    /\ since' = since \cup {"sc"}
    /\ UNCHANGED <<pass, bound, pipe, alive, pc, job, lost, wild>>

op_set_viewport(r) ==
    /\ pc = "idle" /\ Accepted(r)
    /\ region' = [region EXCEPT !.vp = r, !.vpCurrent = TRUE]
    /\ since' = since \cup {"vp"}
    /\ UNCHANGED <<pass, bound, pipe, alive, pc, job, lost, wild>>

\* Entries first .. first + Len(refs) - 1 of a table; a null reference unbinds, a
\* slot past the table is skipped.
SetSlots(table, first, refs) ==
    LET hit(b) == {s \in Slots : \E i \in 1 .. Len(refs) : s = first + i - 1 /\ refs[i] = b}
    IN  [bound EXCEPT ![table] = (@ \ hit(FALSE)) \cup hit(TRUE)]

\* 0x7d and 0x72.  (0x6e, 0x6f and 0x7e change what a copied buffer will hold, 0x70
\* and 0x17 nothing.)
op_set_vertex_buffers(first, refs) ==
    pc = "idle" /\ bound' = SetSlots("vtx", first, refs)

op_set_fragment_textures(first, refs) ==
    pc = "idle" /\ bound' = SetSlots("ftex", first, refs)

SetBindings ==
    /\ \E first \in Slots, refs \in [1 .. 1 -> BOOLEAN] :
          \/ op_set_vertex_buffers(first, refs)
          \/ op_set_fragment_textures(first, refs)
    /\ UNCHANGED <<pass, region, pipe, alive, pc, job, since,
                   lost, wild>>

\* CmdDeleteTask clears the entry: whatever it owned is forgotten.
Owned == {pipe.vs, pipe.fs, pipe.layout, pipe.dsl, pipe.cache.h} \
             {None, TriVertex, TriFragment}

DeleteTask ==
    /\ pc = "idle" /\ pipe.valid
    /\ pipe' = NoPipe /\ lost' = lost \cup Owned
    /\ pass' = [valid |-> FALSE, fmt |-> 0]
    /\ region' = [vp |-> NoRect, vpCurrent |-> FALSE, sc |-> NoRect, scHave |-> FALSE]
    /\ bound' = [vtx |-> {}, ftex |-> {}]
    /\ since' = {}
    /\ UNCHANGED <<alive, pc, job, wild>>

-----------------------------------------------------------------------------
(* 0x74 SetRenderPipelineState. *)

\* Function lookup, AIR reader, translator and vkCreateShaderModule for the vertex
\* stage and then for the fragment stage.  Only a pair is of use: a single module is
\* destroyed again.
TranslateStages ==
    /\ pc = "idle"
    /\ \/ UNCHANGED <<alive, job>> /\ Goto("substitute")   \* none, or the first alone
       \/ \E prog \in Programs :
             /\ CanMake("vs") /\ CanMake("fs")
             /\ alive' = alive \cup {New("vs"), New("fs")}
             /\ job' = [NoJob EXCEPT !.vs = New("vs"), !.fs = New("fs"), !.prog = prog]
             /\ Goto("layout")
    /\ UNCHANGED <<pass, region, bound, pipe, wild>>

\* Kinds the draw can fill; a fragment shader that samples needs an image.
DrawableAnyKind(prog) == prog.bind # <<>>

Drawable(prog) ==
    LET kinds == {prog.bind[i].kind : i \in 1 .. Len(prog.bind)}
    IN  /\ kinds # {} /\ kinds \subseteq {"image", "sampler", "buffer"}
        /\ prog.samples => "image" \in kinds

\* lagfx_build_pipeline_layout_from_spv: two objects or none, and nothing to do for
\* shaders whose bindings it does not know.
BuildLayout ==
    LET known == \E i \in 1 .. Len(job.prog.bind) : job.prog.bind[i].kind # "other"
    IN  /\ pc = "layout"
        /\ \/ /\ ~known \/ LayoutFails
              /\ UNCHANGED <<alive, job>> /\ Goto("commit")
           \/ /\ known /\ CanMake("dsl") /\ CanMake("pl")
              /\ alive' = alive \cup {New("dsl"), New("pl")}
              /\ job' = [job EXCEPT !.dsl = New("dsl"), !.pl = New("pl")]
              /\ Goto(IF Drawable(job.prog) THEN "commit" ELSE "discard")
        /\ UNCHANGED <<pass, region, bound, pipe, wild>>

\* A pair that cannot be drawn with is thrown away.
DiscardPair ==
    /\ pc = "discard"
    /\ Destroy({job.vs, job.fs, job.dsl, job.pl})
    /\ job' = NoJob /\ Goto("substitute")
    /\ UNCHANGED <<pass, region, bound, pipe>>

\* Objects of the pipeline in use that a change of shaders destroys.
Replaced == (IF pipe.translated THEN {pipe.vs, pipe.fs, pipe.layout, pipe.dsl} ELSE {})
                \cup {pipe.cache.h}

\* The record of the new pair.
CommittedKeepsCache ==
    [valid |-> TRUE, translated |-> TRUE, vs |-> job.vs, fs |-> job.fs,
     prog |-> [job.prog EXCEPT !.bind = IF job.pl = None THEN <<>> ELSE @],
     uses |-> {job.prog.bind[i].no : i \in 1 .. Len(job.prog.bind)},
     layout |-> job.pl, dsl |-> job.dsl, cache |-> pipe.cache]

Committed ==
    [valid |-> TRUE, translated |-> TRUE, vs |-> job.vs, fs |-> job.fs,
     prog |-> [job.prog EXCEPT !.bind = IF job.pl = None THEN <<>> ELSE @],
     uses |-> {job.prog.bind[i].no : i \in 1 .. Len(job.prog.bind)},
     layout |-> job.pl, dsl |-> job.dsl, cache |-> NoCache]

\* The pair becomes the task's pipeline.  Layouts a substitute left in the record
\* are overwritten.
CommitPair ==
    /\ pc = "commit"
    /\ Destroy(Replaced)
    /\ lost' = lost \cup (Owned \ Replaced)
    /\ pipe' = Committed
    /\ job' = NoJob /\ pc' = "idle"
    /\ UNCHANGED <<pass, region, bound, since>>

\* The device's substitute shaders; when it has none the old pipeline stays.
Substitute ==
    /\ pc = "substitute"
    /\ \/ /\ Destroy((IF pipe.translated THEN {pipe.vs, pipe.fs} ELSE {}) \cup {pipe.cache.h})
          /\ pipe' = [pipe EXCEPT !.valid = TRUE, !.translated = FALSE, !.vs = TriVertex,
                                    !.fs = TriFragment, !.uses = {}, !.cache = NoCache]
       \/ UNCHANGED <<alive, wild, pipe>>
    /\ Goto("idle")
    /\ UNCHANGED <<pass, region, bound, job>>

-----------------------------------------------------------------------------
(* Draws. *)

VtxInput == pipe.translated /\ pipe.prog.in # <<>>

\* lagfx_vtx_multi_stream: two leading float2 inputs and slots 0 and 1 bound.
MultiStream ==
    /\ Len(pipe.prog.in) >= 2 /\ pipe.prog.in[1] = 2 /\ pipe.prog.in[2] = 2
    /\ {0, 1} \subseteq bound.vtx

\* The distance of two vertices, for a number of streams: two are interleaved and then
\* packed, whatever the descriptor of the pipeline state says.
Streams == IF MultiStream THEN 2 ELSE 1
Packed == VertexStride(pipe.prog.in, 0)
StrideOf(streams) ==
    IF ~VtxInput THEN 0
    ELSE IF streams = 2 THEN Packed ELSE VertexStride(pipe.prog.in, pipe.prog.stride)

\* What lagfx_pipeline_build is asked for; the number of streams is history.
PipelineDesc ==
    [vs |-> pipe.vs, fs |-> pipe.fs, fmt |-> pass.fmt,
     layout |-> IF pipe.translated THEN pipe.layout ELSE None,
     in |-> IF VtxInput THEN pipe.prog.in ELSE <<>>,
     streams |-> Streams, stride |-> StrideOf(Streams)]

\* 0x01, 0x03, 0x05 and 0x06.  Instances are not drawn; indices are replaced by the
\* vertices they name during the upload.  0x00 is remembered, not emitted.
\* lagfx_emit_pending_draw starts only with a pipeline and a pass.
op_draw_primitives ==
    /\ pc = "idle"
    /\ job' = NoJob
    /\ Goto(IF pipe.valid /\ pass.valid THEN "pipeline" ELSE "idle")
    /\ UNCHANGED <<pass, region, bound, pipe, alive, wild>>

\* lagfx_get_cached_pipeline: rebuilt when the format differs.  The draw ends when
\* the build fails, or when the display has no render target yet.
CacheHitAnyFormat == pipe.cache.h # None

CacheHit == pipe.cache.h # None /\ pipe.cache.fmt = pass.fmt

GetPipeline ==
    LET h == IF pipe.cache.h = None THEN New("pipeline") ELSE pipe.cache.h
    IN  /\ pc = "pipeline"
        /\ \/ /\ CacheHit
              /\ job' = [job EXCEPT !.pipeline = pipe.cache.h]
              /\ UNCHANGED <<pipe, alive, wild>>
              /\ Goto("upload") \/ Goto("idle")
           \/ /\ ~CacheHit
              /\ Destroy({pipe.cache.h})
              /\ pipe' = [pipe EXCEPT !.cache = NoCache]
              /\ Goto("idle") /\ UNCHANGED <<job>>
           \/ /\ ~CacheHit /\ (pipe.cache.h # None \/ CanMake("pipeline"))
              /\ alive' = alive \cup {h}
              /\ wild' = wild \cup ({pipe.cache.h} \ (alive \cup {None}))
              /\ pipe' = [pipe EXCEPT !.cache = [h |-> h, fmt |-> pass.fmt, desc |-> PipelineDesc]]
              /\ job' = [job EXCEPT !.pipeline = h]
              /\ Goto("upload") \/ Goto("idle")
        /\ UNCHANGED <<pass, region, bound>>

\* Slots that shader buffers claim are no vertex streams.
Claimed == {pipe.prog.bind[i].metal : i \in {k \in 1 .. Len(pipe.prog.bind) :
               pipe.prog.bind[k].kind = "buffer" /\ pipe.prog.bind[k].no < FragBase}}

\* The slots the upload can settle on: separate streams are interleaved, a shader led
\* by a float4 tries slot 1, others the best-looking unclaimed slot, and all of them
\* slot 0 by its placement.  Each may turn out to be unreadable, and then the next is
\* tried.
UploadSources ==
    LET in == pipe.prog.in
    IN  IF 0 \notin bound.vtx THEN {}
        ELSE {{0}} \cup (IF MultiStream THEN {{0, 1}} ELSE {})
             \cup (IF Len(in) >= 2 /\ in[1] = 4 /\ 1 \in bound.vtx THEN {{1}}
                   ELSE {{s} : s \in bound.vtx \ Claimed})

\* lagfx_upload_guest_vertex_buffer: a filled buffer, or none.
UploadVertices ==
    /\ pc = "upload"
    /\ \/ /\ VtxInput /\ CanMake("vbuf")
          /\ alive' = alive \cup {New("vbuf")}
          /\ \E from \in UploadSources :
                job' = [job EXCEPT !.vbuf = New("vbuf"), !.from = from]
       \/ UNCHANGED <<alive, job>>
    /\ Goto(IF pipe.translated /\ pipe.dsl # None /\ pipe.layout # None THEN "set"
            ELSE "record")
    /\ UNCHANGED <<pass, region, bound, pipe, wild>>

\* The slots of a set, lowest first.
Ascending(S) ==
    CHOOSE f \in [1 .. Cardinality(S) -> S] : \A i, j \in DOMAIN f : i < j => f[i] < f[j]

\* The order in which images take the bound textures: those that look small first,
\* then the others.  The guest's descriptors are read once for each pass.
TextureOrder(small0, small1) ==
    Ascending(bound.ftex \cap small0) \o Ascending((bound.ftex \ small1) \ small0)

\* lagfx_build_draw_descriptor_set: the set, then one write per binding.
AllocateSet ==
    /\ pc = "set"
    /\ \/ UNCHANGED <<alive, job>> /\ Goto("cleanup")
       \/ /\ CanMake("set")
          /\ alive' = alive \cup {New("set")}
          /\ \E small0, small1 \in SUBSET bound.ftex :
                job' = [job EXCEPT !.set = New("set"), !.i = 1,
                                   !.order = TextureOrder(small0, small1)]
          /\ Goto("bind")
    /\ UNCHANGED <<pass, region, bound, pipe, wild>>

\* Everything built so far goes when one binding cannot be filled.
Abandoned == job.bufs \cup {job.set}

\* The texture of an image: the index of the AIR metadata if it is bound, else the
\* next of the order.
ImageSlots(b) ==
    IF b.metal \in bound.ftex THEN {b.metal}
    ELSE IF job.texOrd < Len(job.order) THEN {job.order[job.texOrd + 1]} ELSE {}

\* One binding of the shader.  A storage buffer is a copy of the slot that the AIR
\* metadata, its order or its contents point to, and of zeros without one.
BindOne ==
    LET b == pipe.prog.bind[job.i]
        next == [job EXCEPT !.i = @ + 1, !.written = @ \cup {b.no},
                            !.texOrd = IF b.kind = "image" THEN @ + 1 ELSE @]
    IN  /\ pc = "bind" /\ job.i <= Len(pipe.prog.bind)
        /\ \/ /\ b.kind = "sampler" \/ (b.kind = "image" /\ ImageSlots(b) # {})
              /\ job' = next
              /\ UNCHANGED <<alive, wild>> /\ Goto("bind")
           \/ /\ b.kind = "buffer" /\ CanMake("buf")
              /\ job' = [next EXCEPT !.bufs = @ \cup {New("buf")}]
              /\ alive' = alive \cup {New("buf")}
              /\ UNCHANGED wild /\ Goto("bind")
           \/ /\ b.kind \in {"image", "sampler", "buffer"}
              /\ Destroy(Abandoned)
              /\ job' = [job EXCEPT !.bufs = {}, !.set = None]
              /\ Goto("cleanup")
           \/ /\ b.kind = "other"
              /\ job' = [job EXCEPT !.i = @ + 1]
              /\ UNCHANGED <<alive, wild>> /\ Goto("bind")
        /\ UNCHANGED <<pass, region, bound, pipe>>

\* A set nothing was written to is given back.
FinishSet ==
    /\ pc = "bind" /\ job.i > Len(pipe.prog.bind)
    /\ IF job.written = {}
       THEN Destroy({job.set}) /\ job' = [job EXCEPT !.set = None] /\ Goto("cleanup")
       ELSE UNCHANGED <<alive, wild, job>> /\ Goto("record")
    /\ UNCHANGED <<pass, region, bound, pipe>>

\* Viewport and scissor the draw asks for.
RegionOf == [vp |-> IF region.vpCurrent THEN region.vp ELSE NoRect,
             sc |-> IF region.scHave THEN region.sc ELSE NoRect]

\* Everything a submission refers to.
Used == {job.pipeline, job.vbuf, job.set} \cup job.bufs
            \cup (IF job.set = None THEN {} ELSE {pipe.layout})

\* lagfx_vk_draw_record_and_submit_bound records, submits and waits (GpuSites).  A
\* draw without vertices, or with neither vertices nor resources, is skipped.
RecordDraw ==
    /\ pc = "record"
    /\ IF (VtxInput => job.vbuf # None) /\ (VtxInput \/ job.set # None)
       THEN /\ job' = [job EXCEPT !.vp = DrawRect(RegionOf.vp, Target),
                                  !.sc = DrawRect(RegionOf.sc, Target)]
            /\ wild' = wild \cup (Used \ (alive \cup {None}))
            /\ Goto("submitted")
       ELSE UNCHANGED <<job, wild>> /\ Goto("cleanup")
    /\ UNCHANGED <<pass, region, bound, pipe, alive>>

Submitted ==
    /\ pc = "submitted" /\ Goto("cleanup")
    /\ UNCHANGED <<pass, region, bound, pipe, alive, job, wild>>

\* The end of lagfx_emit_pending_draw.
CleanupKeepsVertices == job.bufs \cup {job.set}

Temporaries == job.bufs \cup {job.set, job.vbuf}

Cleanup ==
    /\ pc = "cleanup"
    /\ Destroy(Temporaries)
    /\ job' = NoJob /\ Goto("idle")
    /\ UNCHANGED <<pass, region, bound, pipe>>

EncNext ==
    \/ \E fmt \in Formats : op_render_describe_render_pass(fmt)
    \/ \E r \in Rects : op_set_scissor_rect(r) \/ op_set_viewport(r)
    \/ SetBindings
    \/ DeleteTask
    \/ TranslateStages \/ BuildLayout \/ DiscardPair \/ CommitPair \/ Substitute
    \/ op_draw_primitives \/ GetPipeline \/ UploadVertices \/ AllocateSet \/ BindOne \/ FinishSet
    \/ RecordDraw \/ Submitted \/ Cleanup

EncSpec == EncInit /\ [][EncNext]_encVars

-----------------------------------------------------------------------------

\* No Vulkan object is used by a draw, or destroyed, after it was destroyed, although
\* shader changes, format changes and failures replace objects in any order and
\* handles are reused (op_set_render_pipeline_state, lagfx_get_cached_pipeline).
ObjectsExist == wild = {}

\* Between commands every object belongs to the task's pipeline record, or is one the
\* code is known to forget: layouts overwritten after a substitution, and all of them
\* when the task is deleted.  So no draw leaves a buffer, a set or a half-built
\* pipeline behind, wherever it fails (lagfx_emit_pending_draw,
\* lagfx_build_draw_descriptor_set, op_set_render_pipeline_state).
NothingLeftBehind == pc = "idle" => alive \subseteq Owned \cup lost

\* The pipeline a draw is recorded with was built from the shaders and the layout of
\* the current state and for the format of the current pass, however many draws,
\* passes and shader changes lie in between.  Its vertex stride is that of the current
\* state unless slots were bound or unbound since it was built so that the number of
\* vertex streams changed, which the cache does not look at
\* (lagfx_get_cached_pipeline).
PipelineIsCurrent ==
    pc = "submitted" =>
        LET d == pipe.cache.desc
        IN  /\ d.vs = pipe.vs /\ d.fs = pipe.fs /\ d.layout = PipelineDesc.layout
            /\ d.fmt = pass.fmt /\ d.in = PipelineDesc.in
            /\ d.streams = Streams => d.stride = PipelineDesc.stride

\* Interleaved streams are drawn with the packed stride they were written with, as the
\* comments of lagfx_vtx_multi_stream and lagfx_emit_pending_draw ask.  The cached
\* pipeline may have another: it is kept when the second stream is bound.
InterleavedIsPacked ==
    pc = "submitted" /\ job.from = {0, 1} => pipe.cache.desc.stride = Packed

\* Every binding the shaders read was written before the draw, and no two images get
\* one texture through the order, even if the guest rewrites its descriptors while
\* they are read (op_set_render_pipeline_state decides, lagfx_build_draw_descriptor_set
\* writes).
BindingsWritten ==
    /\ pc = "submitted" => pipe.uses \subseteq job.written
    /\ pc = "bind" => IsInjective(job.order)

\* A draw covers the whole target unless viewport or scissor were set after its pass
\* began, and never more than the target, whatever rectangles the guest asks for: those
\* that are accepted cannot make the sums of the cut wrap (op_set_scissor_rect,
\* op_set_viewport, op_render_describe_render_pass,
\* lagfx_vk_draw_record_and_submit_bound).
RegionOfThisPass ==
    pc = "submitted" =>
        /\ "vp" \notin since => job.vp = Whole(Target)
        /\ "sc" \notin since => job.sc = Whole(Target)
        /\ \A r \in {job.vp, job.sc} : r.x + r.w <= Target.w /\ r.y + r.h <= Target.h

\* A draw is recorded with what the state says at the time: its pipeline and its region.
DrawsAreCurrent == PipelineIsCurrent /\ RegionOfThisPass

\* What is read of a buffer is its backing, or a first part of the words its entries
\* place behind the offset, in order; when a part is missing a word of it cannot be
\* read.  Entries whose sizes add up to more than a u64 holds are left out: the loop
\* then passes over them.
ReadInOrder(src, offset, want) ==
    LET all == BufferWords(src.desc)
        due == SubSeq(all, offset + 1, Smaller(Len(all), offset + want))
        got == lagfx_read_vtx_source(src, offset, want)
    IN  IF BackingReadable(src, offset, want) THEN got = BackingWords(src, offset, want)
        ELSE /\ IsPrefix(got, due)
             /\ got # due => \E k \in (Len(got) + 1) .. Len(due) : due[k] \in src.bad

\* Sizes, one of them close to the width; some of the words of page 2 cannot be read.
PlacedInOrder ==
    \A desc \in [1 .. 3 -> [size : {0, 1, 2, Wide - 1}, pfn : {0, 1, 2}]],
       bad \in {{}, {2 * PageWords + 1}}, offset \in {0, 1, 3}, want \in {1, 2, 5} :
          Len(BufferWords(desc)) < Wide =>
             \A backing \in {NoBacking, Wide - 2}, badVa \in {{}, {0}} :
                ReadInOrder([backing |-> backing, desc |-> desc, badVa |-> badVa, bad |-> bad],
                            offset, want)

\* Attributes whose offsets ascend in the descriptor do so in the pipeline.
AttributesAscend ==
    \A in \in SeqOf({2, 4}, 3), attrs \in SeqOf([fmt : {0, 9, 31}, off : {0, 8, 16}], 2) :
       (\A k \in 1 .. (Len(attrs) - 1) : attrs[k].off < attrs[k + 1].off) =>
          \A a \in 1 .. (Len(in) - 1) :
             AttributeOffsets(in, attrs)[a] < AttributeOffsets(in, attrs)[a + 1]

\* An image takes no more bytes than its backing has; one of 8-byte texels whose row
\* length cannot be used is sized as if they were 4 bytes, and takes up to twice as many.
BackingSizes == {4096, 5000, 20480}
RowLengths == {0, 4, 6, 64, 100, 4096}
Heights == {0, 1, 17, 100}

TexturesFit ==
    \A want \in BackingSizes, stride \in RowLengths, h \in Heights, bpp \in {1, 3, 4, 8} :
       LET e == TextureExtent(want, stride, h, bpp)
           guessed == bpp = 8 /\ ~FromRows(want, stride, h, bpp)
       IN  e[1] * e[2] * TexelBytes(bpp) <= IF guessed THEN 2 * want ELSE want

\* What a draw takes from guest buffers is laid out as their descriptors say: a buffer
\* read through its placement yields its words in order, whatever its entries, wherever
\* the read starts and whichever read fails, unless the sizes of the entries overflow;
\* the attributes of a vertex follow one another without sharing an offset, also when a
\* position is put in front of them; and an image takes no more bytes than its backing
\* has, or twice as many if its 8-byte texels had to be sized without a row length
\* (lagfx_read_vtx_source, lagfx_pipeline_build, lagfx_texture_realize).
GuestDataLaidOut ==
    pc = "idle" /\ pipe = NoPipe /\ alive = {} /\ ~pass.valid /\ since = {}
    /\ bound = [vtx |-> {}, ftex |-> {}] => PlacedInOrder /\ AttributesAscend /\ TexturesFit

=============================================================================
