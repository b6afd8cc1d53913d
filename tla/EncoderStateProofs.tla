------------------------- MODULE EncoderStateProofs -------------------------
(***************************************************************************)
(* Proofs about EncoderState.  The argument for the objects is an          *)
(* accounting one: every Vulkan object that exists has an owner, the       *)
(* task's pipeline record, the handler in progress or (forgotten) nobody,  *)
(* no object has two, and what an owner names exists.  The argument for    *)
(* the draw follows the cached pipeline: it is forgotten whenever what it  *)
(* was built from changes.                                                 *)
(***************************************************************************)
EXTENDS EncoderState, TLAPS, FunctionTheorems, FiniteSetTheorems, WellFoundedInduction

\* A field that holds an object of a kind that exists in A, or the null handle.
Live(A, kind, h) == h = None \/ (h \in A /\ h[1] = kind)

\* The fields of the records: each is equal to the record of its own fields.
JobShape(j) ==
    j = [vs |-> j.vs, fs |-> j.fs, dsl |-> j.dsl, pl |-> j.pl, prog |-> j.prog,
         pipeline |-> j.pipeline, vbuf |-> j.vbuf, from |-> j.from, set |-> j.set,
         order |-> j.order, i |-> j.i, texOrd |-> j.texOrd, bufs |-> j.bufs, written |-> j.written,
         vp |-> j.vp, sc |-> j.sc]

PipeShape(p) ==
    /\ p = [valid |-> p.valid, translated |-> p.translated, vs |-> p.vs, fs |-> p.fs,
            prog |-> p.prog, uses |-> p.uses, layout |-> p.layout, dsl |-> p.dsl,
            cache |-> p.cache]
    /\ p.valid \in BOOLEAN /\ p.translated \in BOOLEAN

Shapes == JobShape(job) /\ PipeShape(pipe) /\ \A h \in alive : h[1] \in Kinds

\* What the pipeline record names exists; substitutes belong to the device.
PipeLive ==
    /\ IF pipe.translated THEN Live(alive, "vs", pipe.vs) /\ Live(alive, "fs", pipe.fs)
       ELSE pipe.vs \in {None, TriVertex} /\ pipe.fs \in {None, TriFragment}
    /\ Live(alive, "pl", pipe.layout) /\ Live(alive, "dsl", pipe.dsl)
    /\ Live(alive, "pipeline", pipe.cache.h)

\* What the handler in progress names exists, and is not the record's.
JobLive ==
    /\ Live(alive, "vs", job.vs) /\ Live(alive, "fs", job.fs)
    /\ Live(alive, "dsl", job.dsl) /\ Live(alive, "pl", job.pl)
    /\ Live(alive, "vbuf", job.vbuf) /\ Live(alive, "set", job.set)
    /\ \A h \in job.bufs : h \in alive /\ h[1] = "buf"

Apart ==
    /\ job.vs # None => job.vs # pipe.vs
    /\ job.fs # None => job.fs # pipe.fs
    /\ job.dsl # None => job.dsl # pipe.dsl
    /\ job.pl # None => job.pl # pipe.layout

\* Every object has an owner.
Held == {job.vs, job.fs, job.dsl, job.pl, job.vbuf, job.set} \cup job.bufs
Accounted == alive \subseteq Owned \cup lost \cup Held

\* What the handler can hold at each of its steps.
Translating == {"layout", "commit", "discard"}
Drawing == {"upload", "set", "bind", "record", "submitted"}
Phases ==
    /\ pc \in {"idle", "substitute", "pipeline", "cleanup"} \cup Translating \cup Drawing
    /\ pc \notin Translating =>
          job.vs = None /\ job.fs = None /\ job.dsl = None /\ job.pl = None
    /\ pc = "layout" => job.dsl = None /\ job.pl = None
    /\ pc \in {"idle", "substitute", "pipeline", "upload"} \cup Translating => job.vbuf = None
    /\ pc \in {"idle", "substitute", "pipeline", "upload", "set"} \cup Translating =>
          job.set = None /\ job.bufs = {}

\* The pipeline of a draw is the cached one, which is of the format of the pass.
DrawsWithCache ==
    pc \in Drawing => /\ job.pipeline = pipe.cache.h /\ pipe.cache.h # None
                      /\ pipe.cache.fmt = pass.fmt

\* A cached pipeline was built from what the record holds now.
CacheCurrent ==
    pipe.cache.h # None =>
        /\ pipe.cache.desc.vs = pipe.vs /\ pipe.cache.desc.fs = pipe.fs
        /\ pipe.cache.desc.layout = (IF pipe.translated THEN pipe.layout ELSE None)
        /\ pipe.cache.desc.in = (IF VtxInput THEN pipe.prog.in ELSE <<>>)
        /\ pipe.cache.desc.fmt = pipe.cache.fmt
        /\ pipe.cache.desc.stride = StrideOf(pipe.cache.desc.streams)

ObjectInv ==
    /\ Shapes /\ PipeLive /\ JobLive /\ Apart /\ Accounted /\ Phases
    /\ DrawsWithCache /\ CacheCurrent /\ wild = {}

-----------------------------------------------------------------------------
\* Viewport and scissor are accepted rectangles, count as set only when they were set in
\* this pass, and the rectangles of a draw are cut from them.
Rect == [x : 0 .. MaxRect, y : 0 .. MaxRect, w : 0 .. MaxRect, h : 0 .. MaxRect]
RegionInv ==
    /\ region \in [vp : Rect, vpCurrent : BOOLEAN, sc : Rect, scHave : BOOLEAN]
    /\ region.vpCurrent => "vp" \in since
    /\ region.scHave => "sc" \in since
    /\ pc = "submitted" => /\ job.vp = DrawRect(RegionOf.vp, Target)
                           /\ job.sc = DrawRect(RegionOf.sc, Target)

-----------------------------------------------------------------------------
(* Handles. *)

\* The driver's handle of a new object is of the kind asked for and not in use.
LEMMA NewFresh ==
    ASSUME NEW kind \in Kinds, CanMake(kind)
    PROVE  New(kind) \notin alive /\ New(kind)[1] = kind /\ New(kind)[1] \in Kinds
<1> DEFINE R == {ss \in Nat \X Nat : ss[1] < ss[2]}
           S == FreeNumbers(kind)
<1>1. R = OpToRel(<, Nat)
  BY Zenon DEF OpToRel
<1>2. IsWellFoundedOn(R, Nat)
  BY <1>1, NatLessThanWellFounded
<1>3. S \in SUBSET Nat /\ S # {}
  BY DEF FreeNumbers, CanMake
<1>4. \E n \in S : \A m \in S : ~(<<m, n>> \in R)
  <2> HIDE DEF S, R
  <2> QED  BY <1>2, <1>3, WFMin, Zenon
<1>5. \E n \in S : \A m \in S : n <= m
  <2>1. PICK n \in S : \A m \in S : ~(<<m, n>> \in R)
    BY <1>4
  <2>2. ASSUME NEW m \in S, ~(n <= m) PROVE FALSE
    <3>1. n \in Nat /\ m \in Nat
      BY <1>3
    <3>2. <<m, n>> \in R
      BY <3>1, <2>2
    <3> QED  BY <2>1, <3>2
  <2> QED  BY <2>1, <2>2
<1>6. Min(S) \in S
  BY <1>5, Zenon DEF Min
<1>7. New(kind) = <<kind, Min(S)>>
  BY DEF New
<1>8. New(kind) \notin alive
  BY <1>6, <1>7 DEF FreeNumbers
<1> QED  BY <1>7, <1>8

(* Every action keeps the objects accounted for. *)

LEMMA DescribeInv == ASSUME ObjectInv, NEW fmt, op_render_describe_render_pass(fmt) PROVE ObjectInv'
<1>1. Shapes'
  BY DEF ObjectInv, Shapes, op_render_describe_render_pass
<1>2. PipeLive'
  BY DEF ObjectInv, PipeLive, op_render_describe_render_pass
<1>3. JobLive'
  BY DEF ObjectInv, JobLive, op_render_describe_render_pass
<1>4. Apart'
  BY DEF ObjectInv, Apart, op_render_describe_render_pass
<1>5. Accounted'
  BY DEF ObjectInv, Accounted, Owned, Held, op_render_describe_render_pass
<1>6. Phases'
  BY DEF ObjectInv, Phases, op_render_describe_render_pass
<1>7. DrawsWithCache'
  BY DEF ObjectInv, DrawsWithCache, Drawing, op_render_describe_render_pass
<1>8. CacheCurrent'
  BY DEF ObjectInv, CacheCurrent, StrideOf, Packed, VtxInput, op_render_describe_render_pass
<1>9. wild' = {}
  BY DEF ObjectInv, op_render_describe_render_pass
<1> QED  BY <1>1, <1>2, <1>3, <1>4, <1>5, <1>6, <1>7, <1>8, <1>9 DEF ObjectInv

LEMMA ScissorInv == ASSUME ObjectInv, NEW r, op_set_scissor_rect(r) PROVE ObjectInv'
<1>1. Shapes'
  BY DEF ObjectInv, Shapes, op_set_scissor_rect
<1>2. PipeLive'
  BY DEF ObjectInv, PipeLive, op_set_scissor_rect
<1>3. JobLive'
  BY DEF ObjectInv, JobLive, op_set_scissor_rect
<1>4. Apart'
  BY DEF ObjectInv, Apart, op_set_scissor_rect
<1>5. Accounted'
  BY DEF ObjectInv, Accounted, Owned, Held, op_set_scissor_rect
<1>6. Phases'
  BY DEF ObjectInv, Phases, op_set_scissor_rect
<1>7. DrawsWithCache'
  BY DEF ObjectInv, DrawsWithCache, op_set_scissor_rect
<1>8. CacheCurrent'
  BY DEF ObjectInv, CacheCurrent, StrideOf, Packed, VtxInput, op_set_scissor_rect
<1>9. wild' = {}
  BY DEF ObjectInv, op_set_scissor_rect
<1> QED  BY <1>1, <1>2, <1>3, <1>4, <1>5, <1>6, <1>7, <1>8, <1>9 DEF ObjectInv

LEMMA ViewportInv == ASSUME ObjectInv, NEW r, op_set_viewport(r) PROVE ObjectInv'
<1>1. Shapes'
  BY DEF ObjectInv, Shapes, op_set_viewport
<1>2. PipeLive'
  BY DEF ObjectInv, PipeLive, op_set_viewport
<1>3. JobLive'
  BY DEF ObjectInv, JobLive, op_set_viewport
<1>4. Apart'
  BY DEF ObjectInv, Apart, op_set_viewport
<1>5. Accounted'
  BY DEF ObjectInv, Accounted, Owned, Held, op_set_viewport
<1>6. Phases'
  BY DEF ObjectInv, Phases, op_set_viewport
<1>7. DrawsWithCache'
  BY DEF ObjectInv, DrawsWithCache, op_set_viewport
<1>8. CacheCurrent'
  BY DEF ObjectInv, CacheCurrent, StrideOf, Packed, VtxInput, op_set_viewport
<1>9. wild' = {}
  BY DEF ObjectInv, op_set_viewport
<1> QED  BY <1>1, <1>2, <1>3, <1>4, <1>5, <1>6, <1>7, <1>8, <1>9 DEF ObjectInv

LEMMA BindingsInv == ASSUME ObjectInv, SetBindings PROVE ObjectInv'
<1>1. Shapes'
  BY DEF ObjectInv, Shapes, SetBindings
<1>2. PipeLive'
  BY DEF ObjectInv, PipeLive, SetBindings
<1>3. JobLive'
  BY DEF ObjectInv, JobLive, SetBindings
<1>4. Apart'
  BY DEF ObjectInv, Apart, SetBindings
<1>5. Accounted'
  BY DEF ObjectInv, Accounted, Owned, Held, SetBindings
<1>6. Phases'
  BY DEF ObjectInv, Phases, SetBindings
<1>7. DrawsWithCache'
  BY DEF ObjectInv, DrawsWithCache, SetBindings
<1>8. CacheCurrent'
  BY DEF ObjectInv, CacheCurrent, StrideOf, Packed, VtxInput, SetBindings
<1>9. wild' = {}
  BY DEF ObjectInv, SetBindings
<1> QED  BY <1>1, <1>2, <1>3, <1>4, <1>5, <1>6, <1>7, <1>8, <1>9 DEF ObjectInv

LEMMA DeleteInv == ASSUME ObjectInv, DeleteTask PROVE ObjectInv'
<1>1. Shapes'
  BY DEF ObjectInv, Shapes, PipeShape, DeleteTask, NoPipe
<1>2. PipeLive'
  BY DEF ObjectInv, PipeLive, Live, DeleteTask, NoPipe, NoCache
<1>3. JobLive'
  BY DEF ObjectInv, JobLive, DeleteTask
<1>4. Apart'
  BY DEF ObjectInv, Apart, DeleteTask, NoPipe
<1>5. Accounted'
  BY DEF ObjectInv, Accounted, Held, DeleteTask
<1>6. Phases'
  BY DEF ObjectInv, Phases, DeleteTask
<1>7. DrawsWithCache'
  BY DEF ObjectInv, DrawsWithCache, Drawing, DeleteTask
<1>8. CacheCurrent'
  BY DEF ObjectInv, CacheCurrent, DeleteTask, NoPipe, NoCache
<1>9. wild' = {}
  BY DEF ObjectInv, DeleteTask
<1> QED  BY <1>1, <1>2, <1>3, <1>4, <1>5, <1>6, <1>7, <1>8, <1>9 DEF ObjectInv

LEMMA TranslateInv == ASSUME ObjectInv, TranslateStages PROVE ObjectInv'
<1>1. CASE UNCHANGED <<alive, job>> /\ Goto("substitute")
  <2>1. Shapes'
    BY <1>1 DEF ObjectInv, Shapes, TranslateStages, Goto
  <2>2. PipeLive'
    BY <1>1 DEF ObjectInv, PipeLive, TranslateStages, Goto
  <2>3. JobLive'
    BY <1>1 DEF ObjectInv, JobLive
  <2>4. Apart'
    BY <1>1 DEF ObjectInv, Apart, TranslateStages, Goto
  <2>5. Accounted'
    BY <1>1 DEF ObjectInv, Accounted, Owned, Held, TranslateStages, Goto
  <2>6. Phases'
    BY <1>1 DEF ObjectInv, Phases, Translating, TranslateStages, Goto
  <2>7. DrawsWithCache'
    BY <1>1 DEF ObjectInv, DrawsWithCache, Drawing, Goto
  <2>8. CacheCurrent'
    BY <1>1 DEF ObjectInv, CacheCurrent, StrideOf, Packed, VtxInput, TranslateStages, Goto
  <2>9. wild' = {}
    BY <1>1 DEF ObjectInv, TranslateStages, Goto
  <2> QED  BY <2>1, <2>2, <2>3, <2>4, <2>5, <2>6, <2>7, <2>8, <2>9 DEF ObjectInv
<1>2. ASSUME NEW prog \in Programs,
             CanMake("vs") /\ CanMake("fs"),
             alive' = alive \cup {New("vs"), New("fs")},
             job' = [NoJob EXCEPT !.vs = New("vs"), !.fs = New("fs"), !.prog = prog],
             Goto("layout")
      PROVE  ObjectInv'
  <2> DEFINE v == New("vs")
             f == New("fs")
  <2>a. v \notin alive /\ v[1] = "vs" /\ f \notin alive /\ f[1] = "fs"
    BY <1>2, NewFresh DEF Kinds
  <2>b. /\ alive' = alive \cup {v, f} /\ pc = "idle" /\ pc' = "layout" /\ UNCHANGED <<pipe, pass, lost, wild>>
        /\ job'.vs = v /\ job'.fs = f /\ job'.dsl = None /\ job'.pl = None
        /\ job'.vbuf = None /\ job'.set = None /\ job'.bufs = {}
    BY <1>2 DEF TranslateStages, Goto, NoJob
  <2> HIDE DEF v, f
  <2>1. Shapes'
    <3>1. JobShape(job')
      BY <1>2 DEF ObjectInv, Shapes, JobShape, NoJob
    <3> QED  BY <2>a, <2>b, <3>1 DEF ObjectInv, Shapes, Kinds
  <2>2. PipeLive'
    BY <2>b DEF ObjectInv, PipeLive, Live
  <2>3. JobLive'
    BY <2>a, <2>b DEF ObjectInv, JobLive, Live
  <2>4. Apart'
    BY <2>a, <2>b DEF ObjectInv, PipeLive, Apart, Live, TriVertex, TriFragment
  <2>5. Accounted'
    BY <2>b DEF ObjectInv, Accounted, Phases, Owned, Held, Translating
  <2>6. Phases'
    BY <2>b DEF ObjectInv, Phases, Translating
  <2>7. DrawsWithCache'
    BY <2>b DEF ObjectInv, DrawsWithCache, Drawing
  <2>8. CacheCurrent'
    BY <2>b DEF ObjectInv, CacheCurrent, StrideOf, Packed, VtxInput
  <2>9. wild' = {}
    BY <2>b DEF ObjectInv
  <2> QED  BY <2>1, <2>2, <2>3, <2>4, <2>5, <2>6, <2>7, <2>8, <2>9 DEF ObjectInv
<1> QED  BY <1>1, <1>2 DEF TranslateStages

LEMMA LayoutInv == ASSUME ObjectInv, BuildLayout PROVE ObjectInv'
<1>1. CASE UNCHANGED <<alive, job>> /\ Goto("commit")
  <2>1. Shapes'
    BY <1>1 DEF ObjectInv, Shapes, BuildLayout
  <2>2. PipeLive'
    BY DEF ObjectInv, PipeLive, Live, BuildLayout
  <2>3. JobLive'
    BY <1>1 DEF ObjectInv, JobLive
  <2>4. Apart'
    BY <1>1 DEF ObjectInv, Apart, BuildLayout
  <2>5. Accounted'
    BY <1>1 DEF ObjectInv, Accounted, Owned, Held, BuildLayout, Goto
  <2>6. Phases'
    BY <1>1 DEF ObjectInv, Phases, Translating, BuildLayout, Goto
  <2>7. DrawsWithCache'
    BY DEF ObjectInv, DrawsWithCache, Drawing, BuildLayout, Goto
  <2>8. CacheCurrent'
    BY DEF ObjectInv, CacheCurrent, StrideOf, Packed, VtxInput, BuildLayout
  <2>9. wild' = {}
    BY DEF ObjectInv, BuildLayout
  <2> QED  BY <2>1, <2>2, <2>3, <2>4, <2>5, <2>6, <2>7, <2>8, <2>9 DEF ObjectInv
<1>2. CASE /\ CanMake("dsl") /\ CanMake("pl")
           /\ alive' = alive \cup {New("dsl"), New("pl")}
           /\ job' = [job EXCEPT !.dsl = New("dsl"), !.pl = New("pl")]
           /\ Goto(IF Drawable(job.prog) THEN "commit" ELSE "discard")
  <2> DEFINE d == New("dsl")
             l == New("pl")
  <2>a. d \notin alive /\ d[1] = "dsl" /\ l \notin alive /\ l[1] = "pl"
    BY <1>2, NewFresh DEF Kinds
  <2>b. /\ alive' = alive \cup {d, l} /\ pc = "layout" /\ pc' \in {"commit", "discard"}
        /\ job'.vs = job.vs /\ job'.fs = job.fs /\ job'.dsl = d /\ job'.pl = l
        /\ job'.vbuf = job.vbuf /\ job'.set = job.set /\ job'.bufs = job.bufs
        /\ UNCHANGED <<pipe, pass, lost, wild>>
    BY <1>2 DEF BuildLayout, Goto, ObjectInv, Shapes
  <2> HIDE DEF d, l
  <2>1. Shapes'
    <3>1. JobShape(job')
      BY <1>2 DEF ObjectInv, Shapes, JobShape, NoJob
    <3> QED  BY <2>a, <2>b, <3>1 DEF ObjectInv, Shapes, Kinds
  <2>2. PipeLive'
    BY <2>b DEF ObjectInv, PipeLive, Live
  <2>3. JobLive'
    BY <2>a, <2>b DEF ObjectInv, JobLive, Live
  <2>4. Apart'
    BY <2>a, <2>b DEF ObjectInv, PipeLive, Apart, Live
  <2>5. Accounted'
    BY <2>b DEF ObjectInv, Accounted, Phases, Owned, Held
  <2>6. Phases'
    BY <2>b DEF ObjectInv, Phases, Translating
  <2>7. DrawsWithCache'
    BY <2>b DEF ObjectInv, DrawsWithCache, Drawing
  <2>8. CacheCurrent'
    BY <2>b DEF ObjectInv, CacheCurrent, StrideOf, Packed, VtxInput
  <2>9. wild' = {}
    BY <2>b DEF ObjectInv
  <2> QED  BY <2>1, <2>2, <2>3, <2>4, <2>5, <2>6, <2>7, <2>8, <2>9 DEF ObjectInv
<1> QED  BY <1>1, <1>2 DEF BuildLayout

LEMMA DiscardInv == ASSUME ObjectInv, DiscardPair PROVE ObjectInv'
<1>1. Shapes'
  BY DEF ObjectInv, Shapes, JobShape, DiscardPair, Destroy, NoJob
<1>2. PipeLive'
  BY DEF ObjectInv, PipeLive, JobLive, Apart, Live, DiscardPair, Destroy
<1>3. JobLive'
  BY DEF ObjectInv, JobLive, Live, DiscardPair, NoJob
<1>4. Apart'
  BY DEF ObjectInv, Apart, DiscardPair, NoJob
<1>5. Accounted'
  BY DEF ObjectInv, Accounted, Phases, Owned, Held, Drawing, DiscardPair, Destroy, NoJob, Goto
<1>6. Phases'
  BY DEF ObjectInv, Phases, DiscardPair, NoJob, Goto
<1>7. DrawsWithCache'
  BY DEF ObjectInv, DrawsWithCache, Drawing, DiscardPair, Goto
<1>8. CacheCurrent'
  BY DEF ObjectInv, CacheCurrent, StrideOf, Packed, VtxInput, DiscardPair
<1>9. wild' = {}
  BY DEF ObjectInv, JobLive, Live, DiscardPair, Destroy
<1> QED  BY <1>1, <1>2, <1>3, <1>4, <1>5, <1>6, <1>7, <1>8, <1>9 DEF ObjectInv

LEMMA CommitInv == ASSUME ObjectInv, CommitPair PROVE ObjectInv'
<1>1. Shapes'
  BY DEF ObjectInv, Shapes, JobShape, PipeShape, CommitPair, Destroy, NoJob, Committed
<1>2. PipeLive'
  BY DEF ObjectInv, PipeLive, JobLive, Apart, Live, CommitPair, Destroy, Replaced, Committed,
         NoCache
<1>3. JobLive'
  BY DEF ObjectInv, JobLive, Live, CommitPair, NoJob
<1>4. Apart'
  BY DEF ObjectInv, Apart, CommitPair, NoJob
<1>5. Accounted'
  BY DEF ObjectInv, Shapes, Accounted, Phases, Owned, Held, Translating, Kinds, None,
         TriVertex, TriFragment, CommitPair, Destroy, Committed
<1>6. Phases'
  BY DEF Phases, CommitPair, NoJob
<1>7. DrawsWithCache'
  BY DEF ObjectInv, DrawsWithCache, Drawing, CommitPair
<1>8. CacheCurrent'
  BY DEF ObjectInv, CacheCurrent, CommitPair, Committed, NoCache
<1>9. wild' = {}
  BY DEF ObjectInv, PipeLive, Live, CommitPair, Destroy, Replaced
<1> QED  BY <1>1, <1>2, <1>3, <1>4, <1>5, <1>6, <1>7, <1>8, <1>9 DEF ObjectInv

LEMMA SubstituteInv == ASSUME ObjectInv, Substitute PROVE ObjectInv'
<1>1. CASE UNCHANGED <<alive, wild, pipe>>
  <2>1. Shapes'
    BY <1>1 DEF ObjectInv, Shapes, Substitute
  <2>2. PipeLive'
    BY <1>1 DEF ObjectInv, PipeLive
  <2>3. JobLive'
    BY <1>1 DEF ObjectInv, JobLive, Substitute
  <2>4. Apart'
    BY <1>1 DEF ObjectInv, Apart, Substitute
  <2>5. Accounted'
    BY <1>1 DEF ObjectInv, Accounted, Owned, Held, Substitute, Goto
  <2>6. Phases'
    BY DEF ObjectInv, Phases, Translating, Substitute, Goto
  <2>7. DrawsWithCache'
    BY DEF ObjectInv, DrawsWithCache, Drawing, Substitute, Goto
  <2>8. CacheCurrent'
    BY <1>1 DEF ObjectInv, CacheCurrent, StrideOf, Packed, VtxInput
  <2>9. wild' = {}
    BY <1>1 DEF ObjectInv
  <2> QED  BY <2>1, <2>2, <2>3, <2>4, <2>5, <2>6, <2>7, <2>8, <2>9 DEF ObjectInv
<1>2. CASE /\ Destroy((IF pipe.translated THEN {pipe.vs, pipe.fs} ELSE {}) \cup {pipe.cache.h})
           /\ pipe' = [pipe EXCEPT !.valid = TRUE, !.translated = FALSE, !.vs = TriVertex,
                                   !.fs = TriFragment, !.uses = {}, !.cache = NoCache]
  <2>a. /\ ~pipe'.translated /\ pipe'.vs = TriVertex /\ pipe'.fs = TriFragment
        /\ pipe'.layout = pipe.layout /\ pipe'.dsl = pipe.dsl /\ pipe'.cache = NoCache
    BY <1>2 DEF ObjectInv, Shapes, JobShape, PipeShape
  <2>1. Shapes'
    BY <1>2, <2>a
    DEF ObjectInv, Shapes, JobShape, PipeShape, PipeLive, JobLive, Apart, Accounted, Phases,
        DrawsWithCache, CacheCurrent, Live, Owned, Held, Translating, Drawing, VtxInput, Kinds,
        None, TriVertex, TriFragment, Substitute, Destroy, Goto, NoCache
  <2>2. PipeLive'
    BY <2>a DEF ObjectInv, PipeLive, Live, Substitute, Destroy, NoCache
  <2>3. JobLive'
    BY DEF ObjectInv, JobLive, Phases, Live, Translating, Substitute
  <2>4. Apart'
    BY DEF ObjectInv, Apart, Phases, Translating, Substitute
  <2>5. Accounted'
    BY <2>a DEF ObjectInv, PipeLive, Accounted, Owned, Held, Substitute, Destroy, Goto
  <2>6. Phases'
    BY DEF ObjectInv, Phases, Translating, Substitute, Goto
  <2>7. DrawsWithCache'
    BY DEF ObjectInv, DrawsWithCache, Drawing, Substitute, Goto
  <2>8. CacheCurrent'
    BY <2>a DEF ObjectInv, CacheCurrent, NoCache
  <2>9. wild' = {}
    BY DEF ObjectInv, PipeLive, Live, Substitute, Destroy
  <2> QED  BY <2>1, <2>2, <2>3, <2>4, <2>5, <2>6, <2>7, <2>8, <2>9 DEF ObjectInv
<1> QED  BY <1>1, <1>2 DEF Substitute

LEMMA DrawInv == ASSUME ObjectInv, op_draw_primitives PROVE ObjectInv'
<1>1. Shapes'
  BY DEF ObjectInv, Shapes, JobShape, op_draw_primitives, NoJob
<1>2. PipeLive'
  BY DEF ObjectInv, PipeLive, op_draw_primitives
<1>3. JobLive'
  BY DEF ObjectInv, JobLive, Live, op_draw_primitives, NoJob
<1>4. Apart'
  BY DEF ObjectInv, Apart, op_draw_primitives, NoJob
<1>5. Accounted'
  BY DEF ObjectInv, Accounted, Phases, Owned, Held, Translating, op_draw_primitives, Goto,
         NoJob
<1>6. Phases'
  BY DEF ObjectInv, Phases, op_draw_primitives, Goto, NoJob
<1>7. DrawsWithCache'
  BY DEF ObjectInv, DrawsWithCache, Drawing, op_draw_primitives, Goto
<1>8. CacheCurrent'
  BY DEF ObjectInv, CacheCurrent, StrideOf, Packed, VtxInput, op_draw_primitives
<1>9. wild' = {}
  BY DEF ObjectInv, op_draw_primitives
<1> QED  BY <1>1, <1>2, <1>3, <1>4, <1>5, <1>6, <1>7, <1>8, <1>9 DEF ObjectInv

LEMMA PipelineInv == ASSUME ObjectInv, GetPipeline PROVE ObjectInv'
<1>1. Shapes'
  BY NewFresh
  DEF ObjectInv, Shapes, JobShape, PipeShape, PipeLive, Live, Kinds, GetPipeline, Destroy
<1>2. PipeLive'
  BY NewFresh, SMTT(30)
  DEF ObjectInv, Shapes, JobShape, PipeShape, PipeLive, JobLive, Apart, Accounted, Phases,
      DrawsWithCache, CacheCurrent, Live, Owned, Held, Translating, Drawing, VtxInput, Kinds,
      None, TriVertex, TriFragment, GetPipeline, Destroy, Goto, CacheHit, NoCache, PipelineDesc
<1>3. JobLive'
  BY DEF ObjectInv, Shapes, JobShape, JobLive, Phases, Live, Translating, GetPipeline
<1>4. Apart'
  BY DEF ObjectInv, Shapes, JobShape, PipeShape, Apart, GetPipeline
<1>5. Accounted'
  BY NewFresh
  DEF ObjectInv, Shapes, PipeShape, PipeLive, Accounted, Phases, Live, Owned, Held,
      Translating, Kinds, None, TriVertex, TriFragment, GetPipeline, Destroy, Goto
<1>6. Phases'
  BY DEF ObjectInv, Shapes, JobShape, Phases, Translating, Drawing, GetPipeline, Goto
<1>7. DrawsWithCache'
  BY NewFresh
  DEF ObjectInv, Shapes, JobShape, PipeShape, DrawsWithCache, Drawing, Kinds, None,
      GetPipeline, Goto, CacheHit
<1>8. CacheCurrent'
  BY DEF ObjectInv, Shapes, PipeShape, CacheCurrent, StrideOf, Packed, VtxInput, GetPipeline, NoCache,
         PipelineDesc
<1>9. wild' = {}
  BY DEF ObjectInv, PipeLive, Live, GetPipeline, Destroy
<1> QED  BY <1>1, <1>2, <1>3, <1>4, <1>5, <1>6, <1>7, <1>8, <1>9 DEF ObjectInv

LEMMA UploadInv == ASSUME ObjectInv, UploadVertices PROVE ObjectInv'
<1>1. Shapes'
  BY NewFresh DEF ObjectInv, Shapes, JobShape, Kinds, UploadVertices
<1>2. PipeLive'
  BY DEF ObjectInv, PipeLive, Live, UploadVertices
<1>3. JobLive'
  BY NewFresh DEF ObjectInv, Shapes, JobShape, JobLive, Live, Kinds, UploadVertices
<1>4. Apart'
  BY DEF ObjectInv, Shapes, JobShape, Apart, UploadVertices
<1>5. Accounted'
  BY DEF ObjectInv, Shapes, JobShape, Accounted, Phases, Owned, Held, UploadVertices, Goto
<1>6. Phases'
  BY DEF ObjectInv, Shapes, JobShape, Phases, Translating, Drawing, UploadVertices, Goto
<1>7. DrawsWithCache'
  BY DEF ObjectInv, Shapes, JobShape, DrawsWithCache, Drawing, UploadVertices
<1>8. CacheCurrent'
  BY DEF ObjectInv, CacheCurrent, StrideOf, Packed, VtxInput, UploadVertices
<1>9. wild' = {}
  BY DEF ObjectInv, UploadVertices
<1> QED  BY <1>1, <1>2, <1>3, <1>4, <1>5, <1>6, <1>7, <1>8, <1>9 DEF ObjectInv

LEMMA SetInv == ASSUME ObjectInv, AllocateSet PROVE ObjectInv'
<1>1. CASE UNCHANGED <<alive, job>> /\ Goto("cleanup")
  <2>1. Shapes'
    BY <1>1 DEF ObjectInv, Shapes, AllocateSet, Goto
  <2>2. PipeLive'
    BY <1>1 DEF ObjectInv, PipeLive, AllocateSet, Goto
  <2>3. JobLive'
    BY <1>1 DEF ObjectInv, JobLive
  <2>4. Apart'
    BY <1>1 DEF ObjectInv, Apart, AllocateSet, Goto
  <2>5. Accounted'
    BY <1>1 DEF ObjectInv, Accounted, Owned, Held, AllocateSet, Goto
  <2>6. Phases'
    BY <1>1 DEF ObjectInv, Phases, Translating, AllocateSet, Goto
  <2>7. DrawsWithCache'
    BY <1>1 DEF ObjectInv, DrawsWithCache, Drawing, Goto
  <2>8. CacheCurrent'
    BY <1>1 DEF ObjectInv, CacheCurrent, StrideOf, Packed, VtxInput, AllocateSet, Goto
  <2>9. wild' = {}
    BY <1>1 DEF ObjectInv, AllocateSet, Goto
  <2> QED  BY <2>1, <2>2, <2>3, <2>4, <2>5, <2>6, <2>7, <2>8, <2>9 DEF ObjectInv
<1>2. ASSUME CanMake("set"),
             alive' = alive \cup {New("set")},
             NEW order, job' = [job EXCEPT !.set = New("set"), !.i = 1, !.order = order],
             Goto("bind")
      PROVE  ObjectInv'
  <2> DEFINE h == New("set")
  <2>a. h \notin alive /\ h[1] = "set"
    BY <1>2, NewFresh DEF Kinds
  <2>b. /\ alive' = alive \cup {h} /\ pc = "set" /\ pc' = "bind"
        /\ job'.vs = job.vs /\ job'.fs = job.fs /\ job'.dsl = job.dsl /\ job'.pl = job.pl
        /\ job'.vbuf = job.vbuf /\ job'.set = h /\ job'.bufs = job.bufs
        /\ job'.pipeline = job.pipeline
        /\ UNCHANGED <<pipe, pass, lost, wild>>
    <3>1. pc = "set" /\ pc' = "bind" /\ UNCHANGED <<pipe, pass, lost, wild>>
      BY <1>2, Zenon DEF AllocateSet, Goto
    <3> QED  BY <1>2, <3>1 DEF ObjectInv, Shapes, JobShape
  <2> HIDE DEF h
  <2>1. Shapes'
    <3>1. JobShape(job')
      BY <1>2 DEF ObjectInv, Shapes, JobShape, NoJob
    <3> QED  BY <2>a, <2>b, <3>1 DEF ObjectInv, Shapes, Kinds
  <2>2. PipeLive'
    BY <2>b DEF ObjectInv, PipeLive, Live
  <2>3. JobLive'
    BY <2>a, <2>b DEF ObjectInv, JobLive, Live
  <2>4. Apart'
    BY <2>b DEF ObjectInv, Apart
  <2>5. Accounted'
    BY <2>b DEF ObjectInv, Accounted, Phases, Owned, Held
  <2>6. Phases'
    BY <2>b DEF ObjectInv, Phases, Translating, Drawing
  <2>7. DrawsWithCache'
    BY <2>b DEF ObjectInv, DrawsWithCache, Drawing
  <2>8. CacheCurrent'
    BY <2>b DEF ObjectInv, CacheCurrent, StrideOf, Packed, VtxInput
  <2>9. wild' = {}
    BY <2>b DEF ObjectInv
  <2> QED  BY <2>1, <2>2, <2>3, <2>4, <2>5, <2>6, <2>7, <2>8, <2>9 DEF ObjectInv
<1> QED  BY <1>1, <1>2 DEF AllocateSet

LEMMA BindInv == ASSUME ObjectInv, BindOne PROVE ObjectInv'
<1>1. CASE /\ UNCHANGED <<alive, wild>> /\ Goto("bind")
           /\ \E i, w, t : job' = [job EXCEPT !.i = i, !.written = w, !.texOrd = t]
  <2>1. Shapes'
    BY <1>1
    DEF ObjectInv, Shapes, JobShape, PipeShape, PipeLive, JobLive, Apart, Accounted, Phases,
        DrawsWithCache, CacheCurrent, Live, Owned, Held, Translating, Drawing, VtxInput, Kinds,
        None, TriVertex, TriFragment, BindOne, Goto
  <2>2. PipeLive'
    BY <1>1 DEF ObjectInv, PipeLive, BindOne
  <2>3. JobLive'
    BY <1>1 DEF ObjectInv, JobLive
  <2>4. Apart'
    BY <1>1 DEF ObjectInv, Apart, BindOne
  <2>5. Accounted'
    BY <1>1 DEF ObjectInv, Accounted, Owned, Held, BindOne, Goto
  <2>6. Phases'
    BY <1>1 DEF ObjectInv, Phases, BindOne, Goto
  <2>7. DrawsWithCache'
    BY <1>1 DEF ObjectInv, DrawsWithCache, BindOne, Goto
  <2>8. CacheCurrent'
    BY DEF ObjectInv, CacheCurrent, StrideOf, Packed, VtxInput, BindOne
  <2>9. wild' = {}
    BY <1>1 DEF ObjectInv
  <2> QED  BY <2>1, <2>2, <2>3, <2>4, <2>5, <2>6, <2>7, <2>8, <2>9 DEF ObjectInv
<1>2. ASSUME CanMake("buf"), alive' = alive \cup {New("buf")}, wild' = wild, Goto("bind"),
             NEW i, NEW w, NEW t, 
             job' = [job EXCEPT !.i = i, !.written = w, !.texOrd = t, !.bufs = @ \cup {New("buf")}]
      PROVE  ObjectInv'
  <2> DEFINE h == New("buf")
  <2>a. h \notin alive /\ h[1] = "buf"
    BY <1>2, NewFresh DEF Kinds
  <2>b. /\ alive' = alive \cup {h} /\ pc = "bind" /\ pc' = "bind"
        /\ job'.vs = job.vs /\ job'.fs = job.fs /\ job'.dsl = job.dsl /\ job'.pl = job.pl
        /\ job'.vbuf = job.vbuf /\ job'.set = job.set /\ job'.bufs = job.bufs \cup {h}
        /\ job'.pipeline = job.pipeline
        /\ UNCHANGED <<pipe, pass, lost, wild>>
    BY <1>2 DEF BindOne, Goto, ObjectInv, Shapes
  <2> HIDE DEF h
  <2>1. Shapes'
    <3>1. JobShape(job')
      BY <1>2 DEF ObjectInv, Shapes, JobShape, NoJob
    <3> QED  BY <2>a, <2>b, <3>1 DEF ObjectInv, Shapes, Kinds
  <2>2. PipeLive'
    BY <2>b DEF ObjectInv, PipeLive, Live
  <2>3. JobLive'
    BY <2>a, <2>b DEF ObjectInv, JobLive, Live
  <2>4. Apart'
    BY <2>b DEF ObjectInv, Apart
  <2>5. Accounted'
    BY <2>b DEF ObjectInv, Accounted, Owned, Held
  <2>6. Phases'
    BY <2>b DEF ObjectInv, Phases, Translating
  <2>7. DrawsWithCache'
    BY <2>b DEF ObjectInv, DrawsWithCache
  <2>8. CacheCurrent'
    BY <2>b DEF ObjectInv, CacheCurrent, StrideOf, Packed, VtxInput
  <2>9. wild' = {}
    BY <2>b DEF ObjectInv
  <2> QED  BY <2>1, <2>2, <2>3, <2>4, <2>5, <2>6, <2>7, <2>8, <2>9 DEF ObjectInv
<1>3. CASE /\ Destroy(Abandoned) /\ Goto("cleanup")
           /\ job' = [job EXCEPT !.bufs = {}, !.set = None]
  <2>1. Shapes'
    BY <1>3
    DEF ObjectInv, Shapes, JobShape, PipeShape, PipeLive, JobLive, Apart, Accounted, Phases,
        DrawsWithCache, CacheCurrent, Live, Owned, Held, Translating, Drawing, VtxInput, Kinds,
        None, TriVertex, TriFragment, BindOne, Goto, Destroy, Abandoned
  <2>2. PipeLive'
    BY DEF ObjectInv, PipeLive, JobLive, Live, BindOne, Destroy, Abandoned
  <2>3. JobLive'
    BY <1>3 DEF ObjectInv, JobLive, Live, Destroy, Abandoned
  <2>4. Apart'
    BY <1>3 DEF ObjectInv, Apart, BindOne
  <2>5. Accounted'
    BY <1>3 DEF ObjectInv, Accounted, Owned, Held, BindOne, Goto, Destroy, Abandoned
  <2>6. Phases'
    BY <1>3 DEF ObjectInv, Phases, Translating, BindOne, Goto
  <2>7. DrawsWithCache'
    BY <1>3 DEF ObjectInv, DrawsWithCache, Drawing, Goto
  <2>8. CacheCurrent'
    BY DEF ObjectInv, CacheCurrent, StrideOf, Packed, VtxInput, BindOne
  <2>9. wild' = {}
    BY <1>3 DEF ObjectInv, JobLive, Live, Destroy, Abandoned
  <2> QED  BY <2>1, <2>2, <2>3, <2>4, <2>5, <2>6, <2>7, <2>8, <2>9 DEF ObjectInv
<1> DEFINE b == pipe.prog.bind[job.i]
           next == [job EXCEPT !.i = @ + 1, !.written = @ \cup {b.no},
                               !.texOrd = IF b.kind = "image" THEN @ + 1 ELSE @]
<1>4. next = [job EXCEPT !.i = next.i, !.written = next.written, !.texOrd = next.texOrd]
  BY DEF ObjectInv, Shapes, JobShape, PipeShape
<1>5. [job EXCEPT !.i = @ + 1]
          = [job EXCEPT !.i = job.i + 1, !.written = job.written, !.texOrd = job.texOrd]
  BY DEF ObjectInv, Shapes, JobShape, PipeShape
<1>6. [next EXCEPT !.bufs = @ \cup {New("buf")}]
          = [job EXCEPT !.i = next.i, !.written = next.written, !.texOrd = next.texOrd,
                        !.bufs = @ \cup {New("buf")}]
  BY DEF ObjectInv, Shapes, JobShape, PipeShape
<1> HIDE DEF b
<1>7. \/ job' = next /\ UNCHANGED <<alive, wild>> /\ Goto("bind")
      \/ /\ CanMake("buf") /\ alive' = alive \cup {New("buf")} /\ UNCHANGED wild /\ Goto("bind")
         /\ job' = [next EXCEPT !.bufs = @ \cup {New("buf")}]
      \/ Destroy(Abandoned) /\ job' = [job EXCEPT !.bufs = {}, !.set = None] /\ Goto("cleanup")
      \/ job' = [job EXCEPT !.i = @ + 1] /\ UNCHANGED <<alive, wild>> /\ Goto("bind")
  BY DEF BindOne, b
<1> HIDE DEF next
<1>8. CASE job' = next /\ UNCHANGED <<alive, wild>> /\ Goto("bind")
  BY <1>1, <1>4, <1>8
<1>9. CASE /\ CanMake("buf") /\ alive' = alive \cup {New("buf")} /\ UNCHANGED wild /\ Goto("bind")
           /\ job' = [next EXCEPT !.bufs = @ \cup {New("buf")}]
  BY <1>2, <1>6, <1>9
<1>10. CASE job' = [job EXCEPT !.i = @ + 1] /\ UNCHANGED <<alive, wild>> /\ Goto("bind")
  BY <1>1, <1>5, <1>10
<1> QED  BY <1>3, <1>7, <1>8, <1>9, <1>10

LEMMA FinishInv == ASSUME ObjectInv, FinishSet PROVE ObjectInv'
<1>1. Shapes'
  BY DEF ObjectInv, Shapes, JobShape, FinishSet, Destroy
<1>2. PipeLive'
  BY DEF ObjectInv, PipeLive, JobLive, Live, FinishSet, Destroy
<1>3. JobLive'
  BY DEF ObjectInv, Shapes, JobShape, JobLive, Live, None, FinishSet, Destroy
<1>4. Apart'
  BY DEF ObjectInv, Shapes, JobShape, Apart, FinishSet
<1>5. Accounted'
  BY DEF ObjectInv, Shapes, JobShape, Accounted, Owned, Held, FinishSet, Destroy, Goto
<1>6. Phases'
  BY DEF ObjectInv, Shapes, JobShape, Phases, Translating, Drawing, FinishSet, Goto
<1>7. DrawsWithCache'
  BY DEF ObjectInv, DrawsWithCache, Drawing, FinishSet, Goto
<1>8. CacheCurrent'
  BY DEF ObjectInv, CacheCurrent, StrideOf, Packed, VtxInput, FinishSet
<1>9. wild' = {}
  BY DEF ObjectInv, JobLive, Live, FinishSet, Destroy
<1> QED  BY <1>1, <1>2, <1>3, <1>4, <1>5, <1>6, <1>7, <1>8, <1>9 DEF ObjectInv

LEMMA RecordInv == ASSUME ObjectInv, RecordDraw PROVE ObjectInv'
<1> DEFINE vp == DrawRect(RegionOf.vp, Target)
           sc == DrawRect(RegionOf.sc, Target)
<1>1. CASE /\ job' = [job EXCEPT !.vp = vp, !.sc = sc]
           /\ wild' = wild \cup (Used \ (alive \cup {None}))
           /\ Goto("submitted")
  <2> HIDE DEF vp, sc
  <2>1. Shapes'
    BY <1>1
    DEF ObjectInv, Shapes, JobShape, PipeShape, PipeLive, JobLive, Apart, Accounted, Phases,
        DrawsWithCache, CacheCurrent, Live, Owned, Held, Translating, Drawing, VtxInput, Kinds,
        None, TriVertex, TriFragment, RecordDraw, Goto, Used
  <2>2. PipeLive'
    BY DEF ObjectInv, PipeLive, RecordDraw
  <2>3. JobLive'
    BY <1>1 DEF ObjectInv, JobLive, RecordDraw
  <2>4. Apart'
    BY <1>1 DEF ObjectInv, Apart, RecordDraw
  <2>5. Accounted'
    BY <1>1 DEF ObjectInv, Accounted, Owned, Held, RecordDraw, Goto
  <2>6. Phases'
    BY <1>1 DEF ObjectInv, Phases, Translating, Drawing, RecordDraw, Goto
  <2>7. DrawsWithCache'
    BY <1>1 DEF ObjectInv, DrawsWithCache, Drawing, RecordDraw
  <2>8. CacheCurrent'
    BY DEF ObjectInv, CacheCurrent, StrideOf, Packed, VtxInput, RecordDraw
  <2>9. wild' = {}
    BY DEF ObjectInv, PipeLive, JobLive, Phases, DrawsWithCache, Live, RecordDraw, Used
  <2> QED  BY <2>1, <2>2, <2>3, <2>4, <2>5, <2>6, <2>7, <2>8, <2>9 DEF ObjectInv
<1>2. CASE UNCHANGED <<job, wild>> /\ Goto("cleanup")
  <2>1. Shapes'
    BY <1>2 DEF ObjectInv, Shapes, RecordDraw
  <2>2. PipeLive'
    BY DEF ObjectInv, PipeLive, RecordDraw
  <2>3. JobLive'
    BY <1>2 DEF ObjectInv, JobLive, RecordDraw
  <2>4. Apart'
    BY <1>2 DEF ObjectInv, Apart, RecordDraw
  <2>5. Accounted'
    BY <1>2 DEF ObjectInv, Accounted, Owned, Held, RecordDraw, Goto
  <2>6. Phases'
    BY <1>2 DEF ObjectInv, Phases, Translating, RecordDraw, Goto
  <2>7. DrawsWithCache'
    BY <1>2 DEF ObjectInv, DrawsWithCache, Drawing, Goto
  <2>8. CacheCurrent'
    BY DEF ObjectInv, CacheCurrent, StrideOf, Packed, VtxInput, RecordDraw
  <2>9. wild' = {}
    BY <1>2 DEF ObjectInv
  <2> QED  BY <2>1, <2>2, <2>3, <2>4, <2>5, <2>6, <2>7, <2>8, <2>9 DEF ObjectInv
<1> QED  BY <1>1, <1>2 DEF RecordDraw

LEMMA SubmittedInv == ASSUME ObjectInv, Submitted PROVE ObjectInv'
<1>1. Shapes'
  BY DEF ObjectInv, Shapes, Submitted
<1>2. PipeLive'
  BY DEF ObjectInv, PipeLive, Submitted
<1>3. JobLive'
  BY DEF ObjectInv, JobLive, Submitted
<1>4. Apart'
  BY DEF ObjectInv, Apart, Submitted
<1>5. Accounted'
  BY DEF ObjectInv, Accounted, Owned, Held, Submitted, Goto
<1>6. Phases'
  BY DEF ObjectInv, Phases, Translating, Submitted, Goto
<1>7. DrawsWithCache'
  BY DEF ObjectInv, DrawsWithCache, Drawing, Submitted
<1>8. CacheCurrent'
  BY DEF ObjectInv, CacheCurrent, StrideOf, Packed, VtxInput, Submitted
<1>9. wild' = {}
  BY DEF ObjectInv, Submitted
<1> QED  BY <1>1, <1>2, <1>3, <1>4, <1>5, <1>6, <1>7, <1>8, <1>9 DEF ObjectInv

LEMMA CleanupInv == ASSUME ObjectInv, Cleanup PROVE ObjectInv'
<1>1. Shapes'
  BY DEF ObjectInv, Shapes, JobShape, Cleanup, Destroy, NoJob
<1>2. PipeLive'
  BY DEF ObjectInv, PipeLive, JobLive, Live, Cleanup, Destroy, Temporaries
<1>3. JobLive'
  BY DEF ObjectInv, JobLive, Live, Cleanup, NoJob
<1>4. Apart'
  BY DEF ObjectInv, Apart, Cleanup, NoJob
<1>5. Accounted'
  BY DEF ObjectInv, Accounted, Phases, Owned, Held, Translating, Cleanup, Destroy, Goto, NoJob,
         Temporaries
<1>6. Phases'
  BY DEF ObjectInv, Phases, Cleanup, Goto, NoJob
<1>7. DrawsWithCache'
  BY DEF ObjectInv, DrawsWithCache, Drawing, Cleanup, Goto
<1>8. CacheCurrent'
  BY DEF ObjectInv, CacheCurrent, StrideOf, Packed, VtxInput, Cleanup
<1>9. wild' = {}
  BY DEF ObjectInv, JobLive, Live, Cleanup, Destroy, Temporaries
<1> QED  BY <1>1, <1>2, <1>3, <1>4, <1>5, <1>6, <1>7, <1>8, <1>9 DEF ObjectInv

LEMMA ObjectInit == EncInit => ObjectInv
BY DEF EncInit, ObjectInv, Shapes, JobShape, PipeShape, PipeLive, JobLive, Apart, Accounted,
       Phases, DrawsWithCache, CacheCurrent, Live, Translating, Drawing, NoJob, NoPipe, NoCache

LEMMA ObjectStep == ObjectInv /\ [EncNext]_encVars => ObjectInv'
<1> SUFFICES ASSUME ObjectInv, [EncNext]_encVars PROVE ObjectInv'
  OBVIOUS
<1>1. CASE UNCHANGED encVars
  BY <1>1 DEF encVars, ObjectInv, Shapes, PipeLive, JobLive, Apart, Accounted, Phases,
       DrawsWithCache, CacheCurrent, StrideOf, Packed, VtxInput, Owned, Held
<1> QED
  BY <1>1, DescribeInv, ScissorInv, ViewportInv, BindingsInv, DeleteInv, TranslateInv,
     LayoutInv, DiscardInv, CommitInv, SubstituteInv, DrawInv, PipelineInv, UploadInv, SetInv,
     BindInv, FinishInv, RecordInv, SubmittedInv, CleanupInv DEF EncNext

\* The accounting holds in every state.
THEOREM ObjectsAccounted == EncSpec => []ObjectInv
BY ObjectInit, ObjectStep, PTL DEF EncSpec

\* No Vulkan object is used by a draw, or destroyed, after it was destroyed: for every
\* set of shader pairs, formats and slots, and wherever a creation fails.
THEOREM ObjectsExistAlways == EncSpec => []ObjectsExist
<1>1. ObjectInv => ObjectsExist
  BY DEF ObjectInv, ObjectsExist
<1> QED  BY <1>1, ObjectsAccounted, PTL

\* Between commands every object belongs to the task's pipeline record or is one of
\* the objects the code is known to forget.
THEOREM NothingLeftBehindAlways == EncSpec => []NothingLeftBehind
<1>1. ObjectInv => NothingLeftBehind
  BY DEF ObjectInv, NothingLeftBehind, Accounted, Phases, Held, Shapes, Kinds, None, Translating
<1> QED  BY <1>1, ObjectsAccounted, PTL

-----------------------------------------------------------------------------
(* The region of a draw. *)

\* What an arithmetic of any width leaves alone.
LEMMA SmallMod ==
    ASSUME NEW m \in Nat \ {0}, NEW a \in Nat, a < m
    PROVE  a % m = a
<1> DEFINE d == a \div m
           y == a % m
<1>1. y \in 0 .. (m - 1) /\ d \in Int /\ a = m * d + y
  OBVIOUS
<1> HIDE DEF d, y
<1>2. CASE d >= 1
  <2>1. m * d >= m
    BY <1>1, <1>2
  <2> DEFINE z == m * d
  <2>2. z \in Int
    BY <1>1
  <2> HIDE DEF z
  <2> QED  BY <1>1, <2>1, <2>2 DEF z
<1>3. CASE d <= -1
  <2>1. m * d <= 0 - m
    BY <1>1, <1>3
  <2> DEFINE z == m * d
  <2>2. z \in Int
    BY <1>1
  <2> HIDE DEF z
  <2> QED  BY <1>1, <2>1, <2>2 DEF z
<1>4. CASE d = 0
  BY <1>1, <1>4 DEF y
<1> QED  BY <1>1, <1>2, <1>3, <1>4

\* Accepted rectangles end before u32 does, so the cut is that of the numbers.
LEMMA DrawRectInside ==
    ASSUME NEW r \in Rect
    PROVE  /\ DrawRect(r, Target).x + DrawRect(r, Target).w <= Target.w
           /\ DrawRect(r, Target).y + DrawRect(r, Target).h <= Target.h
           /\ DrawRect(NoRect, Target) = Whole(Target)
<1>1. /\ MaxRect \in Nat /\ 2 * MaxRect < Word /\ Word \in Nat \ {0}
      /\ Target.w \in Nat /\ Target.h \in Nat
  BY EncoderAssumption, PfnAssumption
<1>2. /\ r.x \in Nat /\ r.w \in Nat /\ r.x + r.w \in Nat /\ r.x + r.w < Word
      /\ r.y \in Nat /\ r.h \in Nat /\ r.y + r.h \in Nat /\ r.y + r.h < Word
  BY <1>1 DEF Rect
<1>3. (r.x + r.w) % Word = r.x + r.w /\ (r.y + r.h) % Word = r.y + r.h
  BY <1>1, <1>2, SmallMod
<1> DEFINE w == IF r.x + r.w > Target.w THEN Target.w - r.x ELSE r.w
           h == IF r.y + r.h > Target.h THEN Target.h - r.y ELSE r.h
<1>4. DrawRect(r, Target) = IF r.w = 0 \/ r.x >= Target.w \/ r.y >= Target.h THEN Whole(Target)
                            ELSE [r EXCEPT !.w = w, !.h = h]
  BY <1>3 DEF DrawRect
<1>5. CASE r.w = 0 \/ r.x >= Target.w \/ r.y >= Target.h
  BY <1>1, <1>4, <1>5 DEF Whole, DrawRect, NoRect
<1>6. CASE ~(r.w = 0 \/ r.x >= Target.w \/ r.y >= Target.h)
  <2>1. DrawRect(r, Target) = [x |-> r.x, y |-> r.y, w |-> w, h |-> h]
    <3>1. r = [x |-> r.x, y |-> r.y, w |-> r.w, h |-> r.h]
      BY DEF Rect
    <3>2. DrawRect(r, Target) = [r EXCEPT !.w = w, !.h = h]
      BY <1>4, <1>6
    <3> HIDE DEF w, h
    <3> QED  BY <3>1, <3>2
  <2>2. r.x + w <= Target.w /\ r.y + h <= Target.h
    BY <1>1, <1>2, <1>6
  <2> HIDE DEF w, h
  <2> QED  BY <2>1, <2>2 DEF DrawRect, NoRect, Whole
<1> QED  BY <1>5, <1>6

LEMMA RegionStep == ObjectInv /\ RegionInv /\ [EncNext]_encVars => RegionInv'
<1> SUFFICES ASSUME ObjectInv, RegionInv, [EncNext]_encVars PROVE RegionInv'
  OBVIOUS
<1>1. CASE UNCHANGED encVars
  BY <1>1 DEF encVars, RegionInv, RegionOf
<1>2. ASSUME NEW fmt \in Formats, op_render_describe_render_pass(fmt) PROVE RegionInv'
  BY <1>2 DEF op_render_describe_render_pass, Describe, RegionInv
<1>3. ASSUME NEW r \in Rects, op_set_scissor_rect(r) \/ op_set_viewport(r) PROVE RegionInv'
  <2>1. r \in Rect
    <3>1. r \in [x : Nat, y : Nat, w : Nat, h : Nat] /\ MaxRect \in Nat
      BY EncoderAssumption
    <3>2. Accepted(r)
      BY <1>3 DEF op_set_scissor_rect, op_set_viewport
    <3> QED  BY <3>1, <3>2 DEF Rect, Accepted
  <2>2. CASE op_set_scissor_rect(r)
    BY <2>1, <2>2 DEF op_set_scissor_rect, RegionInv
  <2>3. CASE op_set_viewport(r)
    BY <2>1, <2>3 DEF op_set_viewport, RegionInv
  <2> QED  BY <1>3, <2>2, <2>3
<1>4. CASE DeleteTask
  BY <1>4, EncoderAssumption DEF DeleteTask, RegionInv, Rect, NoRect
<1>5. CASE RecordDraw
  BY <1>5 DEF RecordDraw, RegionInv, RegionOf, Goto, ObjectInv, Shapes, JobShape
<1>6. CASE \/ SetBindings
           \/ TranslateStages \/ BuildLayout \/ DiscardPair \/ CommitPair \/ Substitute
           \/ op_draw_primitives \/ GetPipeline \/ UploadVertices \/ AllocateSet
           \/ BindOne \/ FinishSet \/ Submitted \/ Cleanup
  <2>1. region' = region /\ since' = since /\ pc' # "submitted"
    BY <1>6 DEF SetBindings, TranslateStages, BuildLayout, DiscardPair, CommitPair, Substitute,
         op_draw_primitives, GetPipeline, UploadVertices, AllocateSet, BindOne, FinishSet,
         Submitted, Cleanup, Goto, op_set_vertex_buffers, op_set_fragment_textures
  <2> QED  BY <2>1 DEF RegionInv
<1> QED  BY <1>1, <1>2, <1>3, <1>4, <1>5, <1>6 DEF EncNext

\* A draw is recorded with the pipeline built from the current shaders, layout and
\* format, of the current vertex stride unless the number of streams changed, and with
\* the viewport and scissor of its own pass, cut to the target.
THEOREM DrawsAreCurrentAlways == EncSpec => []DrawsAreCurrent
<1>1. EncInit => RegionInv
  BY EncoderAssumption DEF EncInit, RegionInv, Rect, NoRect
<1>2. ObjectInv /\ RegionInv => DrawsAreCurrent
  <2> SUFFICES ASSUME ObjectInv, RegionInv, pc = "submitted"
               PROVE  PipelineIsCurrent /\ RegionOfThisPass
    BY DEF DrawsAreCurrent, PipelineIsCurrent, RegionOfThisPass
  <2>1. PipelineIsCurrent
    BY DEF PipelineIsCurrent, ObjectInv, DrawsWithCache, Drawing, CacheCurrent, PipelineDesc
  <2>2. RegionOf.vp \in Rect /\ RegionOf.sc \in Rect
    BY EncoderAssumption DEF RegionInv, RegionOf, Rect, NoRect
  <2>3. /\ "vp" \notin since => RegionOf.vp = NoRect
        /\ "sc" \notin since => RegionOf.sc = NoRect
    BY DEF RegionInv, RegionOf
  <2>4. job.vp = DrawRect(RegionOf.vp, Target) /\ job.sc = DrawRect(RegionOf.sc, Target)
    BY DEF RegionInv
  <2>5. RegionOfThisPass
    BY <2>2, <2>3, <2>4, DrawRectInside DEF RegionOfThisPass
  <2> QED  BY <2>1, <2>5
<1> QED  BY <1>1, <1>2, RegionStep, ObjectsAccounted, PTL DEF EncSpec

-----------------------------------------------------------------------------
(* The order in which images take textures. *)

\* A finite set of slots has an ascending enumeration: the inverse of the function
\* that counts, for each element, those that are not above it.
LEMMA AscendingExists ==
    ASSUME NEW S \in SUBSET Nat, IsFiniteSet(S)
    PROVE  \E f \in [1 .. Cardinality(S) -> S] :
              \A i, j \in DOMAIN f : i < j => f[i] < f[j]
<1> DEFINE n == Cardinality(S)
           below(x) == {y \in S : y <= x}
           rank == [x \in S |-> Cardinality(below(x))]
<1>1. n \in Nat
  BY FS_CardinalityType
<1>2. ASSUME NEW x \in S PROVE IsFiniteSet(below(x)) /\ Cardinality(below(x)) \in 1 .. n
  <2>1. IsFiniteSet(below(x)) /\ Cardinality(below(x)) <= n
    BY FS_Subset
  <2>2. Cardinality(below(x)) \in Nat /\ Cardinality(below(x)) # 0
    BY <2>1, FS_CardinalityType, FS_EmptySet
  <2> QED  BY <1>1, <2>1, <2>2
<1>3. ASSUME NEW x \in S, NEW y \in S, x < y
      PROVE  Cardinality(below(x)) < Cardinality(below(y))
  <2>1. below(x) \in SUBSET below(y) /\ y \in below(y) /\ y \notin below(x)
    <3>1. \A z \in S : z \in Nat
      OBVIOUS
    <3>2. (\A z \in S : z <= x => z <= y) /\ y <= y /\ ~(y <= x)
      BY <1>3, <3>1
    <3> QED  BY <3>2, Zenon
  <2>2. /\ Cardinality(below(x)) <= Cardinality(below(y))
        /\ Cardinality(below(y)) = Cardinality(below(x)) => below(y) = below(x)
    BY <1>2, <2>1, FS_Subset
  <2>3. Cardinality(below(x)) \in Nat /\ Cardinality(below(y)) \in Nat
    BY <1>1, <1>2
  <2> QED  BY <2>1, <2>2, <2>3
<1>4. rank \in [S -> 1 .. n]
  BY <1>2
<1>5. \A x, y \in S : x < y => rank[x] < rank[y]
  BY <1>3
<1> HIDE DEF rank
<1>6. rank \in Injection(S, 1 .. n)
  <2>1. ASSUME NEW x \in S, NEW y \in S, rank[x] = rank[y] PROVE x = y
    <3>1. x \in Nat /\ y \in Nat /\ rank[x] \in Nat
      BY <1>1, <1>4
    <3>2. ~(x < y) /\ ~(y < x)
      BY <1>5, <2>1, <3>1
    <3> QED  BY <3>1, <3>2
  <2> QED  BY <1>4, <2>1, Fun_IsInj
<1>7. IsFiniteSet(1 .. n) /\ Cardinality(1 .. n) = n
  BY <1>1, FS_Interval
<1>8. \A i \in 1 .. n : \E x \in S : rank[x] = i
  <2>1. rank \in Surjection(S, 1 .. n)
    <3>1. Cardinality(S) = Cardinality(1 .. n)
      BY <1>7
    <3> HIDE DEF n
    <3> QED  BY <1>6, <1>7, <3>1, FS_Injection
  <2> HIDE DEF n
  <2> QED  BY <2>1, Fun_SurjectionProperties
<1> DEFINE f == [i \in 1 .. n |-> CHOOSE x \in S : rank[x] = i]
<1>9. f \in [1 .. n -> S] /\ \A i \in 1 .. n : rank[f[i]] = i
  BY <1>8
<1>10. ASSUME NEW i \in 1 .. n, NEW j \in 1 .. n, i < j PROVE f[i] < f[j]
  <2> HIDE DEF f
  <2>1. f[i] \in S /\ f[j] \in S /\ rank[f[i]] = i /\ rank[f[j]] = j /\ i # j
    BY <1>9, <1>10
  <2>2. ~(f[j] < f[i]) /\ f[i] # f[j]
    <3>1. i \in Nat /\ j \in Nat
      BY <1>1
    <3>2. f[j] < f[i] => j < i
      BY <1>5, <2>1, Zenon
    <3> QED  BY <1>10, <2>1, <3>1, <3>2
  <2>3. f[i] \in Nat /\ f[j] \in Nat
    BY <2>1
  <2> QED  BY <2>2, <2>3
<1> QED  BY <1>9, <1>10

LEMMA AscendingInjective ==
    ASSUME NEW S \in SUBSET Nat, IsFiniteSet(S)
    PROVE  /\ Ascending(S) \in Seq(S)
           /\ \A i, j \in 1 .. Len(Ascending(S)) : i # j => Ascending(S)[i] # Ascending(S)[j]
<1> DEFINE f == Ascending(S)
<1>1. f \in [1 .. Cardinality(S) -> S] /\ \A i, j \in DOMAIN f : i < j => f[i] < f[j]
  BY AscendingExists, Zenon DEF Ascending
<1>2. Cardinality(S) \in Nat
  BY FS_CardinalityType
<1> HIDE DEF f
<1>3. f \in Seq(S) /\ Len(f) = Cardinality(S)
  BY <1>1, <1>2
<1>4. ASSUME NEW i \in 1 .. Len(f), NEW j \in 1 .. Len(f), i # j PROVE f[i] # f[j]
  <2>1. i \in DOMAIN f /\ j \in DOMAIN f /\ (i < j \/ j < i)
    BY <1>1, <1>2, <1>3, <1>4
  <2>2. f[i] \in Nat /\ f[j] \in Nat /\ (f[i] < f[j] \/ f[j] < f[i])
    BY <1>1, <2>1
  <2> QED  BY <2>2
<1> QED  BY <1>3, <1>4 DEF f

\* No two images take one texture through the order, whatever was read of the guest's
\* descriptors in the two passes.
LEMMA TextureOrderInjective ==
    ASSUME bound.ftex \subseteq Slots, NEW small0, NEW small1
    PROVE  IsInjective(TextureOrder(small0, small1))
<1> DEFINE A == bound.ftex \cap small0
           B == (bound.ftex \ small1) \ small0
           f == Ascending(A)
           g == Ascending(B)
<1>1. A \in SUBSET Nat /\ IsFiniteSet(A) /\ B \in SUBSET Nat /\ IsFiniteSet(B)
  <2>1. A \in SUBSET Slots /\ B \in SUBSET Slots
    OBVIOUS
  <2> HIDE DEF A, B
  <2> QED  BY <2>1, EncoderAssumption, FS_Subset
<1>2. /\ f \in Seq(A) /\ \A i, j \in 1 .. Len(f) : i # j => f[i] # f[j]
      /\ g \in Seq(B) /\ \A i, j \in 1 .. Len(g) : i # j => g[i] # g[j]
  BY <1>1, AscendingInjective
<1>3. A \cap B = {}
  OBVIOUS
<1> HIDE DEF A, B, f, g
<1>4. /\ \A i \in 1 .. Len(f) : (f \o g)[i] = f[i] /\ f[i] \in A
      /\ \A i \in (Len(f) + 1) .. Len(f \o g) :
             (f \o g)[i] = g[i - Len(f)] /\ g[i - Len(f)] \in B /\ i - Len(f) \in 1 .. Len(g)
      /\ DOMAIN (f \o g) = 1 .. Len(f \o g) /\ Len(f) \in Nat /\ Len(f \o g) \in Nat
  BY <1>2
<1>5. ASSUME NEW i \in DOMAIN (f \o g), NEW j \in DOMAIN (f \o g), (f \o g)[i] = (f \o g)[j]
      PROVE  i = j
  <2>1. CASE i <= Len(f) /\ j <= Len(f)
    BY <1>2, <1>4, <1>5, <2>1
  <2>2. CASE i > Len(f) /\ j > Len(f)
    <3>1. i - Len(f) = j - Len(f)
      BY <1>2, <1>4, <1>5, <2>2
    <3> QED  BY <1>4, <3>1
  <2>3. CASE i <= Len(f) /\ j > Len(f)
    BY <1>3, <1>4, <1>5, <2>3
  <2>4. CASE i > Len(f) /\ j <= Len(f)
    BY <1>3, <1>4, <1>5, <2>4
  <2> QED  BY <1>4, <2>1, <2>2, <2>3, <2>4
<1>6. TextureOrder(small0, small1) = f \o g
  BY DEF TextureOrder, f, g, A, B
<1> QED  BY <1>5, <1>6, Zenon DEF IsInjective

-----------------------------------------------------------------------------
(* The bindings a draw writes. *)

\* Every pair that has bindings gets a layout: no creation of one fails, and shaders
\* with bindings have one of a kind the layout builder knows.
LayoutsBuilt ==
    /\ ~LayoutFails
    /\ \A prog \in Programs :
          prog.bind # <<>> => \E i \in 1 .. Len(prog.bind) : prog.bind[i].kind # "other"

Numbers(prog) == {prog.bind[i].no : i \in 1 .. Len(prog.bind)}

\* Drawability is decided when a pair is committed and used at each later draw: the
\* record's layout says that it was found drawable.
LayoutMeansDrawable ==
    IF pipe.translated /\ pipe.layout # None
    THEN pipe.dsl # None /\ Drawable(pipe.prog) /\ pipe.uses = Numbers(pipe.prog)
    ELSE pipe.uses = {}

CommitsDrawable ==
    /\ pc \in Translating => job.prog \in Programs
    /\ pc = "commit" => IF job.pl = None THEN job.prog.bind = <<>>
                        ELSE job.dsl # None /\ Drawable(job.prog)

\* How far the descriptor set is filled.
Written ==
    /\ pc \in {"set", "bind"} => pipe.translated /\ pipe.layout # None
    /\ pc = "bind" => /\ job.i \in 1 .. (Len(pipe.prog.bind) + 1)
                      /\ \A k \in 1 .. (job.i - 1) : pipe.prog.bind[k].no \in job.written
                      /\ IsInjective(job.order)
    /\ pc \in {"record", "submitted"} => pipe.uses \subseteq job.written

BindingInv ==
    /\ bound \in [vtx : SUBSET Slots, ftex : SUBSET Slots] /\ pipe.prog \in Program
    /\ LayoutMeansDrawable /\ CommitsDrawable /\ Written

LEMMA DrawableKinds ==
    ASSUME NEW prog, Drawable(prog), NEW i \in 1 .. Len(prog.bind)
    PROVE  prog.bind[i].kind \in {"image", "sampler", "buffer"}
BY DEF Drawable

\* A step that leaves the record's shaders, the handler's pair and its progress alone
\* keeps the invariant.
LEMMA BindingFrame ==
    ASSUME BindingInv,
           bound' \in [vtx : SUBSET Slots, ftex : SUBSET Slots],
           pipe'.prog = pipe.prog, pipe'.translated = pipe.translated,
           pipe'.layout = pipe.layout, pipe'.dsl = pipe.dsl, pipe'.uses = pipe.uses,
           pc' \notin Translating \cup {"set", "bind", "record", "submitted"}
    PROVE  BindingInv'
BY DEF BindingInv, LayoutMeansDrawable, CommitsDrawable, Written, Translating

LEMMA BindingStep ==
    ASSUME LayoutsBuilt, ObjectInv, BindingInv, [EncNext]_encVars PROVE BindingInv'
<1> USE DEF Translating
<1>1. CASE UNCHANGED encVars
  BY <1>1 DEF encVars, BindingInv, LayoutMeansDrawable, CommitsDrawable, Written
<1>2. ASSUME NEW fmt \in Formats, op_render_describe_render_pass(fmt) PROVE BindingInv'
  BY <1>2, BindingFrame DEF op_render_describe_render_pass, BindingInv
<1>3. ASSUME NEW r \in Rects, op_set_scissor_rect(r) \/ op_set_viewport(r) PROVE BindingInv'
  BY <1>3, BindingFrame DEF op_set_scissor_rect, op_set_viewport, BindingInv
<1>4. CASE SetBindings
  <2>1. \A table \in {"vtx", "ftex"} : \A first, refs :
           SetSlots(table, first, refs) \in [vtx : SUBSET Slots, ftex : SUBSET Slots]
    BY DEF SetSlots, BindingInv
  <2>2. bound' \in [vtx : SUBSET Slots, ftex : SUBSET Slots]
    BY <1>4, <2>1 DEF SetBindings, op_set_vertex_buffers, op_set_fragment_textures
  <2>3. pc = "idle" /\ UNCHANGED <<pipe, pc>>
    BY <1>4 DEF SetBindings, op_set_vertex_buffers, op_set_fragment_textures
  <2> QED  BY <2>2, <2>3, BindingFrame
<1>5. CASE DeleteTask
  <2>1. NoPipe.prog \in Program
    BY DEF NoPipe, NoProgram, Program
  <2> QED
    BY <1>5, <2>1 DEF DeleteTask, BindingInv, LayoutMeansDrawable, CommitsDrawable, Written, NoPipe
<1>6. CASE TranslateStages
  BY <1>6 DEF TranslateStages, Goto, BindingInv, LayoutMeansDrawable, CommitsDrawable, Written,
       NoJob
<1>7. CASE BuildLayout
  <2>1. pc = "layout" /\ UNCHANGED <<pipe, bound>> /\ job.prog \in Programs
    BY <1>7 DEF BuildLayout, BindingInv, CommitsDrawable
  <2>2. pc' \in {"commit", "discard"} /\ job'.prog = job.prog
    BY <1>7 DEF BuildLayout, Goto, ObjectInv, Shapes, JobShape
  <2>3. ASSUME pc' = "commit"
        PROVE  IF job'.pl = None THEN job'.prog.bind = <<>>
               ELSE job'.dsl # None /\ Drawable(job'.prog)
    <3> DEFINE known == \E i \in 1 .. Len(job.prog.bind) : job.prog.bind[i].kind # "other"
    <3>1. CASE (~known \/ LayoutFails) /\ UNCHANGED job
      BY <2>1, <3>1 DEF LayoutsBuilt, ObjectInv, Phases
    <3>2. CASE /\ CanMake("dsl") /\ CanMake("pl")
               /\ job' = [job EXCEPT !.dsl = New("dsl"), !.pl = New("pl")]
               /\ Goto(IF Drawable(job.prog) THEN "commit" ELSE "discard")
      <4>1. New("dsl") # None /\ New("pl") # None
        BY <3>2, NewFresh DEF Kinds, None
      <4>2. Drawable(job.prog)
        BY <2>3, <3>2 DEF Goto
      <4>3. job'.pl = New("pl") /\ job'.dsl = New("dsl")
        BY <3>2 DEF ObjectInv, Shapes, JobShape
      <4> QED  BY <2>2, <4>1, <4>2, <4>3
    <3> QED  BY <1>7, <3>1, <3>2 DEF BuildLayout
  <2> QED
    BY <2>1, <2>2, <2>3 DEF BindingInv, LayoutMeansDrawable, CommitsDrawable, Written
<1>8. CASE DiscardPair
  BY <1>8, BindingFrame DEF DiscardPair, Goto, BindingInv
<1>9. CASE CommitPair
  <2>1. /\ pc' = "idle" /\ UNCHANGED bound /\ job.prog \in Program
        /\ pipe'.prog = [job.prog EXCEPT !.bind = IF job.pl = None THEN <<>> ELSE @]
        /\ pipe'.translated /\ pipe'.layout = job.pl /\ pipe'.dsl = job.dsl
        /\ pipe'.uses = Numbers(job.prog)
        /\ IF job.pl = None THEN job.prog.bind = <<>> ELSE job.dsl # None /\ Drawable(job.prog)
    BY <1>9, EncoderAssumption
    DEF CommitPair, Committed, BindingInv, CommitsDrawable, Numbers
  <2>2. pipe'.prog = job.prog
    BY <2>1 DEF Program
  <2>3. job.pl = None => Numbers(job.prog) = {}
    BY <2>1 DEF Numbers
  <2> QED
    BY <2>1, <2>2, <2>3 DEF BindingInv, LayoutMeansDrawable, CommitsDrawable, Written
<1>10. CASE Substitute
  <2>1. CASE UNCHANGED pipe
    BY <1>10, <2>1, BindingFrame DEF Substitute, Goto, BindingInv
  <2>2. CASE pipe' = [pipe EXCEPT !.valid = TRUE, !.translated = FALSE, !.vs = TriVertex,
                                  !.fs = TriFragment, !.uses = {}, !.cache = NoCache]
    BY <1>10, <2>2 DEF Substitute, Goto, BindingInv, LayoutMeansDrawable, CommitsDrawable,
         Written, ObjectInv, Shapes, PipeShape
  <2> QED  BY <1>10, <2>1, <2>2 DEF Substitute
<1>11. CASE op_draw_primitives \/ Submitted \/ Cleanup
  BY <1>11, BindingFrame DEF op_draw_primitives, Submitted, Cleanup, Goto, BindingInv
<1>12. CASE GetPipeline
  <2>1. /\ pipe'.prog = pipe.prog /\ pipe'.translated = pipe.translated
        /\ pipe'.layout = pipe.layout /\ pipe'.dsl = pipe.dsl /\ pipe'.uses = pipe.uses
    BY <1>12 DEF GetPipeline, ObjectInv, Shapes, PipeShape
  <2>2. pc' \in {"upload", "idle"} /\ UNCHANGED bound
    BY <1>12 DEF GetPipeline, Goto
  <2> QED  BY <2>1, <2>2, BindingFrame DEF BindingInv
<1>13. CASE UploadVertices
  <2>1. UNCHANGED <<pipe, bound>>
    BY <1>13 DEF UploadVertices
  <2>2. CASE pipe.translated /\ pipe.dsl # None /\ pipe.layout # None
    <3>1. pc' = "set"
      BY <1>13, <2>2 DEF UploadVertices, Goto
    <3> QED
      BY <2>1, <2>2, <3>1 DEF BindingInv, LayoutMeansDrawable, CommitsDrawable, Written
  <2>3. CASE ~(pipe.translated /\ pipe.dsl # None /\ pipe.layout # None)
    <3>1. pc' = "record"
      BY <1>13, <2>3 DEF UploadVertices, Goto
    <3>2. pipe.uses = {}
      BY <2>3 DEF BindingInv, LayoutMeansDrawable
    <3> QED
      BY <2>1, <3>1, <3>2 DEF BindingInv, LayoutMeansDrawable, CommitsDrawable, Written
  <2> QED  BY <2>2, <2>3
<1>14. CASE AllocateSet
  <2>1. pc = "set" /\ UNCHANGED <<pipe, bound>>
    BY <1>14 DEF AllocateSet
  <2>2. CASE Goto("cleanup")
    BY <2>1, <2>2, BindingFrame DEF Goto, BindingInv
  <2>3. ASSUME Goto("bind"), NEW small0, NEW small1, NEW h,
               job' = [job EXCEPT !.set = h, !.i = 1, !.order = TextureOrder(small0, small1)]
        PROVE  BindingInv'
    <3>1. IsInjective(TextureOrder(small0, small1))
      BY TextureOrderInjective DEF BindingInv
    <3> DEFINE order == TextureOrder(small0, small1)
    <3>2. job'.i = 1 /\ job'.order = order
      BY <2>3 DEF ObjectInv, Shapes, JobShape
    <3>3. IsInjective(order)
      BY <3>1
    <3> HIDE DEF order
    <3>4. pc' = "bind"
      BY <2>3 DEF Goto
    <3>5. Len(pipe.prog.bind) \in Nat
      BY DEF BindingInv, Program
    <3> QED
      BY <2>1, <3>2, <3>3, <3>4, <3>5
      DEF BindingInv, LayoutMeansDrawable, CommitsDrawable, Written
  <2> QED  BY <1>14, <2>2, <2>3 DEF AllocateSet
<1>15. CASE BindOne
  <2> DEFINE b == pipe.prog.bind[job.i]
             next == [job EXCEPT !.i = @ + 1, !.written = @ \cup {b.no},
                                 !.texOrd = IF b.kind = "image" THEN @ + 1 ELSE @]
  <2>1. /\ pc = "bind" /\ job.i <= Len(pipe.prog.bind) /\ UNCHANGED <<pipe, bound>>
        /\ job.i \in Nat \ {0} /\ Len(pipe.prog.bind) \in Nat
    BY <1>15, SMTT(30) DEF BindOne, BindingInv, Written, Program
  <2>2. b.kind \in {"image", "sampler", "buffer"}
    BY <2>1, DrawableKinds DEF BindingInv, LayoutMeansDrawable, Written
  <2>3. next.i = job.i + 1 /\ next.written = job.written \cup {b.no} /\ next.order = job.order
    BY DEF ObjectInv, Shapes, JobShape
  <2>4. next = [next EXCEPT !.bufs = @]
    BY DEF ObjectInv, Shapes, JobShape
  <2>5. \A bufs : LET j == [next EXCEPT !.bufs = bufs]
                  IN  j.i = next.i /\ j.written = next.written /\ j.order = next.order
    BY DEF ObjectInv, Shapes, JobShape
  <2>6. \/ Goto("cleanup")
        \/ Goto("bind") /\ (job' = next \/ job' = [next EXCEPT !.bufs = @ \cup {New("buf")}])
    BY <1>15, <2>2 DEF BindOne
  <2> HIDE DEF next
  <2>7. CASE Goto("cleanup")
    BY <2>1, <2>7, BindingFrame DEF Goto, BindingInv
  <2>8. CASE Goto("bind") /\ (job' = next \/ job' = [next EXCEPT !.bufs = @ \cup {New("buf")}])
    <3>1. job'.i = job.i + 1 /\ job'.written = job.written \cup {b.no} /\ job'.order = job.order
      BY <2>3, <2>5, <2>8
    <3>2. \A k \in 1 .. (job'.i - 1) : pipe.prog.bind[k].no \in job'.written
      <4> SUFFICES ASSUME NEW k \in 1 .. (job'.i - 1)
                   PROVE  pipe.prog.bind[k].no \in job'.written
        OBVIOUS
      <4>1. k = job.i \/ k \in 1 .. (job.i - 1)
        BY <2>1, <3>1
      <4> QED  BY <2>1, <3>1, <4>1 DEF BindingInv, Written
    <3>3. pc' = "bind" /\ job'.i \in 1 .. (Len(pipe.prog.bind) + 1)
      BY <2>1, <2>8, <3>1 DEF Goto
    <3> QED
      BY <2>1, <3>1, <3>2, <3>3 DEF BindingInv, LayoutMeansDrawable, CommitsDrawable, Written
  <2> QED  BY <2>6, <2>7, <2>8
<1>16. CASE FinishSet
  <2>1. /\ pc = "bind" /\ job.i > Len(pipe.prog.bind) /\ UNCHANGED <<pipe, bound>>
        /\ job.i \in Nat /\ Len(pipe.prog.bind) \in Nat
    BY <1>16 DEF FinishSet, BindingInv, Written, Program
  <2>2. \A k \in 1 .. Len(pipe.prog.bind) : pipe.prog.bind[k].no \in job.written
    <3>1. job.i - 1 = Len(pipe.prog.bind)
      <4> DEFINE n == Len(pipe.prog.bind)
      <4>1. job.i \in 1 .. (n + 1) /\ job.i > n /\ n \in Nat
        BY <2>1 DEF BindingInv, Written
      <4> HIDE DEF n
      <4>2. job.i - 1 = n
        BY <4>1
      <4> QED  BY <4>2 DEF n
    <3>2. \A k \in 1 .. (job.i - 1) : pipe.prog.bind[k].no \in job.written
      BY <2>1 DEF BindingInv, Written
    <3> QED  BY <3>1, <3>2
  <2>3. pipe.uses \subseteq job.written
    BY <2>1, <2>2 DEF BindingInv, Written, LayoutMeansDrawable, Numbers
  <2>4. pc' = "cleanup" \/ (pc' = "record" /\ UNCHANGED job)
    BY <1>16 DEF FinishSet, Goto
  <2> QED
    BY <2>1, <2>3, <2>4 DEF BindingInv, LayoutMeansDrawable, CommitsDrawable, Written
<1>17. CASE RecordDraw
  <2>1. pc = "record" /\ UNCHANGED <<pipe, bound>> /\ pc' \in {"submitted", "cleanup"}
    BY <1>17 DEF RecordDraw, Goto
  <2>2. job'.written = job.written
    BY <1>17 DEF RecordDraw, ObjectInv, Shapes, JobShape
  <2> QED
    BY <2>1, <2>2 DEF BindingInv, LayoutMeansDrawable, CommitsDrawable, Written
<1> QED
  BY <1>1, <1>2, <1>3, <1>4, <1>5, <1>6, <1>7, <1>8, <1>9, <1>10, <1>11, <1>12, <1>13, <1>14,
     <1>15, <1>16, <1>17 DEF EncNext

\* Where every pair with bindings gets a layout, every binding the shaders read was
\* written before the draw, and no two images get one texture through the order.
THEOREM BindingsWrittenAlways ==
    ASSUME LayoutsBuilt
    PROVE  EncSpec => []BindingsWritten
<1>1. EncInit => BindingInv
  BY DEF EncInit, BindingInv, LayoutMeansDrawable, CommitsDrawable, Written, Translating, NoPipe,
       NoProgram, Program
<1>2. ObjectInv /\ BindingInv /\ [EncNext]_encVars => BindingInv'
  BY BindingStep
<1>3. BindingInv => BindingsWritten
  BY DEF BindingInv, Written, BindingsWritten
<1> QED  BY <1>1, <1>2, <1>3, ObjectsAccounted, PTL DEF EncSpec

-----------------------------------------------------------------------------
(* Induction over a range of numbers, and what recursive functions define. *)

\* Induction over the natural numbers, for a set: the smallest number that is not
\* in it cannot exist.
LEMMA SetInduction ==
    ASSUME NEW P, 0 \in P, \A n \in Nat : n \in P => n + 1 \in P
    PROVE  Nat \subseteq P
<1> SUFFICES ASSUME ~(Nat \subseteq P) PROVE FALSE
  OBVIOUS
<1> DEFINE R == {ss \in Nat \X Nat : ss[1] < ss[2]}
           T == Nat \ P
<1>1. R = OpToRel(<, Nat)
  BY Zenon DEF OpToRel
<1>2. IsWellFoundedOn(R, Nat)
  BY <1>1, NatLessThanWellFounded, Zenon
<1>3. T \subseteq Nat /\ T # {}
  OBVIOUS
<1>4. PICK x \in T : \A y \in T : ~ (<<y, x>> \in R)
  <2> HIDE DEF R, T
  <2> QED  BY <1>2, <1>3, WFMin
<1>5. x \in Nat /\ x # 0 /\ x - 1 \in Nat
  OBVIOUS
<1>6. <<x - 1, x>> \in R
  BY <1>5
<1>7. x - 1 \in P
  BY <1>4, <1>5, <1>6
<1>8. (x - 1) + 1 \in P
  BY <1>5, <1>7
<1> QED  BY <1>5, <1>8

\* What is true of the first element of a range and handed on by each to the next
\* is true of all.
LEMMA RangeInduction ==
    ASSUME NEW n \in Nat, NEW P, 0 \in P, \A k \in 1 .. n : k - 1 \in P => k \in P
    PROVE  0 .. n \subseteq P
<1> DEFINE Q == {k \in Nat : k <= n => k \in P}
<1>1. 0 \in Q
  OBVIOUS
<1>2. ASSUME NEW k \in Nat, k \in Q PROVE k + 1 \in Q
  BY <1>2, k + 1 \in 1 .. n \/ ~(k + 1 <= n), (k + 1) - 1 = k
<1>3. Nat \subseteq Q
  <2> HIDE DEF Q
  <2> QED  BY <1>1, <1>2, SetInduction
<1> QED  BY <1>3

\* A function of a number and a value can be iterated: this is what makes a
\* recursive definition over a range of numbers define something.
StepsOn(n, S) == [1 .. n -> [S -> S]]

Iterates(f, n, S, s0, F) ==
    /\ f \in [0 .. n -> S]
    /\ f[0] = s0
    /\ \A i \in 1 .. n : f[i] = F[i][f[i - 1]]

LEMMA Iteration ==
    ASSUME NEW n \in Nat, NEW S, NEW s0 \in S, NEW F \in StepsOn(n, S)
    PROVE  \E f : Iterates(f, n, S, s0, F)
<1>0. F \in [1 .. n -> [S -> S]]
  BY DEF StepsOn
<1> DEFINE Good(m, f) == /\ f \in [0 .. m -> S]
                         /\ f[0] = s0
                         /\ \A i \in 1 .. m : f[i] = F[i][f[i - 1]]
           P == {m \in 0 .. n : \E f : Good(m, f)}
<1>1. 0 \in P
  <2>1. Good(0, [i \in 0 .. 0 |-> s0])
    OBVIOUS
  <2>2. 0 \in 0 .. n
    OBVIOUS
  <2> QED  BY <2>1, <2>2, Zenon
<1>2. ASSUME NEW k \in 1 .. n, k - 1 \in P PROVE k \in P
  <2>1. PICK f : Good(k - 1, f)
    BY <1>2
  <2> DEFINE g == [i \in 0 .. k |-> IF i < k THEN f[i] ELSE F[k][f[k - 1]]]
  <2>2. f[k - 1] \in S
    BY <2>1
  <2>3. F[k][f[k - 1]] \in S
    BY <1>0, <2>2
  <2>4. g \in [0 .. k -> S]
    BY <2>1, <2>3
  <2>5. g[0] = s0
    BY <2>1
  <2>6. ASSUME NEW i \in 1 .. k PROVE g[i] = F[i][g[i - 1]]
    <3>1. CASE i < k
      <4>1. i \in 1 .. (k - 1) /\ i - 1 < k /\ i \in 0 .. k /\ i - 1 \in 0 .. k
        BY <3>1
      <4>2. g[i] = f[i] /\ g[i - 1] = f[i - 1]
        BY <3>1, <4>1
      <4> QED  BY <2>1, <4>1, <4>2
    <3>2. CASE i = k
      <4>1. k \in 0 .. k /\ k - 1 \in 0 .. k /\ k - 1 < k
        OBVIOUS
      <4>2. g[k] = F[k][f[k - 1]] /\ g[k - 1] = f[k - 1]
        BY <4>1
      <4> QED  BY <3>2, <4>2
    <3> QED  BY <3>1, <3>2
  <2>7. Good(k, g)
    <3> HIDE DEF g
    <3> QED  BY <2>4, <2>5, <2>6
  <2>8. k \in 0 .. n
    OBVIOUS
  <2> QED  BY <2>7, <2>8, Zenon
<1>3. n \in P
  <2>1. n \in 0 .. n
    OBVIOUS
  <2> HIDE DEF P
  <2> QED  BY <1>1, <1>2, <2>1, RangeInduction, Zenon
<1> QED  BY <1>3 DEF Iterates

-----------------------------------------------------------------------------
(* Where the words of a buffer lie. *)

\* An entry of a descriptor, and the state of the loop over them.
Entries == [size : 0 .. (Wide - 1), pfn : Nat]
Places == [acc : Nat, logical : Nat, left : Nat, out : Seq(Nat)]

\* The addresses read so far are the first of those wanted.  Either they are all that
\* the entries passed have of them, and then, until all are there, the offset of the
\* next word and the entries' sum are where they should be; or a read failed, which no
\* more follow, and a word that is due cannot be read.
Due(n, all, offset, want) ==
    n = IF Len(all) <= offset THEN 0 ELSE Smaller(Len(all), offset + want) - offset

Running(st, all, offset, want) ==
    /\ Due(Len(st.out), all, offset, want)
    /\ Len(st.out) + st.left = want
    /\ st.left # 0 => st.acc = Len(all) /\ st.logical = offset + Len(st.out)

CutOff(st, all, offset, want, bad) ==
    /\ st.left = 0
    /\ \E k \in 1 .. want : /\ k > Len(st.out) /\ offset + k <= Len(all)
                            /\ all[offset + k] \in bad

Placed(st, all, offset, want, bad) ==
    /\ st \in Places /\ all \in Seq(Nat)
    /\ \A k \in 1 .. Len(st.out) : offset + k \in 1 .. Len(all) /\ st.out[k] = all[offset + k]
    /\ Running(st, all, offset, want) \/ CutOff(st, all, offset, want, bad)

LEMMA WordAtType ==
    ASSUME NEW e \in Entries, NEW k \in Int
    PROVE  WordAt(e, k) \in Nat
<1>1. e.pfn \in Nat /\ PageWords \in Nat /\ Wide \in Nat \ {0}
  BY PfnAssumption DEF Entries
<1>2. e.pfn * PageWords \in Nat
  BY <1>1
<1> DEFINE q == e.pfn * PageWords
<1> HIDE DEF q
<1>3. q \in Nat
  BY <1>2 DEF q
<1>4. (q + k) % Wide \in Nat
  BY <1>1, <1>3
<1> QED  BY <1>4 DEF WordAt, q

LEMMA EntryWordsAre ==
    ASSUME NEW e \in Entries, UsableEntry(e)
    PROVE  /\ EntryWords(e) \in Seq(Nat) /\ Len(EntryWords(e)) = e.size
           /\ e.size \in Nat /\ e.size # 0 /\ e.size < Wide
           /\ \A k \in 1 .. e.size : EntryWords(e)[k] = WordAt(e, k - 1)
<1>1. e.size \in Nat /\ e.size # 0 /\ e.size < Wide
  BY PfnAssumption DEF Entries, UsableEntry
<1>2. EntryWords(e) = [k \in 1 .. e.size |-> WordAt(e, k - 1)]
  BY DEF EntryWords
<1>3. \A k \in 1 .. e.size : WordAt(e, k - 1) \in Nat
  BY <1>1, WordAtType
<1> DEFINE g(k) == WordAt(e, k - 1)
           n == e.size
<1>4. \A k \in 1 .. n : g(k) \in Nat
  BY <1>3
<1> HIDE DEF g, n
<1>5. n \in Nat
  BY <1>1 DEF n
<1>6. [k \in 1 .. n |-> g(k)] \in Seq(Nat) /\ Len([k \in 1 .. n |-> g(k)]) = n
  BY <1>4, <1>5
<1>7. EntryWords(e) = [k \in 1 .. n |-> g(k)]
  BY <1>2 DEF g, n
<1>8. \A k \in 1 .. n : EntryWords(e)[k] = g(k)
  BY <1>7
<1> QED  BY <1>1, <1>6, <1>7, <1>8 DEF g, n

\* Two sequences, one after the other.
LEMMA Joined ==
    ASSUME NEW a \in Seq(Nat), NEW b \in Seq(Nat)
    PROVE  /\ a \o b \in Seq(Nat) /\ Len(a) \in Nat /\ Len(b) \in Nat
           /\ Len(a \o b) = Len(a) + Len(b)
           /\ \A k \in 1 .. Len(a) : (a \o b)[k] = a[k]
           /\ \A k \in 1 .. Len(b) : (a \o b)[Len(a) + k] = b[k]
OBVIOUS

\* The words an iteration reads.
Part(e, within, chunk) == [k \in 1 .. chunk |-> WordAt(e, within + k - 1)]

LEMMA PartIs ==
    ASSUME NEW e \in Entries, NEW within \in Nat, NEW chunk \in Nat
    PROVE  /\ Part(e, within, chunk) \in Seq(Nat) /\ Len(Part(e, within, chunk)) = chunk
           /\ \A k \in 1 .. chunk : Part(e, within, chunk)[k] = WordAt(e, within + k - 1)
<1> DEFINE g(k) == WordAt(e, within + k - 1)
<1>1. \A k \in 1 .. chunk : g(k) \in Nat
  BY WordAtType
<1> HIDE DEF g
<1>2. /\ [k \in 1 .. chunk |-> g(k)] \in Seq(Nat) /\ Len([k \in 1 .. chunk |-> g(k)]) = chunk
      /\ \A k \in 1 .. chunk : [j \in 1 .. chunk |-> g(j)][k] = g(k)
  BY <1>1
<1> QED  BY <1>2 DEF Part, g

\* An iteration keeps its state a state, whatever the sums do.
LEMMA PlacementStepType ==
    ASSUME NEW bad, NEW st \in Places, NEW e \in Entries
    PROVE  PlacementStep(bad, st, e) \in Places
<1> DEFINE sum == (st.acc + e.size) % Wide
           within == (st.logical - st.acc) % Wide
           chunk == Smaller((e.size - within) % Wide, st.left)
           part == Part(e, within, chunk)
           next == (st.logical + chunk) % Wide
<1>1. /\ st.acc \in Nat /\ st.logical \in Nat /\ st.left \in Nat /\ st.out \in Seq(Nat)
      /\ st = [acc |-> st.acc, logical |-> st.logical, left |-> st.left, out |-> st.out]
  BY DEF Places
<1>2. e.size \in Nat /\ Wide \in Nat \ {0}
  BY PfnAssumption DEF Entries
<1>3. sum \in Nat /\ within \in Nat
  BY <1>1, <1>2
<1>4. (e.size - within) % Wide \in Nat
  <2> HIDE DEF within
  <2> QED  BY <1>2, <1>3
<1>5. chunk \in Nat /\ st.left - chunk \in Nat
  <2> DEFINE m == (e.size - within) % Wide
  <2> HIDE DEF m
  <2> QED  BY <1>1, <1>4 DEF Smaller, m
<1> HIDE DEF sum, within, chunk
<1>6. next \in Nat
  BY <1>1, <1>2, <1>5
<1>7. part \in Seq(Nat)
  BY <1>3, <1>5, PartIs
<1> HIDE DEF next, part
<1>8. st.out \o part \in Seq(Nat)
  BY <1>1, <1>7, Joined
<1>9. \/ PlacementStep(bad, st, e) = st
      \/ PlacementStep(bad, st, e) = [st EXCEPT !.acc = sum]
      \/ PlacementStep(bad, st, e) = [st EXCEPT !.left = 0]
      \/ PlacementStep(bad, st, e)
             = [acc |-> sum, logical |-> next, left |-> st.left - chunk, out |-> st.out \o part]
  BY Zenon DEF PlacementStep, sum, within, chunk, next, part, Part
<1>10. [st EXCEPT !.acc = sum] = [acc |-> sum, logical |-> st.logical, left |-> st.left, out |-> st.out]
  BY <1>1
<1>11. [st EXCEPT !.left = 0] = [acc |-> st.acc, logical |-> st.logical, left |-> 0, out |-> st.out]
  BY <1>1
<1>12. [acc |-> sum, logical |-> st.logical, left |-> st.left, out |-> st.out] \in Places
  BY <1>1, <1>3 DEF Places
<1>13. [acc |-> st.acc, logical |-> st.logical, left |-> 0, out |-> st.out] \in Places
  BY <1>1 DEF Places
<1> DEFINE s4 == [acc |-> sum, logical |-> next, left |-> st.left - chunk, out |-> st.out \o part]
<1>14. s4 \in Places
  BY <1>3, <1>5, <1>6, <1>8 DEF Places
<1> HIDE DEF s4
<1> QED  BY <1>9, <1>10, <1>11, <1>12, <1>13, <1>14 DEF s4

\* An entry, usable or not, passed by the loop, as long as the sizes do not overflow.
LEMMA PlacedStep ==
    ASSUME NEW offset \in Nat, NEW want \in Nat, NEW bad, NEW e \in Entries, NEW st, NEW all,
           Placed(st, all, offset, want, bad), Len(all \o EntryWords(e)) < Wide
    PROVE  Placed(PlacementStep(bad, st, e), all \o EntryWords(e), offset, want, bad)
<1> DEFINE L == Len(all)
           n == Len(st.out)
<1>1. st \in Places /\ all \in Seq(Nat)
  BY DEF Placed
<1>2. /\ st.acc \in Nat /\ st.logical \in Nat /\ st.left \in Nat /\ st.out \in Seq(Nat)
      /\ st = [acc |-> st.acc, logical |-> st.logical, left |-> st.left, out |-> st.out]
  BY <1>1 DEF Places
<1>3. L \in Nat /\ n \in Nat /\ Wide \in Nat \ {0}
  BY <1>1, <1>2, PfnAssumption
<1>4. \A k \in 1 .. n : offset + k \in 1 .. L /\ st.out[k] = all[offset + k]
  BY DEF Placed
<1>5. Running(st, all, offset, want) \/ CutOff(st, all, offset, want, bad)
  BY DEF Placed
<1>6. PlacementStep(bad, st, e) \in Places
  BY <1>1, PlacementStepType
<1>7. CASE ~UsableEntry(e)
  <2>1. PlacementStep(bad, st, e) = st /\ EntryWords(e) = <<>>
    BY <1>7 DEF PlacementStep, EntryWords
  <2>2. all \o <<>> = all
    BY <1>1
  <2> QED  BY <2>1, <2>2
<1>8. CASE UsableEntry(e)
  <2> DEFINE new == EntryWords(e)
             more == all \o new
             size == e.size
             M == L + size
  <2>1. /\ new \in Seq(Nat) /\ Len(new) = size /\ size \in Nat /\ size # 0 /\ size < Wide
        /\ \A k \in 1 .. size : new[k] = WordAt(e, k - 1)
    BY <1>8, EntryWordsAre
  <2> HIDE DEF new
  <2>2. /\ more \in Seq(Nat) /\ Len(more) = M /\ M \in Nat
        /\ \A k \in 1 .. L : more[k] = all[k]
        /\ \A k \in 1 .. size : more[L + k] = new[k]
    <3>1. /\ all \o new \in Seq(Nat) /\ Len(all \o new) = Len(all) + Len(new)
          /\ \A k \in 1 .. Len(all) : (all \o new)[k] = all[k]
          /\ \A k \in 1 .. Len(new) : (all \o new)[Len(all) + k] = new[k]
      BY <1>1, <2>1, Joined
    <3>2. Len(new) = size
      BY <2>1
    <3>3. L + size \in Nat
      BY <1>3, <2>1
    <3> HIDE DEF size, L
    <3> QED  BY <3>1, <3>2, <3>3, Zenon DEF L
  <2>3. M < Wide
    BY <2>2 DEF new
  <2> HIDE DEF more
  <2>4. \A k \in 1 .. n : offset + k \in 1 .. M /\ st.out[k] = more[offset + k]
    <3> SUFFICES ASSUME NEW k \in 1 .. n PROVE offset + k \in 1 .. M /\ st.out[k] = more[offset + k]
      OBVIOUS
    <3>1. offset + k \in 1 .. L /\ st.out[k] = all[offset + k]
      BY <1>4
    <3>2. more[offset + k] = all[offset + k]
      BY <2>2, <3>1
    <3>3. offset + k \in 1 .. M
      <4> HIDE DEF L, size
      <4> QED  BY <1>3, <2>1, <3>1
    <3> QED  BY <3>1, <3>2, <3>3
  <2> SUFFICES Placed(PlacementStep(bad, st, e), more, offset, want, bad)
    BY DEF more, new
  <2> HIDE DEF size
  <2>5. CASE st.left = 0
    <3>1. PlacementStep(bad, st, e) = st
      BY <2>5 DEF PlacementStep
    <3>2. CASE Running(st, all, offset, want)
      <4>1. n = want /\ n = IF L <= offset THEN 0 ELSE Smaller(L, offset + want) - offset
        BY <1>3, <2>5, <3>2 DEF Running, Due
      <4>2. n = IF M <= offset THEN 0 ELSE Smaller(M, offset + want) - offset
        <5> HIDE DEF n, L
        <5> QED  BY <1>3, <2>1, <4>1 DEF Smaller
      <4>3. Running(st, more, offset, want)
        <5>1. n + st.left = want
          BY <1>3, <2>5, <4>1
        <5> QED  BY <2>2, <2>5, <4>2, <5>1 DEF Running, Due
      <4> QED  BY <1>1, <2>2, <2>4, <3>1, <4>3 DEF Placed
    <3>3. CASE CutOff(st, all, offset, want, bad)
      <4>1. PICK k \in 1 .. want : k > n /\ offset + k <= L /\ all[offset + k] \in bad
        BY <3>3 DEF CutOff
      <4>2. offset + k \in 1 .. L /\ offset + k <= M
        <5> HIDE DEF L
        <5> QED  BY <1>3, <2>1, <4>1
      <4>3. more[offset + k] \in bad
        BY <2>2, <4>1, <4>2
      <4>4. CutOff(st, more, offset, want, bad)
        BY <2>2, <2>5, <4>1, <4>2, <4>3 DEF CutOff
      <4> QED  BY <1>1, <2>2, <2>4, <3>1, <4>4 DEF Placed
    <3> QED  BY <1>5, <3>2, <3>3
  <2>6. CASE st.left # 0
    <3>1. Running(st, all, offset, want)
      BY <1>5, <2>6 DEF CutOff
    <3>2. /\ n = IF L <= offset THEN 0 ELSE Smaller(L, offset + want) - offset
          /\ n + st.left = want /\ st.acc = L /\ st.logical = offset + n
      BY <2>6, <3>1 DEF Running, Due
    <3>3. offset + n >= L /\ (n = 0 \/ offset + n = L)
      <4> HIDE DEF n, L
      <4> QED  BY <1>2, <1>3, <2>6, <3>2 DEF Smaller
    <3>4. (st.acc + size) % Wide = M
      BY <1>3, <2>2, <2>3, <3>2, SmallMod
    <3>5. CASE st.logical >= M
      <4> DEFINE s2 == [st EXCEPT !.acc = M]
      <4>1. PlacementStep(bad, st, e) = s2
        BY <1>8, <2>6, <3>4, <3>5 DEF PlacementStep, size
      <4>2. s2.out = st.out /\ s2.acc = M /\ s2.logical = st.logical /\ s2.left = st.left
        BY <1>2
      <4> HIDE DEF s2
      <4>3. n = 0 /\ M <= offset
        <5> HIDE DEF n, L
        <5> QED  BY <1>3, <2>1, <3>2, <3>3, <3>5
      <4>4. Running(s2, more, offset, want)
        BY <2>2, <3>2, <4>2, <4>3 DEF Running, Due
      <4> QED  BY <1>6, <2>2, <2>4, <4>1, <4>2, <4>4 DEF Placed
    <3>6. CASE ~(st.logical >= M)
      <4> DEFINE within == (offset + n) - L
                 chunk == Smaller(size - within, st.left)
                 part == Part(e, within, chunk)
      <4>1. /\ within \in Nat /\ within < Wide /\ size - within \in Nat /\ size - within < Wide
            /\ offset + n < M
        <5>1. st.logical = offset + n
          BY <3>2
        <5>2. M = L + size /\ within = (offset + n) - L
          OBVIOUS
        <5> HIDE DEF n, L, M, within
        <5>3. offset + n < M
          BY <1>3, <2>2, <3>6, <5>1
        <5>4. within \in Nat /\ within < size
          BY <1>3, <2>1, <3>3, <5>2, <5>3
        <5> QED  BY <1>3, <2>1, <5>3, <5>4
      <4>2. /\ chunk \in Nat /\ chunk <= st.left
            /\ \A k \in 1 .. chunk : /\ within + k \in 1 .. size
                                     /\ L + (within + k) = offset + (n + k)
                                     /\ offset + (n + k) \in 1 .. M /\ n + k \in 1 .. want
            /\ n + chunk = IF M <= offset THEN 0 ELSE Smaller(M, offset + want) - offset
            /\ offset + n + chunk \in Nat /\ offset + n + chunk <= M
            /\ chunk # st.left => offset + n + chunk = M
        <5>1. within = (offset + n) - L /\ chunk = Smaller(size - within, st.left) /\ M = L + size
          OBVIOUS
        <5>2. n + st.left = want
          BY <3>2
        <5> HIDE DEF n, L, M, within, chunk
        <5>3. /\ chunk \in Nat /\ chunk <= st.left /\ chunk <= size - within
              /\ chunk = st.left \/ chunk = size - within
          BY <1>2, <2>1, <4>1, <5>1 DEF Smaller
        <5>4. offset + n + chunk \in Nat /\ offset + n + chunk <= M
          BY <1>3, <2>1, <4>1, <5>1, <5>3
        <5>5. chunk # st.left => offset + n + chunk = M
          BY <1>3, <2>1, <4>1, <5>1, <5>3
        <5>6. ASSUME NEW k \in 1 .. chunk
              PROVE  /\ within + k \in 1 .. size
                     /\ L + (within + k) = offset + (n + k)
                     /\ offset + (n + k) \in 1 .. M /\ n + k \in 1 .. want
          <6>1. k \in Nat /\ k >= 1 /\ k <= chunk
            BY <5>3
          <6>2. within + k \in 1 .. size
            BY <2>1, <4>1, <5>3, <6>1
          <6>3. L + (within + k) = offset + (n + k)
            BY <1>3, <5>1, <6>1
          <6>4. n + k \in 1 .. want
            BY <1>2, <1>3, <5>2, <5>3, <6>1
          <6>5. offset + (n + k) \in 1 .. M
            BY <1>3, <2>2, <5>3, <5>4, <6>1
          <6> QED  BY <6>2, <6>3, <6>4, <6>5
        <5>7. n + chunk = IF M <= offset THEN 0 ELSE Smaller(M, offset + want) - offset
          <6>1. ~(M <= offset)
            BY <1>3, <2>2, <4>1
          <6>2. CASE chunk = st.left
            BY <1>2, <1>3, <2>2, <5>2, <5>4, <6>1, <6>2 DEF Smaller
          <6>3. CASE chunk # st.left
            <7>1. n + chunk = M - offset /\ M < offset + want
              BY <1>2, <1>3, <2>2, <5>2, <5>3, <5>5, <6>3
            <7> QED  BY <1>3, <2>2, <6>1, <7>1 DEF Smaller
          <6> QED  BY <6>2, <6>3
        <5> QED  BY <5>3, <5>4, <5>5, <5>6, <5>7
      <4>3. (st.logical - st.acc) % Wide = within
        BY <1>3, <3>2, <4>1, SmallMod
      <4>4. (size - within) % Wide = size - within
        <5> HIDE DEF within
        <5> QED  BY <1>3, <4>1, SmallMod
      <4>5. (st.logical + chunk) % Wide = offset + n + chunk
        <5>1. offset + n + chunk < Wide /\ st.logical + chunk = offset + n + chunk
          <6> HIDE DEF n, L, chunk
          <6> QED  BY <1>3, <2>2, <2>3, <3>2, <4>2
        <5> HIDE DEF chunk
        <5> QED  BY <1>3, <4>2, <5>1, SmallMod
      <4> DEFINE next == offset + n + chunk
                 s2 == [acc |-> M, logical |-> next, left |-> st.left - chunk,
                        out |-> st.out \o part]
      <4>6. PlacementStep(bad, st, e) = IF \E k \in 1 .. chunk : part[k] \in bad
                                        THEN [st EXCEPT !.left = 0] ELSE s2
        <5> DEFINE w == (st.logical - st.acc) % Wide
                   c == Smaller((size - w) % Wide, st.left)
                   q == Part(e, w, c)
        <5>1. PlacementStep(bad, st, e)
                = IF \E k \in 1 .. c : q[k] \in bad THEN [st EXCEPT !.left = 0]
                  ELSE [acc |-> (st.acc + size) % Wide, logical |-> (st.logical + c) % Wide,
                        left |-> st.left - c, out |-> st.out \o q]
          <6>1. ~(~UsableEntry(e) \/ st.left = 0) /\ ~(st.logical >= (st.acc + size) % Wide)
            BY <1>8, <2>6, <3>4, <3>6
          <6> QED  BY <6>1, Zenon DEF PlacementStep, size, Part
        <5>2. w = within
          BY <4>3
        <5> HIDE DEF w, within
        <5>3. c = chunk
          BY <4>4, <5>2
        <5> HIDE DEF c, chunk
        <5>4. q = part
          BY <5>2, <5>3
        <5> HIDE DEF q, part, M
        <5> QED  BY <3>4, <4>5, <5>1, <5>3, <5>4, Zenon
      <4> HIDE DEF within, chunk, next
      <4>7. /\ part \in Seq(Nat) /\ Len(part) = chunk
            /\ \A k \in 1 .. chunk : part[k] = WordAt(e, within + k - 1)
        BY <4>1, <4>2, PartIs
      <4> HIDE DEF part
      <4>8. ASSUME NEW k \in 1 .. chunk PROVE part[k] = more[offset + (n + k)]
        <5>1. within + k \in 1 .. size /\ L + (within + k) = offset + (n + k)
          BY <4>2
        <5>2. more[L + (within + k)] = new[within + k]
          BY <2>2, <5>1
        <5>3. new[within + k] = WordAt(e, within + k - 1)
          <6>1. \A j \in 1 .. size : new[j] = WordAt(e, j - 1)
            BY <2>1
          <6> DEFINE i == within + k
          <6>2. i \in 1 .. size
            BY <5>1
          <6> HIDE DEF i, WordAt
          <6>3. new[i] = WordAt(e, i - 1)
            BY <6>1, <6>2, Zenon
          <6>4. i - 1 = within + k - 1
            BY <4>1, <4>2 DEF i
          <6> QED  BY <6>3, <6>4, Zenon DEF i
        <5> QED  BY <4>7, <5>1, <5>2, <5>3
      <4>9. CASE \E k \in 1 .. chunk : part[k] \in bad
        <5> DEFINE s3 == [st EXCEPT !.left = 0]
        <5>1. s3.out = st.out /\ s3.left = 0
          BY <1>2
        <5>2. PlacementStep(bad, st, e) = s3
          BY <4>6, <4>9
        <5> HIDE DEF s3
        <5>3. PICK k \in 1 .. chunk : part[k] \in bad
          BY <4>9
        <5>4. n + k \in 1 .. want /\ n + k > n /\ offset + (n + k) <= M
          <6>1. n + k \in 1 .. want /\ offset + (n + k) \in 1 .. M
            BY <4>2
          <6> HIDE DEF n, M
          <6> QED  BY <1>3, <2>2, <4>2, <6>1
        <5>5. more[offset + (n + k)] \in bad
          BY <4>8, <5>3
        <5>6. CutOff(s3, more, offset, want, bad)
          BY <2>2, <5>1, <5>4, <5>5 DEF CutOff
        <5> QED  BY <1>6, <2>2, <2>4, <5>1, <5>2, <5>6 DEF Placed
      <4>10. CASE ~(\E k \in 1 .. chunk : part[k] \in bad)
        <5> DEFINE out2 == st.out \o part
        <5>1. PlacementStep(bad, st, e) = s2
          BY <4>6, <4>10
        <5>2. /\ out2 \in Seq(Nat) /\ Len(out2) = n + chunk
              /\ \A k \in 1 .. n : out2[k] = st.out[k]
              /\ \A k \in 1 .. chunk : out2[n + k] = part[k]
          BY <1>2, <4>7, Joined
        <5> HIDE DEF out2
        <5>3. s2.out = out2 /\ s2.acc = M /\ s2.logical = next /\ s2.left = st.left - chunk
          BY DEF out2
        <5> HIDE DEF s2
        <5>4. ASSUME NEW k \in 1 .. (n + chunk)
              PROVE  offset + k \in 1 .. M /\ out2[k] = more[offset + k]
          <6>1. CASE k \in 1 .. n
            BY <2>4, <5>2, <6>1
          <6>2. CASE k \notin 1 .. n
            <7>1. k - n \in 1 .. chunk /\ n + (k - n) = k
              <8> HIDE DEF n
              <8> QED  BY <1>3, <4>2, <6>2
            <7>2. out2[n + (k - n)] = more[offset + (n + (k - n))]
              BY <4>8, <5>2, <7>1
            <7>3. offset + (n + (k - n)) \in 1 .. M
              BY <4>2, <7>1
            <7> QED  BY <7>1, <7>2, <7>3
          <6> QED  BY <6>1, <6>2
        <5>5. Running(s2, more, offset, want)
          <6>1. (n + chunk) + (st.left - chunk) = want
            <7> HIDE DEF n
            <7> QED  BY <1>2, <1>3, <3>2, <4>2
          <6>2. st.left - chunk # 0 => next = M /\ next = offset + (n + chunk)
            <7> HIDE DEF n, M
            <7> QED  BY <1>2, <1>3, <4>2 DEF next
          <6>3. next = M => M = offset + (n + chunk)
            <7> HIDE DEF n, M
            <7> QED  BY <1>3, <4>2 DEF next
          <6>4. n + chunk = IF M <= offset THEN 0 ELSE Smaller(M, offset + want) - offset
            BY <4>2
          <6> HIDE DEF M, n
          <6> QED  BY <2>2, <5>2, <5>3, <6>1, <6>2, <6>3, <6>4 DEF Running, Due
        <5> QED  BY <1>6, <2>2, <5>1, <5>2, <5>3, <5>4, <5>5 DEF Placed
      <4> QED  BY <4>9, <4>10
    <3> QED  BY <3>5, <3>6
  <2> QED  BY <2>5, <2>6
<1> QED  BY <1>7, <1>8

\* What BufferWords gathers, entry by entry.
Gathers(w, desc) ==
    /\ w \in [0 .. Len(desc) -> Seq(Nat)]
    /\ w[0] = <<>>
    /\ \A i \in 1 .. Len(desc) : w[i] = w[i - 1] \o EntryWords(desc[i])

LEMMA EntryWordsType ==
    ASSUME NEW e \in Entries
    PROVE  EntryWords(e) \in Seq(Nat)
<1>1. CASE UsableEntry(e)
  BY <1>1, EntryWordsAre
<1>2. CASE ~UsableEntry(e)
  BY <1>2 DEF EntryWords
<1> QED  BY <1>1, <1>2

LEMMA BufferWordsGathered ==
    ASSUME NEW desc \in Seq(Entries)
    PROVE  \E w : Gathers(w, desc) /\ BufferWords(desc) = w[Len(desc)]
<1> DEFINE n == Len(desc)
           S == Seq(Nat)
           F == [i \in 1 .. n |-> [x \in S |-> x \o EntryWords(desc[i])]]
           words == CHOOSE g : g = [i \in 0 .. n |-> IF i = 0 THEN <<>> ELSE g[i - 1] \o EntryWords(desc[i])]
<1>1. n \in Nat /\ \A i \in 1 .. n : desc[i] \in Entries
  OBVIOUS
<1> HIDE DEF n
<1>2. ASSUME NEW i \in 1 .. n, NEW x \in S PROVE x \o EntryWords(desc[i]) \in S
  BY <1>1, EntryWordsType, Joined
<1>3. F \in StepsOn(n, S)
  <2> HIDE DEF S
  <2> QED  BY <1>2 DEF StepsOn
<1>4. <<>> \in S
  OBVIOUS
<1> HIDE DEF S
<1>5. PICK f : Iterates(f, n, S, <<>>, F)
  <2> HIDE DEF F
  <2> QED  BY <1>1, <1>3, <1>4, Iteration
<1>6. f = [i \in 0 .. n |-> IF i = 0 THEN <<>> ELSE f[i - 1] \o EntryWords(desc[i])]
  <2>1. ASSUME NEW i \in 1 .. n PROVE f[i] = f[i - 1] \o EntryWords(desc[i])
    <3>1. f[i - 1] \in S
      BY <1>1, <1>5 DEF Iterates
    <3>2. F[i][f[i - 1]] = f[i - 1] \o EntryWords(desc[i])
      BY <3>1
    <3> QED  BY <1>5, <3>2 DEF Iterates
  <2>2. f \in [0 .. n -> S] /\ f[0] = <<>>
    BY <1>5 DEF Iterates
  <2> HIDE DEF F
  <2> QED  BY <1>1, <2>1, <2>2
<1>7. words = [i \in 0 .. n |-> IF i = 0 THEN <<>> ELSE words[i - 1] \o EntryWords(desc[i])]
  <2> HIDE DEF F
  <2> QED  BY <1>6, Zenon
<1>8. BufferWords(desc) = words[n]
  BY Zenon DEF BufferWords, n
<1> HIDE DEF F, words
<1>9. DOMAIN words = 0 .. n
  BY <1>7
<1>10. words[0] = <<>>
  BY <1>1, <1>7
<1>11. ASSUME NEW i \in 1 .. n PROVE words[i] = words[i - 1] \o EntryWords(desc[i])
  <2>1. i \in 0 .. n /\ i # 0
    BY <1>1
  <2> QED  BY <1>7, <2>1, Zenon
<1> DEFINE P == {i \in 0 .. n : words[i] \in S}
<1>12. 0 \in P
  BY <1>1, <1>4, <1>10
<1>13. ASSUME NEW k \in 1 .. n, k - 1 \in P PROVE k \in P
  <2>1. words[k - 1] \in S /\ k \in 0 .. n
    BY <1>13
  <2> QED  BY <1>2, <1>11, <2>1
<1>14. 0 .. n \subseteq P
  <2> HIDE DEF P
  <2> QED  BY <1>1, <1>12, <1>13, RangeInduction
<1>15. words \in [0 .. n -> S]
  <2>1. \A i \in 0 .. n : words[i] \in S
    BY <1>14
  <2>2. words = [i \in 0 .. n |-> words[i]]
    BY <1>7
  <2> QED  BY <2>1, <2>2
<1>16. Gathers(words, desc)
  BY <1>10, <1>11, <1>15 DEF Gathers, S, n
<1> QED  BY <1>8, <1>16 DEF n

\* Where the loop over the entries starts, and where it stands after each of them.
Start(offset, want) == [acc |-> 0, logical |-> offset, left |-> want, out |-> <<>>]

Walks(f, desc, offset, want, bad) ==
    /\ f[0] = Start(offset, want)
    /\ \A i \in 1 .. Len(desc) : f[i] = PlacementStep(bad, f[i - 1], desc[i])

LEMMA PlacedStart ==
    ASSUME NEW offset \in Nat, NEW want \in Nat, NEW bad
    PROVE  /\ Start(offset, want) \in Places
           /\ Placed(Start(offset, want), <<>>, offset, want, bad)
<1> DEFINE s == Start(offset, want)
<1>1. s \in Places
  BY DEF Places, Start
<1>2. /\ s.acc = 0 /\ s.logical = offset /\ s.left = want /\ s.out = <<>>
      /\ Len(<<>>) = 0 /\ <<>> \in Seq(Nat)
  BY DEF Start
<1> HIDE DEF s
<1>3. Running(s, <<>>, offset, want)
  BY <1>2 DEF Running, Due
<1>4. Placed(s, <<>>, offset, want, bad)
  BY <1>1, <1>2, <1>3 DEF Placed
<1> QED  BY <1>1, <1>4 DEF s

\* The walk and the gathering keep step until the sizes overflow.
LEMMA WalkPlaced ==
    ASSUME NEW desc \in Seq(Entries), NEW offset \in Nat, NEW want \in Nat, NEW bad,
           NEW f, Walks(f, desc, offset, want, bad), NEW w, Gathers(w, desc)
    PROVE  \A i \in 0 .. Len(desc) : Len(w[i]) < Wide => Placed(f[i], w[i], offset, want, bad)
<1> DEFINE n == Len(desc)
           P == {i \in 0 .. n : Len(w[i]) < Wide => Placed(f[i], w[i], offset, want, bad)}
<1>1. n \in Nat /\ \A i \in 1 .. n : desc[i] \in Entries
  OBVIOUS
<1>2. 0 \in P
  <2>1. Placed(f[0], w[0], offset, want, bad)
    BY PlacedStart, Zenon DEF Walks, Gathers
  <2> QED  BY <1>1, <2>1
<1>3. ASSUME NEW k \in 1 .. n, k - 1 \in P PROVE k \in P
  <2>1. k \in 0 .. n /\ k - 1 \in 0 .. n
    BY <1>1
  <2>2. f[k] = PlacementStep(bad, f[k - 1], desc[k]) /\ w[k] = w[k - 1] \o EntryWords(desc[k])
    BY DEF Walks, Gathers
  <2> SUFFICES ASSUME Len(w[k]) < Wide PROVE Placed(f[k], w[k], offset, want, bad)
    BY <2>1
  <2>a. Len(w[k]) < Wide
    OBVIOUS
  <2>3. Len(w[k - 1]) < Wide
    <3>1. w[k - 1] \in Seq(Nat) /\ EntryWords(desc[k]) \in Seq(Nat)
      BY <1>1, <2>1, EntryWordsType DEF Gathers
    <3>2. /\ Len(w[k]) = Len(w[k - 1]) + Len(EntryWords(desc[k]))
          /\ Len(w[k - 1]) \in Nat /\ Len(EntryWords(desc[k])) \in Nat
      BY <2>2, <3>1, Joined
    <3> DEFINE x == Len(w[k - 1])
               y == Len(EntryWords(desc[k]))
               z == Len(w[k])
    <3>3. z = x + y /\ x \in Nat /\ y \in Nat /\ z < Wide /\ Wide \in Nat
      BY <2>a, <3>2, PfnAssumption
    <3> HIDE DEF x, y, z
    <3>4. x < Wide
      BY <3>3
    <3> QED  BY <3>4 DEF x
  <2>4. Placed(f[k - 1], w[k - 1], offset, want, bad)
    BY <1>3, <2>3
  <2>5. Len(w[k - 1] \o EntryWords(desc[k])) < Wide
    BY <2>2
  <2>6. Placed(PlacementStep(bad, f[k - 1], desc[k]), w[k - 1] \o EntryWords(desc[k]), offset, want, bad)
    BY <1>1, <2>4, <2>5, PlacedStep, Zenon
  <2> QED  BY <2>2, <2>6
<1> HIDE DEF P, n
<1>4. 0 .. n \subseteq P
  BY <1>1, <1>2, <1>3, RangeInduction
<1> QED  BY <1>4 DEF P, n

\* The loop is an iteration; without a backing that can be read its result is returned.
LEMMA WalkExists ==
    ASSUME NEW src, src.desc \in Seq(Entries), NEW offset \in Nat, NEW want \in Nat,
           ~BackingReadable(src, offset, want)
    PROVE  \E f : Walks(f, src.desc, offset, want, src.bad)
                  /\ lagfx_read_vtx_source(src, offset, want) = f[Len(src.desc)].out
<1> DEFINE n == Len(src.desc)
           s0 == Start(offset, want)
           Go(i, st) == PlacementStep(src.bad, st, src.desc[i])
           F == [i \in 1 .. n |-> [st \in Places |-> Go(i, st)]]
           placed == CHOOSE g : g = [i \in 0 .. n |-> IF i = 0 THEN s0 ELSE Go(i, g[i - 1])]
<1>1. n \in Nat /\ \A i \in 1 .. n : src.desc[i] \in Entries
  OBVIOUS
<1>2. lagfx_read_vtx_source(src, offset, want) = placed[n].out
  BY Zenon DEF lagfx_read_vtx_source, Start
<1>3. s0 \in Places
  BY PlacedStart
<1>4. \A i \in 1 .. n : \A st \in Places : Go(i, st) \in Places
  BY <1>1, PlacementStepType
<1> HIDE DEF n, s0, Go
<1>5. F \in StepsOn(n, Places)
  BY <1>4 DEF StepsOn
<1>6. PICK f : Iterates(f, n, Places, s0, F)
  <2> HIDE DEF F
  <2> QED  BY <1>1, <1>3, <1>5, Iteration
<1>7. f = [i \in 0 .. n |-> IF i = 0 THEN s0 ELSE Go(i, f[i - 1])]
  <2>1. f \in [0 .. n -> Places] /\ f[0] = s0
    BY <1>6 DEF Iterates
  <2>2. ASSUME NEW i \in 1 .. n PROVE f[i] = Go(i, f[i - 1])
    <3>1. f[i - 1] \in Places
      BY <1>1, <2>1
    <3>2. F[i][f[i - 1]] = Go(i, f[i - 1])
      BY <3>1
    <3> QED  BY <1>6, <3>2 DEF Iterates
  <2> HIDE DEF F
  <2> QED  BY <1>1, <2>1, <2>2
<1>8. placed = [i \in 0 .. n |-> IF i = 0 THEN s0 ELSE Go(i, placed[i - 1])]
  <2> HIDE DEF F
  <2> QED  BY <1>7, Zenon
<1> HIDE DEF F, placed
<1>9. placed[0] = s0 /\ \A i \in 1 .. n : placed[i] = Go(i, placed[i - 1])
  BY <1>1, <1>8
<1>10. Walks(placed, src.desc, offset, want, src.bad)
  BY <1>9, Zenon DEF Walks, s0, Go, n
<1> QED  BY <1>2, <1>10 DEF n

\* A part of a sequence, and when two are the same.
LEMMA PieceIs ==
    ASSUME NEW a \in Seq(Nat), NEW o \in Nat, NEW m \in Nat, m <= Len(a)
    PROVE  /\ SubSeq(a, o + 1, m) \in Seq(Nat)
           /\ Len(SubSeq(a, o + 1, m)) = IF o + 1 <= m THEN m - o ELSE 0
           /\ \A k \in 1 .. Len(SubSeq(a, o + 1, m)) : SubSeq(a, o + 1, m)[k] = a[o + k]
OBVIOUS

LEMMA SameSequence ==
    ASSUME NEW a \in Seq(Nat), NEW b \in Seq(Nat), Len(a) = Len(b),
           \A k \in 1 .. Len(a) : a[k] = b[k]
    PROVE  a = b
OBVIOUS

\* lagfx_read_vtx_source reads the backing recorded for a buffer when it can, and
\* otherwise the words of the buffer that are wanted, in order and no other, wherever the
\* entries place them, up to the first read that fails: for a descriptor of any length,
\* entries of any size, unusable ones among them, any offset and any count, as long as
\* the sizes do not overflow.
THEOREM PlacementInOrder ==
    ASSUME NEW src, src.desc \in Seq(Entries), Len(BufferWords(src.desc)) < Wide,
           NEW offset \in Nat, NEW want \in Nat
    PROVE  ReadInOrder(src, offset, want)
<1> DEFINE out == lagfx_read_vtx_source(src, offset, want)
           all == BufferWords(src.desc)
           m == Smaller(Len(all), offset + want)
           due == SubSeq(all, offset + 1, m)
           bad == src.bad
<1>1. CASE BackingReadable(src, offset, want)
  BY <1>1 DEF ReadInOrder, lagfx_read_vtx_source
<1>2. CASE ~BackingReadable(src, offset, want)
  <2>1. PICK f : Walks(f, src.desc, offset, want, bad) /\ out = f[Len(src.desc)].out
    BY <1>2, WalkExists
  <2>2. PICK w : Gathers(w, src.desc) /\ all = w[Len(src.desc)]
    BY BufferWordsGathered
  <2> DEFINE st == f[Len(src.desc)]
  <2>3. Placed(st, all, offset, want, bad)
    <3>1. Len(src.desc) \in 0 .. Len(src.desc)
      OBVIOUS
    <3>2. Len(w[Len(src.desc)]) < Wide
      BY <2>2
    <3> QED  BY <2>1, <2>2, <3>1, <3>2, WalkPlaced, Zenon
  <2>4. out = st.out /\ ReadInOrder(src, offset, want)
             = (IsPrefix(out, due)
                /\ (out # due => \E k \in (Len(out) + 1) .. Len(due) : due[k] \in bad))
    BY <1>2, <2>1 DEF ReadInOrder
  <2> HIDE DEF out, all, st
  <2>5. /\ out \in Seq(Nat) /\ all \in Seq(Nat)
        /\ \A k \in 1 .. Len(out) : offset + k \in 1 .. Len(all) /\ out[k] = all[offset + k]
    BY <2>3, <2>4 DEF Placed, Places
  <2> DEFINE n == Len(out)
             L == Len(all)
  <2>6. n \in Nat /\ L \in Nat
    BY <2>5
  <2>7. /\ m \in Nat /\ m <= L /\ (L <= offset => m < offset + 1)
        /\ L > offset => m - offset \in Nat
    <3>1. m = Smaller(L, offset + want)
      OBVIOUS
    <3> HIDE DEF L, m
    <3> QED  BY <2>6, <3>1 DEF Smaller
  <2>m. m = Smaller(L, offset + want)
    OBVIOUS
  <2> HIDE DEF m
  <2>8. /\ due \in Seq(Nat) /\ Len(due) = (IF L <= offset THEN 0 ELSE m - offset)
        /\ \A k \in 1 .. Len(due) : due[k] = all[offset + k]
    <3>1. /\ SubSeq(all, offset + 1, m) \in Seq(Nat)
          /\ Len(SubSeq(all, offset + 1, m)) = IF offset + 1 <= m THEN m - offset ELSE 0
          /\ \A k \in 1 .. Len(SubSeq(all, offset + 1, m)) :
                SubSeq(all, offset + 1, m)[k] = all[offset + k]
      BY <2>5, <2>7, PieceIs
    <3>2. (IF offset + 1 <= m THEN m - offset ELSE 0) = (IF L <= offset THEN 0 ELSE m - offset)
      <4> HIDE DEF L
      <4> QED  BY <2>6, <2>7, <2>m DEF Smaller
    <3> QED  BY <3>1, <3>2
  <2> HIDE DEF due
  <2> DEFINE D == Len(due)
  <2>9. D \in Nat
    BY <2>8
  <2>10. (n = D => out = due) /\ (n <= D => IsPrefix(out, due))
    <3>1. \A k \in 1 .. n : k \in 1 .. D => out[k] = due[k]
      BY <2>5, <2>8
    <3>2. n = D => out = due
      BY <2>5, <2>8, <3>1, SameSequence
    <3>3. ASSUME n <= D PROVE SubSeq(out, 1, n) = SubSeq(due, 1, n)
      <4>1. \A k \in 1 .. n : out[k] = due[k]
        <5> HIDE DEF n, D
        <5> QED  BY <2>6, <2>9, <3>1, <3>3
      <4> QED  BY <2>5, <2>6, <2>8, <2>9, <3>3, <4>1
    <3> QED  BY <3>2, <3>3 DEF IsPrefix
  <2>11. CASE Running(st, all, offset, want)
    <3>1. n = IF L <= offset THEN 0 ELSE m - offset
      BY <2>4, <2>11 DEF Running, Due, m
    <3>2. n = D
      BY <2>8, <3>1
    <3>3. out = due /\ IsPrefix(out, due)
      BY <2>6, <2>10, <3>2
    <3> QED  BY <2>4, <3>3
  <2>12. CASE CutOff(st, all, offset, want, bad)
    <3>1. PICK k \in 1 .. want : k > n /\ offset + k <= L /\ all[offset + k] \in bad
      BY <2>4, <2>12 DEF CutOff
    <3>2. k <= D
      <4>1. offset + k <= m
        <5> HIDE DEF L
        <5> QED  BY <2>6, <2>m, <3>1 DEF Smaller
      <4>2. ~(L <= offset)
        <5> HIDE DEF L
        <5> QED  BY <2>6, <3>1
      <4>3. D = m - offset
        BY <2>8, <4>2
      <4> HIDE DEF D
      <4> QED  BY <2>7, <4>1, <4>3
    <3>3. k \in (n + 1) .. D /\ k \in 1 .. D /\ n <= D
      <4> HIDE DEF n, D
      <4> QED  BY <2>6, <2>9, <3>1, <3>2
    <3>4. due[k] \in bad
      BY <2>8, <3>1, <3>3
    <3>5. IsPrefix(out, due)
      BY <2>10, <3>3
    <3> QED  BY <2>4, <3>3, <3>4, <3>5
  <2> QED  BY <2>3, <2>11, <2>12 DEF Placed
<1> QED  BY <1>1, <1>2

-----------------------------------------------------------------------------
(* Where the attributes of a vertex lie. *)

\* The sizes of the inputs add up.
LEMMA TightAdds ==
    ASSUME NEW in \in Seq(Nat)
    PROVE  \E b : /\ b \in [0 .. Len(in) -> Nat]
                  /\ \A i \in 1 .. Len(in) : b[i] = b[i - 1] + 4 * in[i]
                  /\ \A i \in 0 .. Len(in) : Tight(in, i) = b[i]
<1> DEFINE n == Len(in)
           F == [i \in 1 .. n |-> [x \in Nat |-> x + 4 * in[i]]]
           bytes == CHOOSE g : g = [i \in 0 .. n |-> IF i = 0 THEN 0 ELSE g[i - 1] + 4 * in[i]]
<1>1. n \in Nat /\ \A i \in 1 .. n : in[i] \in Nat
  OBVIOUS
<1> HIDE DEF n
<1>2. ASSUME NEW i \in 1 .. n, NEW x \in Nat PROVE x + 4 * in[i] \in Nat
  BY <1>1
<1>3. F \in StepsOn(n, Nat)
  BY <1>2 DEF StepsOn
<1>4. PICK f : Iterates(f, n, Nat, 0, F)
  <2> HIDE DEF F
  <2> QED  BY <1>1, <1>3, 0 \in Nat, Iteration
<1>5. f = [i \in 0 .. n |-> IF i = 0 THEN 0 ELSE f[i - 1] + 4 * in[i]]
  <2>1. ASSUME NEW i \in 1 .. n PROVE f[i] = f[i - 1] + 4 * in[i]
    <3>1. f[i - 1] \in Nat
      BY <1>1, <1>4 DEF Iterates
    <3>2. F[i][f[i - 1]] = f[i - 1] + 4 * in[i]
      BY <3>1
    <3> QED  BY <1>4, <3>2 DEF Iterates
  <2>2. f \in [0 .. n -> Nat] /\ f[0] = 0
    BY <1>4 DEF Iterates
  <2> HIDE DEF F
  <2> QED  BY <1>1, <2>1, <2>2
<1>6. bytes = [i \in 0 .. n |-> IF i = 0 THEN 0 ELSE bytes[i - 1] + 4 * in[i]]
  <2> HIDE DEF F
  <2> QED  BY <1>5, Zenon
<1>7. \A i \in 0 .. n : Tight(in, i) = bytes[i]
  BY Zenon DEF Tight, n
<1> HIDE DEF F, bytes
<1>8. bytes[0] = 0
  BY <1>1, <1>6
<1>9. ASSUME NEW i \in 1 .. n PROVE bytes[i] = bytes[i - 1] + 4 * in[i]
  <2>1. i \in 0 .. n /\ i # 0
    BY <1>1
  <2> QED  BY <1>6, <2>1, Zenon
<1> DEFINE P == {i \in 0 .. n : bytes[i] \in Nat}
<1>10. 0 \in P
  BY <1>1, <1>8
<1>11. ASSUME NEW k \in 1 .. n, k - 1 \in P PROVE k \in P
  <2>1. bytes[k - 1] \in Nat /\ k \in 0 .. n
    BY <1>11
  <2> QED  BY <1>2, <1>9, <2>1
<1>12. 0 .. n \subseteq P
  <2> HIDE DEF P
  <2> QED  BY <1>1, <1>10, <1>11, RangeInduction
<1>13. bytes \in [0 .. n -> Nat]
  <2>1. \A i \in 0 .. n : bytes[i] \in Nat
    BY <1>12
  <2>2. bytes = [i \in 0 .. n |-> bytes[i]]
    BY <1>6
  <2> QED  BY <2>1, <2>2
<1> QED  BY <1>7, <1>9, <1>13 DEF n

Attributes == [fmt : Nat, off : Nat]

LEMMA InFront ==
    ASSUME NEW S, NEW x \in S, NEW s \in Seq(S)
    PROVE  /\ Len(<<x>> \o s) = 1 + Len(s)
           /\ (<<x>> \o s)[1] = x
           /\ \A k \in 1 .. Len(s) : (<<x>> \o s)[1 + k] = s[k]
OBVIOUS

\* The attributes of a descriptor whose offsets ascend have ascending offsets in the
\* pipeline lagfx_pipeline_build makes, whether they come from the descriptor, with or
\* without a position added in front, or are packed: for any number of them.
THEOREM AttributesApart ==
    ASSUME NEW in \in Seq(Nat \ {0}), NEW attrs \in Seq(Attributes),
           \A k \in 1 .. (Len(attrs) - 1) : attrs[k].off < attrs[k + 1].off,
           NEW a \in 1 .. (Len(in) - 1)
    PROVE  AttributeOffsets(in, attrs)[a] < AttributeOffsets(in, attrs)[a + 1]
<1> DEFINE pso == PsoAttributes(in, attrs)
           known == Len(pso) >= Len(in) /\ \A b \in 1 .. Len(in) : pso[b].fmt \in KnownFormats
<1>1. Len(in) \in Nat /\ a \in 1 .. Len(in) /\ a + 1 \in 1 .. Len(in) /\ a \in 0 .. Len(in)
      /\ a - 1 \in 0 .. Len(in) /\ (a + 1) - 1 = a /\ Len(in) > 1
  OBVIOUS
<1>2. /\ AttributeOffsets(in, attrs)[a] = IF known THEN pso[a].off ELSE Tight(in, a - 1)
      /\ AttributeOffsets(in, attrs)[a + 1] = IF known THEN pso[a + 1].off ELSE Tight(in, (a + 1) - 1)
  BY <1>1, Zenon DEF AttributeOffsets
<1>3. CASE known
  <2>1. Len(pso) >= Len(in)
    BY <1>3
  <2>2. CASE pso = <<>>
    BY <1>1, <2>1, <2>2
  <2>3. CASE pso = attrs
    <3>1. Len(attrs) \in Nat /\ Len(attrs) >= Len(in)
      BY <2>1, <2>3
    <3>2. a \in 1 .. (Len(attrs) - 1)
      BY <1>1, <3>1
    <3> QED  BY <1>2, <1>3, <2>3, <3>2
  <2>4. CASE attrs # <<>> /\ attrs[1].off # 0 /\ pso = <<[fmt |-> 31, off |-> 0]>> \o attrs
    <3> DEFINE pos == [fmt |-> 31, off |-> 0]
    <3>1. pos \in Attributes /\ pos.off = 0
      BY DEF Attributes
    <3>2. Len(attrs) \in Nat /\ Len(attrs) > 0 /\ attrs[1] \in Attributes
      <4> HIDE DEF pso
      <4> QED  BY <2>4
    <3>3. attrs[1].off \in Nat
      BY <3>2 DEF Attributes
    <3> HIDE DEF pos
    <3>4. pso = <<pos>> \o attrs
      BY <2>4 DEF pos
    <3>7. /\ Len(pso) = 1 + Len(attrs) /\ pso[1] = pos
          /\ \A k \in 1 .. Len(attrs) : pso[1 + k] = attrs[k]
      <4> HIDE DEF pso
      <4> QED  BY <3>1, <3>4, InFront
    <3>5. pso[a].off < pso[a + 1].off
      <4> HIDE DEF pso
      <4>1. Len(in) <= 1 + Len(attrs)
        BY <1>1, <2>1, <3>2, <3>7
      <4>2. CASE a = 1
        <5>1. pso[1].off = 0 /\ pso[1 + 1].off = attrs[1].off /\ 1 \in 1 .. Len(attrs)
          BY <3>1, <3>2, <3>7
        <5>2. attrs[1].off # 0
          BY <2>4
        <5> QED  BY <3>3, <4>2, <5>1, <5>2
      <4>3. CASE a # 1
        <5>1. a - 1 \in 1 .. (Len(attrs) - 1) /\ a - 1 \in 1 .. Len(attrs) /\ a \in 1 .. Len(attrs)
              /\ (a - 1) + 1 = a /\ 1 + (a - 1) = a /\ 1 + a = a + 1
          BY <1>1, <3>2, <4>1, <4>3
        <5>2. attrs[a - 1].off < attrs[a].off
          BY <5>1
        <5>3. pso[1 + (a - 1)] = attrs[a - 1] /\ pso[1 + a] = attrs[a]
          BY <3>7, <5>1
        <5> QED  BY <5>1, <5>2, <5>3
      <4> QED  BY <4>2, <4>3
    <3> QED  BY <1>2, <1>3, <3>5
  <2> QED  BY <2>2, <2>3, <2>4 DEF PsoAttributes
<1>4. CASE ~known
  <2>1. in \in Seq(Nat) /\ in[a] \in Nat \ {0}
    BY <1>1
  <2>2. PICK b : /\ b \in [0 .. Len(in) -> Nat]
                 /\ \A i \in 1 .. Len(in) : b[i] = b[i - 1] + 4 * in[i]
                 /\ \A i \in 0 .. Len(in) : Tight(in, i) = b[i]
    BY <2>1, TightAdds
  <2>3. b[a] = b[a - 1] + 4 * in[a] /\ b[a - 1] \in Nat /\ Tight(in, a) = b[a] /\ Tight(in, a - 1) = b[a - 1]
    BY <1>1, <2>2
  <2>4. b[a - 1] < b[a]
    <3> DEFINE x == in[a]
               y == b[a - 1]
    <3>1. x \in Nat /\ x # 0 /\ y \in Nat /\ b[a] = y + 4 * x
      BY <2>1, <2>3
    <3> HIDE DEF x, y
    <3>2. y < b[a]
      BY <3>1
    <3> QED  BY <3>2 DEF y
  <2>5. AttributeOffsets(in, attrs)[a] = b[a - 1] /\ AttributeOffsets(in, attrs)[a + 1] = b[a]
    <3> HIDE DEF known
    <3> QED  BY <1>1, <1>2, <1>4, <2>3
  <2> QED  BY <2>4, <2>5
<1> QED  BY <1>3, <1>4

-----------------------------------------------------------------------------
(* How large a texture is. *)

\* What division leaves out.
LEMMA Quotient ==
    ASSUME NEW x \in Nat, NEW d \in Nat \ {0}
    PROVE  x \div d \in Nat /\ (x \div d) * d <= x
OBVIOUS

\* Rows that fit, as many as fit.
LEMMA Rows ==
    ASSUME NEW w \in Nat, NEW h \in Nat, NEW q \in Nat, NEW s \in Nat, NEW t \in Nat, NEW x \in Nat,
           h <= q, w * t <= s, q * s <= x
    PROVE  w * h * t <= x
<1>1. w * h * t = (w * t) * h
  OBVIOUS
<1>2. (w * t) * h <= s * h
  OBVIOUS
<1>3. s * h <= s * q
  OBVIOUS
<1>4. s * q = q * s
  OBVIOUS
<1> QED  BY <1>1, <1>2, <1>3, <1>4

\* The image lagfx_texture_realize makes takes no more bytes than its backing has, for
\* every row length, height and texel size and any backing of at least 64 texels; or
\* twice as many when 8-byte texels are sized without a row length.
THEOREM ExtentFits ==
    ASSUME NEW want \in Nat, want >= 256, NEW stride \in Nat, NEW h \in Nat, NEW bpp \in Nat
    PROVE  LET e == TextureExtent(want, stride, h, bpp)
               guessed == bpp = 8 /\ ~FromRows(want, stride, h, bpp)
           IN  e[1] * e[2] * TexelBytes(bpp) <= IF guessed THEN 2 * want ELSE want
<1> DEFINE npx == want \div 4
           t == TexelBytes(bpp)
           widths == <<64, 128, 32, 256, 16, 512, 1280, 1920, 1024, 2048>>
           fits == {i \in 1 .. Len(widths) :
                      /\ npx % widths[i] = 0
                      /\ 10 * widths[i] >= 4 * (npx \div widths[i])
                      /\ 10 * widths[i] <= 25 * (npx \div widths[i])}
           first == widths[CHOOSE i \in fits : \A j \in fits : i <= j]
           extent == IF FromRows(want, stride, h, bpp)
                     THEN <<stride \div t, Smaller(h, want \div stride)>>
                     ELSE IF fits # {} THEN <<first, npx \div first>>
                     ELSE <<64, IF npx \div 64 = 0 THEN 1 ELSE npx \div 64>>
           most == IF bpp = 8 /\ ~FromRows(want, stride, h, bpp) THEN 2 * want ELSE want
<1>1. \/ TextureExtent(want, stride, h, bpp) = extent
      \/ TextureExtent(want, stride, h, bpp) = <<0, 0>>
  <2>1. TextureExtent(want, stride, h, bpp)
          = IF \E d \in 1 .. 2 : extent[d] = 0 \/ extent[d] > 16384 THEN <<0, 0>> ELSE extent
    BY DEF TextureExtent
  <2> HIDE DEF extent
  <2> QED  BY <2>1
<1>2. t \in {1, 4, 8} /\ (bpp # 8 => t \in {1, 4})
  BY DEF TexelBytes
<1>3. npx \in Nat /\ 4 * npx <= want /\ npx >= 64
  OBVIOUS
<1> HIDE DEF npx, t, widths, fits, first
<1>4. extent[1] * extent[2] * t <= most
  <2>1. CASE FromRows(want, stride, h, bpp)
    <3>1. stride \in Nat \ {0}
      BY <2>1 DEF FromRows
    <3> DEFINE q == want \div stride
               w == stride \div t
               m == Smaller(h, q)
    <3>2. q \in Nat /\ q * stride <= want
      BY <3>1, Quotient
    <3>3. w \in Nat /\ w * t <= stride
      BY <1>2, Quotient
    <3> HIDE DEF q, w
    <3>4. m \in Nat /\ m <= q
      BY <3>2 DEF Smaller
    <3>5. extent = <<w, m>>
      BY <2>1 DEF q, w
    <3> HIDE DEF m
    <3>6. w * m * t <= want
      BY <1>2, <3>2, <3>3, <3>4, Rows
    <3>7. most = want
      BY <2>1
    <3> QED  BY <3>5, <3>6, <3>7
  <2>2. CASE ~FromRows(want, stride, h, bpp) /\ fits # {}
    <3>1. first \in Nat \ {0}
      <4>1. (CHOOSE i \in fits : \A j \in fits : i <= j) \in 1 .. 10
        <5>1. fits \subseteq 1 .. 10
          BY DEF fits, widths
        <5>2. \E i \in fits : \A j \in fits : i <= j
          <6> HIDE DEF fits
          <6>1. fits \subseteq Nat
            BY <5>1
          <6> DEFINE R == {ss \in Nat \X Nat : ss[1] < ss[2]}
          <6>2. R = OpToRel(<, Nat)
            BY Zenon DEF OpToRel
          <6>3. IsWellFoundedOn(R, Nat)
            BY <6>2, NatLessThanWellFounded, Zenon
          <6>4. PICK x \in fits : \A y \in fits : ~ (<<y, x>> \in R)
            <7> HIDE DEF R
            <7> QED  BY <2>2, <6>1, <6>3, WFMin
          <6>5. ASSUME NEW y \in fits PROVE x <= y
            <7>1. x \in Nat /\ y \in Nat /\ <<y, x>> \notin R
              BY <6>1, <6>4
            <7> QED  BY <7>1
          <6> QED  BY <6>5
        <5> HIDE DEF fits
        <5>3. (CHOOSE i \in fits : \A j \in fits : i <= j) \in fits
          BY <5>2, Zenon
        <5> QED  BY <5>1, <5>3
      <4>2. \A i \in 1 .. 10 : widths[i] \in Nat \ {0}
        BY DEF widths
      <4> QED  BY <4>1, <4>2 DEF first
    <3> DEFINE q == npx \div first
    <3>2. q \in Nat /\ q * first <= npx
      BY <1>3, <3>1, Quotient
    <3>3. extent = <<first, q>>
      BY <2>2
    <3> HIDE DEF q
    <3>4. first * q = q * first /\ first * q \in Nat
      BY <3>1, <3>2
    <3>5. most \in Nat /\ ((t \in {1, 4} /\ most = want) \/ (t = 8 /\ most = 2 * want))
      BY <1>2, <2>2 DEF t, TexelBytes
    <3> DEFINE area == first * q
    <3>6. area \in Nat /\ area <= npx
      BY <3>2, <3>4
    <3>7. extent[1] * extent[2] * t = area * t
      BY <3>3
    <3> HIDE DEF area, extent, most
    <3> QED  BY <1>3, <3>5, <3>6, <3>7
  <2>3. CASE ~FromRows(want, stride, h, bpp) /\ fits = {}
    <3> DEFINE q == npx \div 64
    <3>1. q \in Nat /\ 64 * q <= npx /\ q # 0
      BY <1>3
    <3>2. extent = <<64, q>>
      BY <2>3, <3>1
    <3>3. most \in Nat /\ ((t \in {1, 4} /\ most = want) \/ (t = 8 /\ most = 2 * want))
      BY <1>2, <2>3 DEF t, TexelBytes
    <3>4. extent[1] * extent[2] * t = (64 * q) * t
      BY <3>2
    <3> HIDE DEF q, extent, most
    <3> QED  BY <1>3, <3>1, <3>3, <3>4
  <2> QED  BY <2>1, <2>2, <2>3
<1>5. CASE TextureExtent(want, stride, h, bpp) = <<0, 0>>
  <2>1. 0 * 0 * t <= most
    BY <1>2
  <2> QED  BY <1>5, <2>1 DEF t
<1>6. CASE TextureExtent(want, stride, h, bpp) = extent
  <2> HIDE DEF extent
  <2> QED  BY <1>4, <1>6 DEF t
<1> QED  BY <1>1, <1>5, <1>6

\* A function on 1 .. m is a sequence.
LEMMA FunctionIsSequence ==
    ASSUME NEW S, NEW m \in Nat, NEW f \in [1 .. m -> S]
    PROVE  f \in Seq(S)
OBVIOUS

\* What GuestDataLaidOut says of the computations of a draw (lagfx_read_vtx_source,
\* lagfx_pipeline_build, lagfx_texture_realize) follows from the three theorems above.
LEMMA LaidOut == GuestDataLaidOut
<1>1. ASSUME NEW desc \in [1 .. 3 -> [size : {0, 1, 2, Wide - 1}, pfn : {0, 1, 2}]], NEW bad,
             NEW offset \in {0, 1, 3}, NEW want \in {1, 2, 5}, Len(BufferWords(desc)) < Wide,
             NEW backing, NEW badVa, Wide >= 3
      PROVE  ReadInOrder([backing |-> backing, desc |-> desc, badVa |-> badVa, bad |-> bad],
                         offset, want)
  <2>1. [size : {0, 1, 2, Wide - 1}, pfn : {0, 1, 2}] \subseteq Entries
    BY <1>1, PfnAssumption DEF Entries
  <2> HIDE DEF Entries
  <2>2. desc \in [1 .. 3 -> Entries]
    BY <2>1
  <2>3. desc \in Seq(Entries)
    BY <2>2, 3 \in Nat, FunctionIsSequence
  <2>4. offset \in Nat /\ want \in Nat
    OBVIOUS
  <2> DEFINE src == [backing |-> backing, desc |-> desc, badVa |-> badVa, bad |-> bad]
  <2>5. src.desc = desc
    OBVIOUS
  <2> HIDE DEF src
  <2>6. ReadInOrder(src, offset, want)
    BY <1>1, <2>3, <2>4, <2>5, PlacementInOrder
  <2> QED  BY <2>6 DEF src
<1>2. ASSUME NEW in \in SeqOf({2, 4}, 3),
             NEW attrs \in SeqOf([fmt : {0, 9, 31}, off : {0, 8, 16}], 2),
             \A k \in 1 .. (Len(attrs) - 1) : attrs[k].off < attrs[k + 1].off,
             NEW a \in 1 .. (Len(in) - 1)
      PROVE  AttributeOffsets(in, attrs)[a] < AttributeOffsets(in, attrs)[a + 1]
  <2>1. PICK m \in 0 .. 3 : in \in [1 .. m -> {2, 4}]
    BY DEF SeqOf
  <2>2. in \in Seq(Nat \ {0})
    BY <2>1
  <2>3. PICK n \in 0 .. 2 : attrs \in [1 .. n -> [fmt : {0, 9, 31}, off : {0, 8, 16}]]
    BY DEF SeqOf
  <2>4. [fmt : {0, 9, 31}, off : {0, 8, 16}] \subseteq Attributes
    BY DEF Attributes
  <2>5. attrs \in [1 .. n -> Attributes]
    BY <2>3, <2>4
  <2>6. attrs \in Seq(Attributes)
    BY <2>5
  <2> QED  BY <1>2, <2>2, <2>6, AttributesApart, Zenon
<1>3. PlacedInOrder
  <2>1. Wide >= 3
    BY PfnAssumption
  <2> SUFFICES ASSUME NEW desc \in [1 .. 3 -> [size : {0, 1, 2, Wide - 1}, pfn : {0, 1, 2}]],
                      NEW bad \in {{}, {2 * PageWords + 1}},
                      NEW offset \in {0, 1, 3}, NEW want \in {1, 2, 5},
                      Len(BufferWords(desc)) < Wide,
                      NEW backing \in {NoBacking, Wide - 2}, NEW badVa \in {{}, {0}}
               PROVE  ReadInOrder([backing |-> backing, desc |-> desc, badVa |-> badVa,
                                   bad |-> bad], offset, want)
    BY DEF PlacedInOrder
  <2> QED  BY <1>1, <2>1
<1>4. AttributesAscend
  BY <1>2, Zenon DEF AttributesAscend
<1>5. TexturesFit
  <2>1. \A want \in BackingSizes, stride \in RowLengths, h \in Heights, bpp \in {1, 3, 4, 8} :
           want \in Nat /\ want >= 256 /\ stride \in Nat /\ h \in Nat /\ bpp \in Nat
    BY DEF BackingSizes, RowLengths, Heights
  <2> QED  BY <2>1, ExtentFits, Zenon DEF TexturesFit
<1> QED  BY <1>3, <1>4, <1>5 DEF GuestDataLaidOut

\* At every state the computations place, pack and size as GuestDataLaidOut states; the
\* run evaluates it on small descriptors, PlacementInOrder, AttributesApart and
\* ExtentFits say it of all.
THEOREM GuestDataLaidOutAlways == EncSpec => []GuestDataLaidOut
BY LaidOut, PTL

=============================================================================
