----------------------------- MODULE HelperPlan -----------------------------
(***************************************************************************)
(* How lagfx_air2spv_translate_function puts the functions an entry point  *)
(* calls into one SPIR-V module: a depth-first plan registers callees      *)
(* before their callers, each is emitted in the order of the registry and  *)
(* thrown away again if it fails, and a call to a function that is not     *)
(* there is dropped (its result is undefined).  The builder keeps the      *)
(* local variables apart and splices them into each function at the end.   *)
(*                                                                         *)
(* A function is a number, the entry point 0; calls[f] is the sequence of  *)
(* functions with a body that f calls.  A word of the function section is  *)
(* the opening of a function, a call, or the undefined value of one that   *)
(* was not emitted.                                                        *)
(***************************************************************************)
EXTENDS Integers, Sequences, FiniteSets, SequencesExt

CONSTANTS
    CallGraphs,   \* the call graphs translated
    MaxDepth,     \* depth of the plan (6)
    MaxHelpers,   \* LAGFX_MAX_HELPER_FNS (96)
    SegCap        \* first capacity of the builder's segments (4)

ASSUME PlanAssumption ==
    /\ MaxDepth \in Nat /\ MaxHelpers \in Nat /\ SegCap \in Nat \ {0}
    /\ \A g \in CallGraphs : 0 \in DOMAIN g /\ \A f \in DOMAIN g : g[f] \in Seq(DOMAIN g)

VARIABLES
    stage,     \* "none", "plan", "helpers", "entry", "finished"
    calls,     \* the call graph
    scans,     \* the scans under way, outermost first: [fn, at]
    visiting,  \* h->visiting; its 16 places are never full, the depth being at most 6
    reg,       \* h->fns: [fn, id], id is FALSE when the signature is unsupported
    emitted,   \* the helpers whose flag is set
    slot,      \* the next entry of reg to translate
    bld,       \* the builder: words, locals (with their owner), segs: [mark, begin]
    lostSeg    \* a segment could not be recorded

planVars == <<stage, calls, scans, visiting, reg, emitted, slot, bld, lostSeg>>

-----------------------------------------------------------------------------
(* The builder. *)

lagfx_spv_builder_create == [words |-> <<>>, locals |-> <<>>, segs |-> <<>>]

lagfx_spv_builder_emit_op(b, w) == [b EXCEPT !.words = Append(@, w)]

\* The array of segments is full and has to be reallocated.
SegsFull(b) == Len(b.segs) = 0 \/ \E k \in 0..Len(b.segs) : Len(b.segs) = SegCap * 2^k

\* Whether recording a mark can fail.
MarkLost == IF SegsFull(bld) THEN BOOLEAN ELSE {FALSE}

lagfx_spv_builder_mark_locals(b) ==
    [b EXCEPT !.segs = Append(@, [mark |-> Len(b.words), begin |-> Len(b.locals)])]

\* Without any segment the variable is refused.
lagfx_spv_builder_emit_local_var(b, f) ==
    IF b.segs = <<>> THEN b ELSE [b EXCEPT !.locals = Append(@, f)]

lagfx_spv_builder_funcs_snapshot(b) ==
    [words |-> Len(b.words), locals |-> Len(b.locals), segs |-> Len(b.segs)]

\* Mutant: the local variables are not taken back.
RewindKeepsLocals(b, m) ==
    [words |-> SubSeq(b.words, 1, m.words), locals |-> b.locals, segs |-> SubSeq(b.segs, 1, m.segs)]

lagfx_spv_builder_funcs_rewind(b, m) ==
    [words |-> SubSeq(b.words, 1, m.words), locals |-> SubSeq(b.locals, 1, m.locals),
     segs |-> SubSeq(b.segs, 1, m.segs)]

\* The local variables spliced in at the mark of segment g: its own, up to those of the
\* next segment.
lagfx_spv_builder_finish(b, g) ==
    (b.segs[g].begin + 1) .. (IF g < Len(b.segs) THEN b.segs[g + 1].begin ELSE Len(b.locals))

-----------------------------------------------------------------------------
(* The plan. *)

helpers_find(f) == \E i \in DOMAIN reg : reg[i].fn = f

PlanInit ==
    /\ stage = "none" /\ calls = <<>> /\ scans = <<>> /\ visiting = <<>> /\ reg = <<>>
    /\ emitted = {} /\ slot = 1 /\ bld = lagfx_spv_builder_create /\ lostSeg = FALSE

StartPlan(g) ==
    /\ stage = "none"
    /\ stage' = "plan" /\ calls' = g /\ scans' = <<[fn |-> 0, at |-> 1]>>
    /\ UNCHANGED <<visiting, reg, emitted, slot, bld, lostSeg>>

Top == scans[Len(scans)]
Advanced == [scans EXCEPT ![Len(scans)].at = @ + 1]
Depth == Len(scans) - 1

\* A registered function has an id if every parameter and the result can be expressed.
helper_value_type_ok == BOOLEAN

helpers_register(f, ok) ==
    IF Len(reg) >= MaxHelpers \/ helpers_find(f) THEN reg
    ELSE Append(reg, [fn |-> f, id |-> ok])

Scanning == stage = "plan" /\ scans # <<>> /\ Top.at <= Len(calls[Top.fn])

Callee == calls[Top.fn][Top.at]

\* The entry point and a callee that has been registered or is being visited, or is too
\* deep, are passed over.
Planned(f) == f # 0 /\ ~helpers_find(f) /\ f \notin ToSet(visiting) /\ Depth < MaxDepth

PassOver ==
    /\ Scanning /\ ~Planned(Callee)
    /\ scans' = Advanced
    /\ UNCHANGED <<stage, calls, visiting, reg, emitted, slot, bld, lostSeg>>

\* Another one's own callees come first ...
helpers_plan_fn ==
    /\ Scanning /\ Planned(Callee)
    /\ visiting' = Append(visiting, Callee)
    /\ scans' = Append(Advanced, [fn |-> Callee, at |-> 1])
    /\ UNCHANGED <<stage, calls, reg, emitted, slot, bld, lostSeg>>

\* ... and then it is registered.
helpers_plan_scan ==
    /\ stage = "plan" /\ scans # <<>> /\ Top.at > Len(calls[Top.fn])
    /\ scans' = Front(scans)
    /\ IF Len(scans) = 1
       THEN stage' = "helpers" /\ UNCHANGED <<visiting, reg>>
       ELSE /\ visiting' = Front(visiting)
            /\ \E ok \in helper_value_type_ok : reg' = helpers_register(Top.fn, ok)
            /\ UNCHANGED stage
    /\ UNCHANGED <<calls, emitted, slot, bld, lostSeg>>

-----------------------------------------------------------------------------
(* Emission. *)

\* Mutant: it is enough that the callee has an id.
CallsAnyRegistered(done) == {reg[i].fn : i \in {j \in DOMAIN reg : reg[j].id}}

\* A call can be emitted if its callee has an id and has been emitted.
emit_helper_fncall(done) ==
    {f \in done : \E i \in DOMAIN reg : reg[i].fn = f /\ reg[i].id}

\* The calls in f that are emitted: emit_helper_fncall refuses one whose operands or
\* result do not fit, too.
EmittedCalls(f, done) == SUBSET {i \in DOMAIN calls[f] : calls[f][i] \in emit_helper_fncall(done)}

\* A function: its header, the mark for its variables, its calls and a temporary
\* they may need.  out: the mark could not be recorded.
Function(f, kept, nvars, out) ==
    LET b0 == lagfx_spv_builder_emit_op(bld, [op |-> "function", fn |-> f, of |-> f])
        b1 == IF out THEN b0 ELSE lagfx_spv_builder_mark_locals(b0)
        b2 == IF nvars = 0 THEN b1 ELSE lagfx_spv_builder_emit_local_var(b1, f)
    IN  [b2 EXCEPT !.words = @ \o [i \in DOMAIN calls[f] |->
                                     [op |-> IF i \in kept THEN "call" ELSE "undef",
                                      fn |-> calls[f][i], of |-> f]]]

\* An entry without an id is passed over, and so is one whose body cannot be opened.
SkipHelper ==
    /\ stage = "helpers" /\ slot <= Len(reg)
    /\ slot' = slot + 1
    /\ UNCHANGED <<stage, calls, scans, visiting, reg, emitted, bld, lostSeg>>

translate_one_helper ==
    /\ stage = "helpers" /\ slot <= Len(reg) /\ reg[slot].id
    /\ LET f == reg[slot].fn
           m == lagfx_spv_builder_funcs_snapshot(bld)
       IN  \E kept \in EmittedCalls(f, emitted), nvars \in 0..1, ok \in BOOLEAN, out \in MarkLost :
             /\ bld' = IF ok THEN Function(f, kept, nvars, out)
                       ELSE lagfx_spv_builder_funcs_rewind(Function(f, kept, nvars, out), m)
             /\ emitted' = IF ok THEN emitted \cup {f} ELSE emitted
             /\ lostSeg' = (lostSeg \/ out)
    /\ slot' = slot + 1
    /\ UNCHANGED <<stage, calls, scans, visiting, reg>>

HelpersDone ==
    /\ stage = "helpers" /\ slot > Len(reg)
    /\ stage' = "entry"
    /\ UNCHANGED <<calls, scans, visiting, reg, emitted, slot, bld, lostSeg>>

EmitEntry ==
    /\ stage = "entry"
    /\ \E kept \in EmittedCalls(0, emitted), nvars \in 0..1, out \in MarkLost :
         /\ bld' = Function(0, kept, nvars, out)
         /\ lostSeg' = (lostSeg \/ out)
    /\ stage' = "finished"
    /\ UNCHANGED <<calls, scans, visiting, reg, emitted, slot>>

\* The module is handed out, or out of memory: the builder and the registry are freed.
FreePlan ==
    /\ stage \in {"entry", "finished"}
    /\ stage' = "none" /\ calls' = <<>> /\ scans' = <<>> /\ visiting' = <<>> /\ reg' = <<>>
    /\ emitted' = {} /\ slot' = 1 /\ bld' = lagfx_spv_builder_create /\ lostSeg' = FALSE

PlanStep ==
    \/ PassOver \/ helpers_plan_fn \/ helpers_plan_scan
    \/ SkipHelper \/ translate_one_helper \/ HelpersDone \/ EmitEntry \/ FreePlan

PlanNext == PlanStep \/ \E g \in CallGraphs : StartPlan(g)

PlanSpec == PlanInit /\ [][PlanNext]_planVars /\ WF_planVars(PlanStep)

-----------------------------------------------------------------------------
(* Properties. *)

\* "Registry order is callee-before-caller and emission never needs a forward reference"
\* (translate_function.c:7565): whatever was unsupported, failed or cut off, and however
\* the functions call each other, a call that is emitted is to a function whose words are
\* kept and stand before it, so the module has no recursion and no function twice.
CallsDefined ==
    /\ \A p \in DOMAIN bld.words : bld.words[p].op = "call" =>
          \E q \in 1..(p - 1) : /\ bld.words[q].op = "function"
                                /\ bld.words[q].fn = bld.words[p].fn
                                /\ bld.words[q].fn # bld.words[p].of
    /\ \A p, q \in DOMAIN bld.words :
          /\ bld.words[p].op = "function" /\ bld.words[q] = bld.words[p] => p = q
    /\ \A f \in emitted : \E p \in DOMAIN bld.words : bld.words[p].op = "function" /\ bld.words[p].fn = f

\* Every local variable is spliced once, into the function that made it, at the start of
\* that function, although a failed function takes back its own.  Not so when a segment could
\* not be recorded: what spv_builder.c:204 calls dropped goes to the function before it.
LocalsAtHome ==
    stage = "finished" /\ ~lostSeg =>
        \A i \in DOMAIN bld.locals :
            \E g \in DOMAIN bld.segs :
                /\ bld.words[bld.segs[g].mark].op = "function"
                /\ bld.words[bld.segs[g].mark].fn = bld.locals[i]
                /\ \A h \in DOMAIN bld.segs : i \in lagfx_spv_builder_finish(bld, h) <=> h = g

=============================================================================
