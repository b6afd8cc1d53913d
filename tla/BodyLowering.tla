---------------------------- MODULE BodyLowering ----------------------------
(***************************************************************************)
(* How translate_function.c turns the body of an AIR function (LLVM IR in  *)
(* SSA form) into SPIR-V control flow.  translate_body recognises two      *)
(* shapes of loop, which it emits with OpPhi; every other body of several  *)
(* blocks becomes a loop around an OpSwitch over the block index, in which *)
(* a value crosses from one case to another through a spill variable and a *)
(* phi is a variable that every predecessor stores to.                     *)
(*                                                                         *)
(* A body is a function from block numbers 0..n-1 to                       *)
(*   [phis  |-> sequence of [id, ptr, in], in: predecessor -> operand,     *)
(*    insts |-> sequence of [id, op, args],                                *)
(*    term  |-> [op, on, to], to: sequence of block numbers].              *)
(* The ids of values are 1, 2, ... in the order of their definitions; an   *)
(* operand is such an id or 0, an argument or a constant.  ptr says that a *)
(* phi chooses between pointers.  What an instruction computes is left     *)
(* out: its result is a token, new every time it is executed.  The emitted *)
(* code is then executed beside the SSA body.                              *)
(***************************************************************************)
EXTENDS Integers, Sequences, FiniteSets, SequencesExt

CONSTANTS
    Bodies,      \* the bodies translated
    MaxIters,    \* the dispatch loop's iteration cap (65536)
    MaxRounds,   \* how many blocks of a loop shape are executed: a bound of the model
    RematDepth   \* dispatch_remat_depth's cap (4)

ASSUME LoweringAssumption ==
    MaxIters \in Nat \ {0} /\ MaxRounds \in Nat \ {0} /\ RematDepth \in Nat

VARIABLES
    phase,   \* "idle", "emit", "run", "done"
    bd,      \* the body
    form,    \* how it is emitted: "linear", "loop", "guarded", "dispatch"
    em,      \* xlate_ctx_t while emitting
    code,    \* the blocks emitted so far
    rt       \* the two executions

lowerVars == <<phase, bd, form, em, code, rt>>

\* The elements of s applied to base from left to right; each result is computed once.
Fold(op(_, _), base, s) ==
    LET F[i \in 0..Len(s)] ==
          IF i = 0 THEN base ELSE CHOOSE r \in {op(a, s[i]) : a \in {F[i - 1]}} : TRUE
    IN  F[Len(s)]

-----------------------------------------------------------------------------
(* What the translator needs to know of an instruction's emitter.          *)
(* keeps: it takes the result id bound beforehand, if there is one (else   *)
(* it allocates and binds a new one).  typed: the pre-pass infers the type *)
(* ("op0": from the first operand).  air: it records the AIR type of its   *)
(* result ("op0": that of an operand, if it has one).  untyped: what       *)
(* becomes of it when no operand has a type ("emit", "drop", or "undef").  *)
(* spills: a value that the pre-pass did not type gets its variable at its *)
(* definition.                                                             *)

Emitter(keeps, typed, air, untyped, spills) ==
    [keeps |-> keeps, typed |-> typed, air |-> air, untyped |-> untyped, spills |-> spills]

emit_inst_load       == Emitter(FALSE, "yes", "yes", "emit", TRUE)
\* The numeric conversions; between floats and i1, a compare or a select under a new id;
\* a bitcast of numbers; a pointer reinterpreted, an alias.  PTRTOINT is left out.
emit_inst_cast       == Emitter(TRUE, "yes", "yes", "emit", TRUE)
BoolCast             == Emitter(FALSE, "yes", "yes", "emit", TRUE)
NumericBitcast       == Emitter(TRUE, "yes", "yes", "undef", TRUE)
PointerCast          == Emitter(FALSE, "no", "yes", "emit", FALSE)
\* Intrinsics; air.any, air.all, the derivatives and conversions to i1; a helper; a
\* callee nobody knows; one that is no function, or an intrinsic without an argument.
emit_inst_call       == Emitter(TRUE, "yes", "yes", "emit", TRUE)
CallWithNewId        == Emitter(FALSE, "yes", "yes", "emit", TRUE)
HelperCall           == Emitter(FALSE, "yes", "yes", "emit", TRUE)
UnknownCall          == Emitter(FALSE, "yes", "yes", "undef", TRUE)
DroppedCall          == Emitter(FALSE, "yes", "no", "drop", FALSE)
emit_inst_binop      == Emitter(TRUE, "op0", "op0", "emit", TRUE)
emit_inst_unop       == Emitter(TRUE, "no", "op0", "emit", TRUE)
emit_inst_cmp        == Emitter(TRUE, "yes", "yes", "emit", TRUE)
\* VSELECT, the record LLVM writes; the pre-pass looks for the obsolete SELECT only.
emit_inst_select     == Emitter(TRUE, "no", "yes", "drop", TRUE)
emit_inst_insertelt  == Emitter(TRUE, "op0", "yes", "drop", TRUE)
emit_inst_extractelt == Emitter(TRUE, "op0", "yes", "drop", TRUE)
BoolVectorExtract    == Emitter(FALSE, "op0", "yes", "drop", TRUE)
emit_inst_extractval == Emitter(TRUE, "no", "yes", "drop", TRUE)
emit_inst_shufflevec == Emitter(FALSE, "no", "yes", "emit", TRUE)
emit_inst_insertval  == Emitter(FALSE, "no", "no", "emit", FALSE)
emit_inst_gep        == Emitter(FALSE, "no", "yes", "emit", FALSE)
\* A pointer that is loaded: the pre-pass and the spill pass over pointers.
PointerLoad          == Emitter(FALSE, "no", "yes", "emit", FALSE)
\* The variable of an ALLOCA is emitted with the prologue.
emit_inst_alloca     == Emitter(FALSE, "no", "yes", "emit", FALSE)
emit_inst_store      == Emitter(FALSE, "no", "no", "emit", FALSE)

emitters ==
    [load |-> emit_inst_load, cast |-> emit_inst_cast, boolcast |-> BoolCast,
     bitcast |-> NumericBitcast, ptrcast |-> PointerCast, call |-> emit_inst_call,
     newcall |-> CallWithNewId, helper |-> HelperCall, unknown |-> UnknownCall,
     dropped |-> DroppedCall, binop |-> emit_inst_binop, unop |-> emit_inst_unop,
     cmp |-> emit_inst_cmp,
     select |-> emit_inst_select, insertelt |-> emit_inst_insertelt,
     extractelt |-> emit_inst_extractelt, boolextract |-> BoolVectorExtract,
     extractval |-> emit_inst_extractval, shufflevec |-> emit_inst_shufflevec,
     insertval |-> emit_inst_insertval, gep |-> emit_inst_gep, pointer |-> PointerLoad,
     alloca |-> emit_inst_alloca, store |-> emit_inst_store]

\* STORE and void CALLs produce no value: their id is 0.  An ALLOCA does, in block 0.
inst_produces_value(i) == i.id # 0

-----------------------------------------------------------------------------
(* The body. *)

Blocks(B) == DOMAIN B
NumBlocks(B) == Cardinality(Blocks(B))

PhisAt(B, b)  == {B[b].phis[i] : i \in DOMAIN B[b].phis}
InstsAt(B, b) == {B[b].insts[i] : i \in DOMAIN B[b].insts}
IdsAt(B, b)   == {p.id : p \in PhisAt(B, b)} \cup ({i.id : i \in InstsAt(B, b)} \ {0})
Ids(B)        == UNION {IdsAt(B, b) : b \in Blocks(B)}
PhiIds(B)     == UNION {{p.id : p \in PhisAt(B, b)} : b \in Blocks(B)}
Inst(B, v)    == CHOOSE i \in UNION {InstsAt(B, b) : b \in Blocks(B)} : i.id = v
Op(B, v)      == IF v \in PhiIds(B) THEN "phi" ELSE Inst(B, v).op

PointerPhis(B) == {p.id : p \in {q \in UNION {PhisAt(B, b) : b \in Blocks(B)} : q.ptr}}

\* The value number that the instruction after the phis of block b has, or would have.
value_id_at_inst(B, b) ==
    1 + Cardinality(UNION {IdsAt(B, x) : x \in {y \in Blocks(B) : y < b}}) + Len(B[b].phis)

\* The number of the instruction at place j of block b, and of its terminator.
NumberAt(B, b, j) ==
    value_id_at_inst(B, b) + Cardinality({k \in 1..(j - 1) : inst_produces_value(B[b].insts[k])})
TermNumber(B, b) == NumberAt(B, b, Len(B[b].insts) + 1)

\* Values are numbered in the order of the blocks, phis first.
Numbered(B) ==
    \A b \in Blocks(B) :
        /\ \A k \in DOMAIN B[b].phis :
              B[b].phis[k].id = value_id_at_inst(B, b) - Len(B[b].phis) + k - 1
        /\ \A j \in DOMAIN B[b].insts :
              B[b].insts[j].id \in {0, NumberAt(B, b, j)}

ASSUME BodiesAssumption == \A B \in Bodies : Numbered(B)

\* Mutant: a value is taken to be visible everywhere.
VisibleEverywhere(B, v) == 0

\* The block of a value; an ALLOCA's variable is in the entry block wherever it stands.
value_def_bb(B, v) ==
    IF Op(B, v) = "alloca" THEN 0 ELSE CHOOSE b \in Blocks(B) : v \in IdsAt(B, b)

IsTerm(B, b, op, n) == B[b].term.op = op /\ Len(B[b].term.to) = n

PhiFirst(B, b) == B[b].phis # <<>>

-----------------------------------------------------------------------------
(* Recognising the shape. *)

\* The header the entry branches to, and the block the header's own loop leaves to.
SimpleLoops(B) ==
    {h \in Blocks(B) :
        /\ NumBlocks(B) = 3 /\ IsTerm(B, 0, "br", 1) /\ B[0].term.to[1] = h
        /\ PhiFirst(B, h) /\ IsTerm(B, h, "br", 2) /\ h # 0
        /\ \E x \in Blocks(B) \ {0, h} : ToSet(B[h].term.to) = {h, x} /\ B[x].term.op = "ret"}

detect_simple_loop(B) == SimpleLoops(B) # {}

GuardedLoops(B) ==
    {h \in Blocks(B) :
        /\ NumBlocks(B) = 3 /\ IsTerm(B, 0, "br", 2) /\ h # 0
        /\ \E x \in Blocks(B) \ {0, h} :
              /\ ToSet(B[0].term.to) = {h, x}
              /\ PhiFirst(B, h) /\ IsTerm(B, h, "br", 2) /\ ToSet(B[h].term.to) = {h, x}
              /\ B[x].term.op = "ret" /\ PhiFirst(B, x)}

detect_guarded_loop(B) == GuardedLoops(B) # {}

translate_body(B) ==
    IF detect_simple_loop(B) THEN "loop"
    ELSE IF detect_guarded_loop(B) THEN "guarded"
    ELSE IF NumBlocks(B) >= 2 THEN "dispatch"
    ELSE "linear"

-----------------------------------------------------------------------------
(* Operands.  A source is how the emitted code gets at an operand: an id,  *)
(* a load of a spill or phi variable, an access chain built again, or an   *)
(* undefined value.                                                        *)

Undef == [k |-> "undef", n |-> 0, args |-> <<>>]
None  == [k |-> "none", n |-> 0, args |-> <<>>]
Id(n) == [k |-> "id", n |-> n, args |-> <<>>]
Src(k, v, args) == [k |-> k, n |-> v, args |-> args]

\* An operand is written as its distance back from the instruction.  A distance forward
\* wraps around, and is taken for a number that is beyond every table.
Beyond == -1
resolve_relative(x, next) == IF x < next THEN x ELSE Beyond

Bound(e, v) == IF e.bound[v] = 0 THEN None ELSE Id(e.bound[v])

Rematerialisable == {"gep", "ptrcast"}

\* A value of another case: its spill variable, its phi variable, or its access chain or
\* cast in this block.  A chain without a base is not emitted, and what comes back is the
\* id the value has in its own block; a cast is an alias of its operand.
Resolve(e, b, x) ==
    LET R[d \in 0..RematDepth, v \in {Beyond, 0} \cup DOMAIN e.bound] ==
          IF v = Beyond THEN None
          ELSE IF v = 0 THEN Id(0)
          ELSE IF form # "dispatch" \/ value_def_bb(bd, v) \in {0, b} THEN Bound(e, v)
          ELSE IF v \in e.spill THEN Src("spill", v, <<>>)
          ELSE IF v \in e.phivar THEN Src("phi", v, <<>>)
          ELSE IF d < RematDepth /\ Op(bd, v) \in Rematerialisable
               THEN LET i == Inst(bd, v)
                        a == [j \in DOMAIN i.args |-> R[d + 1, resolve_relative(i.args[j], v)]]
                        OrUndef(s) == IF s = None THEN Undef ELSE s
                    IN  IF i.op = "ptrcast" THEN OrUndef(a[1])
                        ELSE IF a[1] = None THEN Bound(e, v)
                        ELSE Src("chain", v, [j \in DOMAIN a |-> OrUndef(a[j])])
          ELSE None
    IN  R[0, x]

resolve_value_spv(e, b, x) == Resolve(e, b, x)

resolve_or_undef(e, b, x) ==
    LET s == resolve_value_spv(e, b, x) IN IF s = None THEN Undef ELSE s

-----------------------------------------------------------------------------
(* Emission.  e.bound is value_id_to_spv, e.next the builder's next id,    *)
(* e.defs the ids defined and where, e.spill and e.phivar the values that  *)
(* have a variable, e.known those with a type in inst_result_air_type.     *)

lagfx_spv_builder_alloc_id(e) == e.next

Define(e, b, v, n) ==
    [e EXCEPT !.bound[v] = n, !.defs = Append(@, [n |-> n, b |-> b]),
              !.next = IF n = @ THEN @ + 1 ELSE @]

NoEmission(B) ==
    [bound |-> [v \in Ids(B) |-> 0], next |-> 1, defs |-> <<>>, spill |-> {}, phivar |-> {},
     known |-> {}]

Lost  == {"unknown", "dropped"}
Calls == {"call", "newcall", "helper"} \cup Lost

\* The loop shapes bind an id to every value before anything is emitted.
preallocate_result_ids(e) ==
    [e EXCEPT !.bound = [v \in DOMAIN @ |-> v], !.next = Cardinality(DOMAIN e.bound) + 1,
              !.known = {v \in DOMAIN e.bound : Op(bd, v) \in Calls \cup {"phi"}}]

\* The values whose type the pre-pass infers, in the order of their ids; never a pointer.
Inferred(B) ==
    LET I[v \in 0..Cardinality(Ids(B))] ==
          \/ v = 0
          \/ Op(B, v) = "phi" /\ v \notin PointerPhis(B)
          \/ /\ Op(B, v) # "phi"
             /\ \/ emitters[Op(B, v)].typed = "yes"
                \/ /\ emitters[Op(B, v)].typed = "op0"
                   /\ Inst(B, v).args[1] < v /\ I[Inst(B, v).args[1]]
    IN  {v \in Ids(B) : I[v]}

dispatch_precreate_spills(e) ==
    [e EXCEPT !.spill = {v \in Inferred(bd) : value_def_bb(bd, v) # 0}]

\* After its definition in a case a value is stored in its spill variable, made now if
\* it has none, is no pointer and has a known type.
dispatch_spill_result(e, b, v) ==
    /\ b # 0
    /\ \/ v \in e.spill
       \/ v \notin PhiIds(bd) /\ emitters[Op(bd, v)].spills

\* value_air_type_idx finds a type: an argument's, a constant's, or one that is recorded.
\* (For a value without one the code may answer with the type of a constant of the same
\* number, :4750; the bodies that ask for it are exempt below.)
value_air_type_idx(e, x) == x = 0 \/ x \in e.known

\* What becomes of an instruction whose operands are the values xs: a GEP without a base
\* and a store without an address are dropped, and so is what takes its type from an
\* operand that has none (a select looks at two).  Some calls are always lost.
Fate(e, b, i, xs) ==
    IF i.op \in {"gep", "store"} /\ resolve_value_spv(e, b, xs[1]) = None THEN "drop"
    ELSE IF \/ i.op \in Lost
            \/ \A j \in {1, IF i.op = "select" THEN 2 ELSE 1} \cap DOMAIN xs :
                  ~value_air_type_idx(e, xs[j])
    THEN emitters[i.op].untyped
    ELSE "emit"

\* The type recorded for its result.  A binop without a left operand asks the right one;
\* a GEP records one even when it is dropped.
Recorded(e, b, i, xs, fate) ==
    \/ i.op = "gep"
    \/ /\ fate # "drop"
       /\ \/ emitters[i.op].air = "yes"
          \/ /\ emitters[i.op].air = "op0"
             /\ \/ value_air_type_idx(e, xs[1])
                \/ /\ i.op = "binop" /\ resolve_value_spv(e, b, xs[1]) = None
                   /\ 2 \in DOMAIN xs /\ value_air_type_idx(e, xs[2])

\* One instruction: its operands are resolved, then its result is defined under the id
\* bound to it or a new one.  (An alias is an id of its own here.)  acc.v is its number.
EmitInst(acc, b, i) ==
    LET e    == acc.e
        xs   == [j \in DOMAIN i.args |-> resolve_relative(i.args[j], acc.v)]
        args == [j \in DOMAIN i.args |-> resolve_or_undef(e, b, xs[j])]
        fate == Fate(e, b, i, xs)
        n    == IF fate = "emit" /\ emitters[i.op].keeps /\ e.bound[i.id] # 0
                THEN e.bound[i.id] ELSE lagfx_spv_builder_alloc_id(e)
        e0   == IF Recorded(e, b, i, xs, fate) THEN [e EXCEPT !.known = @ \cup {i.id}] ELSE e
        e1   == Define(e0, b, i.id, n)
        sp   == form = "dispatch" /\ dispatch_spill_result(e1, b, i.id)
        out(m, st) == [of |-> i, n |-> m, fate |-> fate, args |-> args, spill |-> st]
    IN  IF ~inst_produces_value(i) THEN [acc EXCEPT !.out = Append(@, out(0, FALSE))]
        ELSE IF fate = "drop"
        THEN [e |-> e0, out |-> Append(acc.out, out(0, FALSE)), v |-> acc.v + 1]
        ELSE [e |-> [e1 EXCEPT !.spill = IF sp THEN @ \cup {i.id} ELSE @],
              out |-> Append(acc.out, out(n, sp)), v |-> acc.v + 1]

emit_block_body(e, b) ==
    Fold(LAMBDA acc, i : EmitInst(acc, b, i),
         [e |-> e, out |-> <<>>, v |-> value_id_at_inst(bd, b)], bd[b].insts)

-----------------------------------------------------------------------------
(* The two loop shapes: OpPhi, with an incoming value per predecessor.     *)

OpPhi(acc, b, p) ==
    LET n == IF acc.e.bound[p.id] = 0 THEN acc.e.next ELSE acc.e.bound[p.id]
        in == [q \in DOMAIN p.in |-> resolve_or_undef(acc.e, b, p.in[q])]
    IN  [e |-> Define([acc.e EXCEPT !.known = @ \cup {p.id}], b, p.id, n),
         out |-> Append(acc.out, [id |-> p.id, n |-> n, in |-> in])]

EmitPhis(e, b) ==
    Fold(LAMBDA acc, p : OpPhi(acc, b, p), [e |-> e, out |-> <<>>], bd[b].phis)

NoPhis(e) == [e |-> e, out |-> <<>>]

emit_header_phis(e, b) == EmitPhis(e, b)
emit_merge_phis(e, b)  == EmitPhis(e, b)

\* The merge block of a plain loop is emitted without looking for phis.
LoopPhis(e, b) ==
    IF b = 0 THEN NoPhis(e)
    ELSE IF form = "loop"
    THEN IF b \in SimpleLoops(bd) THEN emit_header_phis(e, b) ELSE NoPhis(e)
    ELSE IF b \in GuardedLoops(bd) THEN emit_header_phis(e, b) ELSE emit_merge_phis(e, b)

-----------------------------------------------------------------------------
(* Dispatch. *)

\* The phis of a case are loads of their variables, and spilled like any other value.
dispatch_emit_phi(acc, b, p) ==
    LET e  == [acc.e EXCEPT !.phivar = @ \cup {p.id}, !.known = @ \cup {p.id}]
        n  == lagfx_spv_builder_alloc_id(e)
        e1 == Define(e, b, p.id, n)
    IN  [e |-> e1, out |-> Append(acc.out, [id |-> p.id, n |-> n, in |-> <<>>,
                                            spill |-> dispatch_spill_result(e1, b, p.id)])]

dispatch_phis(e, b) ==
    Fold(LAMBDA acc, p : dispatch_emit_phi(acc, b, p), [e |-> e, out |-> <<>>], bd[b].phis)

\* Mutant: a phi coming in is read from its variable, which may have been stored to.
PhiVariableFirst(acc, b, p) ==
    LET e   == [acc.e EXCEPT !.phivar = @ \cup {p.id}]
        src == IF p.in[b] \in e.phivar THEN Src("phi", p.in[b], <<>>)
               ELSE resolve_value_spv(e, b, p.in[b])
    IN  IF b \notin DOMAIN p.in THEN [acc EXCEPT !.e = e]
        ELSE [e |-> e, out |-> IF src = None THEN acc.out
                               ELSE Append(acc.out, [phi |-> p.id, src |-> src])]

\* One phi of a successor: what comes in from b is stored in its variable.  A phi that
\* cannot be resolved is read from its own variable; nothing is stored if that fails too.
StoreIncoming(acc, b, p) ==
    LET e   == [acc.e EXCEPT !.phivar = @ \cup {p.id}]
        in  == p.in[b]
        s   == resolve_value_spv(e, b, in)
        src == IF s = None /\ in \in e.phivar THEN Src("phi", in, <<>>) ELSE s
    IN  IF b \notin DOMAIN p.in THEN [acc EXCEPT !.e = e]
        ELSE [e |-> e, out |-> IF src = None THEN acc.out
                               ELSE Append(acc.out, [phi |-> p.id, src |-> src])]

dispatch_store_phi_incomings(acc, b, succ) ==
    Fold(LAMBDA a, p : StoreIncoming(a, b, p), acc, bd[succ].phis)

\* The successors whose phis are stored to: every target, each once.  For a switch the
\* default is the first; a case that goes to the default's block is passed over.
Successors(b) ==
    SelectSeq([i \in DOMAIN bd[b].term.to |-> <<i, bd[b].term.to[i]>>],
              LAMBDA t : \A j \in 1..(t[1] - 1) : bd[b].term.to[j] # t[2])

dispatch_lower_terminator(e, b) ==
    Fold(LAMBDA a, t : dispatch_store_phi_incomings(a, b, t[2]),
             [e |-> e, out |-> <<>>], Successors(b))

\* The blocks in the order of their emission.
Order(B) ==
    LET h == CHOOSE x \in SimpleLoops(B) \cup GuardedLoops(B) : TRUE
    IN  IF translate_body(B) \in {"loop", "guarded"} THEN <<0, h, 3 - h>>
        ELSE [i \in 1..NumBlocks(B) |-> i - 1]

-----------------------------------------------------------------------------
(* The two executions: env is the SSA body's, idv the emitted ids', spm    *)
(* and phm the spill and phi variables'.  A value is a sequence: <<>> is   *)
(* undefined, <<0>> an argument or constant.                               *)

Nothing == [b |-> 0, prev |-> 0, it |-> 0, env |-> <<>>, idv |-> <<>>, spm |-> <<>>,
            phm |-> <<>>, bad |-> FALSE, lost |-> FALSE]

NoBodyYet == <<>>

LowerInit ==
    /\ phase = "idle" /\ bd = NoBodyYet /\ form = "linear"
    /\ em = NoEmission(<<>>) /\ code = <<>> /\ rt = Nothing

\* translate_body: the shape is chosen and the ids or variables needed are made.
StartBody(B) ==
    /\ phase = "idle"
    /\ phase' = "emit" /\ bd' = B /\ form' = translate_body(B)
    /\ em' = NoEmission(B) /\ code' = <<>> /\ rt' = Nothing

Prepare(e) ==
    CASE code # <<>>            -> e
      [] form = "dispatch"      -> dispatch_precreate_spills(e)
      [] form \in {"loop", "guarded"} -> preallocate_result_ids(e)
      [] OTHER                  -> e

\* One block: its phis, its instructions, what its terminator stores and tests.
EmitBlock ==
    /\ phase = "emit" /\ Len(code) < NumBlocks(bd)
    /\ LET b  == Order(bd)[Len(code) + 1]
           p  == IF form = "dispatch" THEN dispatch_phis(Prepare(em), b)
                 ELSE LoopPhis(Prepare(em), b)
           i  == emit_block_body(p.e, b)
           t  == IF form = "dispatch" THEN dispatch_lower_terminator(i.e, b)
                 ELSE [e |-> i.e, out |-> <<>>]
       IN  /\ em' = t.e
           /\ code' = Append(code, [b |-> b, phis |-> p.out, insts |-> i.out, stores |-> t.out,
                                    on |-> resolve_or_undef(t.e, b, resolve_relative(bd[b].term.on, i.v))])
    /\ UNCHANGED <<phase, bd, form, rt>>

StartRun ==
    /\ phase = "emit" /\ Len(code) = NumBlocks(bd)
    /\ phase' = "run"
    /\ rt' = [Nothing EXCEPT !.env = [v \in Ids(bd) |-> <<>>], !.idv = [n \in 1..em.next |-> <<>>],
                             !.spm = [v \in Ids(bd) |-> <<>>], !.phm = [v \in Ids(bd) |-> <<>>]]
    /\ UNCHANGED <<bd, form, em, code>>

Code(b) == CHOOSE c \in ToSet(code) : c.b = b

Env(env, v) == IF v = 0 THEN <<0>> ELSE env[v]

Flat(vals) == Fold(LAMBDA a, x : a \o <<-1>> \o x, <<>>, vals)

\* The value a source has when the emitted code runs.
RECURSIVE Val(_, _)
Val(r, s) ==
    CASE s.k = "undef" -> <<>>
      [] s.k = "id"    -> IF s.n = 0 THEN <<0>> ELSE r.idv[s.n]
      [] s.k = "spill" -> r.spm[s.n]
      [] s.k = "phi"   -> r.phm[s.n]
      [] s.k = "chain" -> LET a == [i \in DOMAIN s.args |-> Val(r, s.args[i])]
                          IN  IF \E i \in DOMAIN a : a[i] = <<>> THEN <<>>
                              ELSE <<s.n>> \o Flat(a)

\* The values whose last token decides a branch, and what it may be.
Branches(B) == {b \in Blocks(B) : Len(B[b].term.to) > 1}
Conds(B)    == {B[b].term.on : b \in Branches(B)}
Ways(B)     == {i - 1 : i \in UNION {DOMAIN B[b].term.to : b \in Blocks(B)}}

\* The phis of a block on arrival from r.prev: together in SSA and for OpPhi; from their
\* variables in a case.
RunPhis(r, b) ==
    LET ps  == bd[b].phis
        env == [v \in DOMAIN r.env |->
                  IF \E i \in DOMAIN ps : ps[i].id = v
                  THEN LET p == CHOOSE x \in ToSet(ps) : x.id = v IN Env(r.env, p.in[r.prev])
                  ELSE r.env[v]]
        cs  == Code(b).phis
        val(c) == IF form = "dispatch" THEN r.phm[c.id]
                  ELSE Val(r, c.in[r.prev])
        hit(n) == \E i \in DOMAIN cs : cs[i].n = n
        the(n) == CHOOSE c \in ToSet(cs) : c.n = n
    IN  [r EXCEPT !.env = env,
                  !.idv = [n \in DOMAIN @ |-> IF hit(n) THEN val(the(n)) ELSE @[n]],
                  !.spm = [v \in DOMAIN @ |->
                             IF form = "dispatch" /\ \E i \in DOMAIN cs : cs[i].id = v /\ cs[i].spill
                             THEN r.phm[v] ELSE @[v]],
                  !.bad = @ \/ \E i \in DOMAIN cs : val(cs[i]) # env[cs[i].id]]

Token(i, bits, it, vals) ==
    IF i.op = "gep" THEN <<i.id>> \o Flat(vals)
    ELSE IF i.op = "ptrcast" THEN vals[1]
    ELSE <<i.id, it, IF i.id \in DOMAIN bits THEN bits[i.id] ELSE 0>>

\* One emitted instruction beside the one it stands for, which is executed even if nothing
\* was emitted for it.
RunInst(r, c, bits) ==
    LET i    == c.of
        ssa  == [j \in DOMAIN i.args |-> Env(r.env, i.args[j])]
        low  == [j \in DOMAIN i.args |-> Val(r, c.args[j])]
        val  == IF c.fate = "undef" \/ \E j \in DOMAIN low : low[j] = <<>> THEN <<>>
                ELSE Token(i, bits, r.it, low)
        r1   == [r EXCEPT !.bad = @ \/ low # ssa]
        r2   == [r1 EXCEPT !.env[i.id] = Token(i, bits, r.it, ssa)]
    IN  IF ~inst_produces_value(i) THEN r1
        ELSE IF c.fate = "drop" THEN r2
        ELSE [r2 EXCEPT !.idv[c.n] = val, !.spm[i.id] = IF c.spill THEN val ELSE @]

RunStore(r, s) == [r EXCEPT !.phm[s.phi] = Val(r, s.src)]

Taken(B, b, v) == IF Len(B[b].term.to) = 1 THEN {B[b].term.to[1]}
                  ELSE IF v = <<>> THEN ToSet(B[b].term.to)
                  ELSE {B[b].term.to[1 + (v[Len(v)] % Len(B[b].term.to))]}

\* The iteration counter of the dispatch loop's header.
Count(it) == it + 1

\* The loop shapes count nothing; there the model ends the execution.
Looping == form \in {"loop", "guarded"}
Rounds  == IF Looping THEN MaxRounds ELSE MaxIters

\* One block of each.  The emitted code follows its own condition.
RunBlock ==
    /\ phase = "run" /\ rt.it < Rounds
    /\ \E bits \in [Conds(bd) \cap IdsAt(bd, rt.b) -> Ways(bd)] :
         LET b  == rt.b
             r1 == RunPhis(rt, b)
             r2 == Fold(LAMBDA r, c : RunInst(r, c, bits), r1, Code(b).insts)
             r3 == Fold(RunStore, r2, Code(b).stores)
             low == Val(r3, Code(b).on)
             ssa == Env(r3.env, bd[b].term.on)
         IN  IF bd[b].term.to = <<>>
             THEN /\ phase' = "done"
                  /\ rt' = [r3 EXCEPT !.bad = @ \/ low # ssa]
             ELSE /\ UNCHANGED phase
                  /\ \E t \in Taken(bd, b, low) :
                       rt' = [r3 EXCEPT !.b = t, !.prev = b, !.it = Count(@),
                                        !.bad = @ \/ low # ssa,
                                        !.lost = @ \/ t \notin Taken(bd, b, ssa)]
    /\ UNCHANGED <<bd, form, em, code>>

\* The cap of the dispatch loop is reached: OpReturn.
RunCapped ==
    /\ phase = "run" /\ ~Looping /\ rt.it >= MaxIters
    /\ phase' = "done"
    /\ UNCHANGED <<bd, form, em, code, rt>>

\* A loop shape is executed no further; the emitted code would go on.
LeaveLoop ==
    /\ phase = "run" /\ Looping /\ rt.it >= MaxRounds
    /\ phase' = "done"
    /\ UNCHANGED <<bd, form, em, code, rt>>

EndBody ==
    /\ phase = "done"
    /\ phase' = "idle" /\ bd' = NoBodyYet /\ form' = "linear"
    /\ em' = NoEmission(<<>>) /\ code' = <<>> /\ rt' = Nothing

LowerStep == EmitBlock \/ StartRun \/ RunBlock \/ RunCapped \/ LeaveLoop \/ EndBody

LowerNext == LowerStep \/ \E B \in Bodies : StartBody(B)

LowerSpec == LowerInit /\ [][LowerNext]_lowerVars /\ WF_lowerVars(LowerStep)

-----------------------------------------------------------------------------
(* Properties. *)

\* The operands read in block b with the number of the instruction that reads them, and
\* those that come into a phi from there, which are written as a signed distance.
Operands(B, b) ==
    {<<x, n>> \in ({B[b].term.on} \X {TermNumber(B, b)})
                  \cup UNION {ToSet(B[b].insts[j].args) \X {NumberAt(B, b, j)} :
                                j \in DOMAIN B[b].insts} : x # 0}
Incomings(B, b) ==
    {p.in[b] : p \in {q \in UNION {PhisAt(B, x) : x \in Blocks(B)} : b \in DOMAIN q.in}} \ {0}
Reads(B, b) == {r[1] : r \in Operands(B, b)} \cup Incomings(B, b)

\* Every operand of an instruction or a terminator comes before it.
InOrder(B) == \A b \in Blocks(B) : \A r \in Operands(B, b) : r[1] < r[2]

\* Every instruction that takes its type from an operand finds one, and every call is
\* lowered: nothing is dropped or made undefined.
Typed(B) ==
    LET K[v \in 0..Cardinality(Ids(B))] ==
          \/ v = 0 \/ Op(B, v) = "phi"
          \/ /\ Op(B, v) # "phi"
             /\ \/ emitters[Op(B, v)].air = "yes"
                \/ emitters[Op(B, v)].air = "op0" /\ Inst(B, v).args[1] < v /\ K[Inst(B, v).args[1]]
    IN  \A v \in Ids(B) \ PhiIds(B) :
            LET i == Inst(B, v)
            IN  /\ i.op \notin Lost
                /\ emitters[i.op].untyped # "emit" => i.args[1] < v /\ K[i.args[1]]

\* A value reaches block b if it is there, was computed in the entry block, has a type
\* that the pre-pass infers, has a type known at its definition and b comes after that,
\* or is an access chain or a cast over such values.  A phi of pointers is read from its
\* variable, where it may have been overtaken.
Reaches(B, v, b) ==
    LET R[d \in 0..RematDepth, x \in {0} \cup Ids(B)] ==
          IF x = 0 \/ value_def_bb(B, x) \in {0, b} THEN TRUE
          ELSE IF Op(B, x) = "phi" THEN x \notin PointerPhis(B)
          ELSE IF Op(B, x) \in Rematerialisable
          THEN d < RematDepth /\ \A a \in ToSet(Inst(B, x).args) : R[d + 1, a]
          ELSE \/ x \in Inferred(B)
               \/ emitters[Op(B, x)].spills /\ value_def_bb(B, x) < b
    IN  R[0, v]

\* The bodies whose values dispatch carries from case to case.  For the others the
\* contract is a typed undefined value (translate_function.c:1030).
Carried(B) == \A b \in Blocks(B) : \A v \in Reads(B, b) : Reaches(B, v, b)

\* The loop shapes refer forward to the ids bound beforehand: what comes into the header
\* from its own end must be an instruction that keeps its id, and a plain loop must not
\* leave into a phi (:5437, :5738).
ForwardRefsKept(B) ==
    \A h \in SimpleLoops(B) \cup GuardedLoops(B) :
        /\ \A p \in PhisAt(B, h) : p.in[h] \in IdsAt(B, h) \ PhiIds(B)
                                       => emitters[Op(B, p.in[h])].keeps
        /\ h \in SimpleLoops(B) => B[3 - h].phis = <<>>

Emittable(B) ==
    /\ InOrder(B) /\ Typed(B)
    /\ IF translate_body(B) = "dispatch" THEN Carried(B) ELSE ForwardRefsKept(B)

\* The emitted code computes what the body computes: every operand has the value it has
\* in the body and every branch goes the same way.  Here is where phis are lost: a swap
\* of two phis, a phi read after its variable has been stored for the next round, the
\* stores for the target that is not taken, a spill variable read before its store.
\* Claimed of the bodies whose operands come in order, have types and are carried: what
\* the translator loses of the others it replaces by undefined values, by design.
SameValues == phase \in {"run", "done"} /\ Emittable(bd) => ~rt.bad /\ ~rt.lost

RECURSIVE IdsOf(_)
IdsOf(s) == (IF s.k = "id" THEN {s.n} ELSE {}) \cup UNION {IdsOf(s.args[i]) : i \in DOMAIN s.args}

\* The ids a block refers to, other than those in an OpPhi.
Uses(c) ==
    UNION ({IdsOf(a) : a \in UNION {ToSet(i.args) : i \in {x \in ToSet(c.insts) : x.fate # "drop"}}}
           \cup {IdsOf(s.src) : s \in ToSet(c.stores)} \cup {IdsOf(c.on)}) \ {0}

\* Where an id is visible: the entry block dominates everything, a case nothing but
\* itself, a loop's header its exit.
Visible(from, to) ==
    from \in {0, to} \/ (form = "loop" /\ from \in SimpleLoops(bd))

\* The module is valid in the two ways the validator checks most: no id is defined
\* twice, and every id that is used is defined where it is visible.
IdsDefined ==
    phase = "run" /\ Emittable(bd) =>
        /\ \A i, j \in DOMAIN em.defs : em.defs[i].n = em.defs[j].n => i = j
        /\ \A c \in ToSet(code) :
             /\ \A n \in Uses(c) : \E d \in ToSet(em.defs) : d.n = n /\ Visible(d.b, c.b)
             /\ form # "dispatch" =>
                  \A p \in ToSet(c.phis) : \A q \in DOMAIN p.in : \A n \in IdsOf(p.in[q]) \ {0} :
                      \E d \in ToSet(em.defs) : d.n = n /\ Visible(d.b, q)

=============================================================================
