---------------------------- MODULE ShaderProofs ----------------------------
(***************************************************************************)
(* Proofs about the shader path's two ends that need no recursion: the     *)
(* functions a shader is put together from (HelperPlan) and the bitcode    *)
(* reader (AirReader).                                                     *)
(*                                                                         *)
(* HelperPlan, for every call graph, recursive ones too, any depth and any *)
(* number of helpers, whatever is unsupported, fails or runs out of        *)
(* memory.  The registry holds no function twice and not the entry point,  *)
(* and what has been emitted lies behind its cursor; so each function is   *)
(* new when it is appended to the words, and calls only what stands before *)
(* it.                                                                     *)
(*                                                                         *)
(* AirReader, for every stream, capacity of the arenas and the tables and  *)
(* cap on abbreviations.  Four things are kept together: where the reader  *)
(* is (PhaseInv), the abbreviation tables (AbbrevInv), the pointers into   *)
(* the arenas (PointerInv) and the functions with the blocks bound to them *)
(* (BoundInv).                                                             *)
(***************************************************************************)
EXTENDS HelperPlan, AirReader, FiniteSetTheorems, WellFoundedInduction, TLAPS

Fns == UNION {DOMAIN g : g \in CallGraphs}
Word == [op : {"function", "call", "undef"}, fn : Fns, of : Fns]
Segment == [mark : Nat, begin : Nat]
Builder == [words : Seq(Word), locals : Seq(Fns), segs : Seq(Segment)]

Header(f) == [op |-> "function", fn |-> f, of |-> f]
CallWord(f, kept, i) ==
    [op |-> IF i \in kept THEN "call" ELSE "undef", fn |-> calls[f][i], of |-> f]
CallWords(f, kept) == [i \in DOMAIN calls[f] |-> CallWord(f, kept, i)]

\* A section that opens the functions D, each once and before its calls.
WordsOK(w, D) ==
    /\ \A p \in 1 .. Len(w) : w[p].op = "call" =>
          \E q \in 1 .. (p - 1) : w[q].op = "function" /\ w[q].fn = w[p].fn /\ w[q].fn # w[p].of
    /\ \A p, q \in 1 .. Len(w) :
          w[p].op = "function" /\ w[q].op = "function" /\ w[p].fn = w[q].fn => p = q
    /\ \A p \in 1 .. Len(w) : w[p].op = "function" => w[p].fn \in D
    /\ \A f \in D : \E p \in 1 .. Len(w) : w[p].op = "function" /\ w[p].fn = f

\* Every local lies in one segment, and that segment's mark opens the local's function.
SegsOK(b) ==
    /\ \A g \in 1 .. Len(b.segs) :
          /\ b.segs[g].mark \in 1 .. Len(b.words) /\ b.words[b.segs[g].mark].op = "function"
          /\ b.segs[g].begin \in 0 .. Len(b.locals)
          /\ \A i \in lagfx_spv_builder_finish(b, g) : b.words[b.segs[g].mark].fn = b.locals[i]
    /\ \A g, h \in 1 .. Len(b.segs) : g <= h => b.segs[g].begin <= b.segs[h].begin
    /\ \A i \in 1 .. Len(b.locals) : \E g \in 1 .. Len(b.segs) : i \in lagfx_spv_builder_finish(b, g)

-----------------------------------------------------------------------------
(* The builder. *)

\* What stands where after a function was appended.
LEMMA Appended ==
    ASSUME NEW w \in Seq(Word), NEW hd \in Word, NEW cs \in Seq(Word),
           NEW v, v = Append(w, hd) \o cs
    PROVE  /\ v \in Seq(Word) /\ Len(v) = Len(w) + 1 + Len(cs)
           /\ \A p \in 1 .. Len(w) : v[p] = w[p]
           /\ v[Len(w) + 1] = hd
           /\ \A i \in 1 .. Len(cs) : v[Len(w) + 1 + i] = cs[i]
<1>1. /\ Append(w, hd) \in Seq(Word) /\ Len(Append(w, hd)) = Len(w) + 1
      /\ \A p \in 1 .. Len(w) : Append(w, hd)[p] = w[p]
      /\ Append(w, hd)[Len(w) + 1] = hd
  OBVIOUS
<1> QED  BY <1>1

LEMMA WordsGrow ==
    ASSUME NEW w \in Seq(Word), NEW D, NEW f \in Fns, NEW cs \in Seq(Word),
           WordsOK(w, D), f \notin D,
           \A i \in 1 .. Len(cs) : /\ cs[i].op # "function" /\ cs[i].of = f
                                   /\ cs[i].op = "call" => cs[i].fn \in D
    PROVE  WordsOK(Append(w, Header(f)) \o cs, D \cup {f})
<1> DEFINE v == Append(w, Header(f)) \o cs
           n == Len(w)
<1>1. Header(f) \in Word /\ Header(f).op = "function" /\ Header(f).fn = f
  BY DEF Header, Word
<1>2. /\ v \in Seq(Word) /\ Len(v) = n + 1 + Len(cs) /\ n \in Nat /\ Len(cs) \in Nat
      /\ \A p \in 1 .. n : v[p] = w[p]
      /\ v[n + 1] = Header(f)
      /\ \A i \in 1 .. Len(cs) : v[n + 1 + i] = cs[i]
  BY <1>1, Appended
<1> HIDE DEF v, n
<1>3. \A p \in 1 .. Len(v) : p \in 1 .. n \/ p = n + 1
                             \/ \E i \in 1 .. Len(cs) : p = n + 1 + i
  <2> SUFFICES ASSUME NEW p \in 1 .. Len(v), p \notin 1 .. n, p # n + 1
               PROVE  \E i \in 1 .. Len(cs) : p = n + 1 + i
    OBVIOUS
  <2>1. p - (n + 1) \in 1 .. Len(cs) /\ p = n + 1 + (p - (n + 1))
    BY <1>2
  <2> QED  BY <2>1
<1>4. \A p \in 1 .. Len(v) : v[p].op = "function" =>
          \/ p \in 1 .. n /\ v[p] = w[p] /\ v[p].fn \in D
          \/ p = n + 1 /\ v[p].fn = f
  <2> SUFFICES ASSUME NEW p \in 1 .. Len(v), v[p].op = "function"
               PROVE  \/ p \in 1 .. n /\ v[p] = w[p] /\ v[p].fn \in D
                      \/ p = n + 1 /\ v[p].fn = f
    OBVIOUS
  <2>1. CASE p \in 1 .. n
    BY <1>2, <2>1 DEF WordsOK, n
  <2>2. CASE p = n + 1
    BY <1>1, <1>2, <2>2
  <2>3. ASSUME NEW i \in 1 .. Len(cs), p = n + 1 + i
        PROVE  FALSE
    BY <1>2, <2>3
  <2> QED  BY <1>3, <2>1, <2>2, <2>3
<1>5. ASSUME NEW g \in D
      PROVE  \E p \in 1 .. n : p \in 1 .. Len(v) /\ v[p].op = "function" /\ v[p].fn = g
  <2>1. PICK p \in 1 .. n : w[p].op = "function" /\ w[p].fn = g
    BY DEF WordsOK, n
  <2> QED  BY <1>2, <2>1
<1>6. ASSUME NEW p \in 1 .. Len(v), v[p].op = "call"
      PROVE  \E q \in 1 .. (p - 1) :
                v[q].op = "function" /\ v[q].fn = v[p].fn /\ v[q].fn # v[p].of
  <2>1. CASE p \in 1 .. n
    <3>1. PICK q \in 1 .. (p - 1) :
                  w[q].op = "function" /\ w[q].fn = w[p].fn /\ w[q].fn # w[p].of
      BY <1>2, <1>6, <2>1 DEF WordsOK, n
    <3>2. q \in 1 .. n
      BY <1>2, <2>1, <3>1
    <3> QED  BY <1>2, <2>1, <3>1, <3>2
  <2>2. CASE p = n + 1
    BY <1>1, <1>2, <1>6, <2>2
  <2>3. ASSUME NEW i \in 1 .. Len(cs), p = n + 1 + i
        PROVE  \E q \in 1 .. (p - 1) :
                  v[q].op = "function" /\ v[q].fn = v[p].fn /\ v[q].fn # v[p].of
    <3>1. v[p] = cs[i] /\ cs[i].of = f /\ cs[i].fn \in D
      BY <1>2, <1>6, <2>3
    <3>2. PICK q \in 1 .. n : v[q].op = "function" /\ v[q].fn = cs[i].fn
      BY <1>5, <3>1
    <3>3. q \in 1 .. (p - 1)
      BY <1>2, <2>3, <3>2
    <3>4. v[q].fn # v[p].of
      BY <3>1, <3>2
    <3> QED  BY <3>1, <3>2, <3>3, <3>4
  <2> QED  BY <1>3, <2>1, <2>2, <2>3
<1>7. ASSUME NEW p \in 1 .. Len(v), NEW q \in 1 .. Len(v),
             v[p].op = "function", v[q].op = "function", v[p].fn = v[q].fn
      PROVE  p = q
  <2>1. CASE p \in 1 .. n /\ q \in 1 .. n
    BY <1>2, <1>7, <2>1 DEF WordsOK, n
  <2> QED  BY <1>4, <1>7, <2>1
<1>8. \A g \in D \cup {f} : \E p \in 1 .. Len(v) : v[p].op = "function" /\ v[p].fn = g
  <2>1. n + 1 \in 1 .. Len(v)
    BY <1>2
  <2> QED  BY <1>1, <1>2, <1>5, <2>1
<1> QED  BY <1>4, <1>6, <1>7, <1>8 DEF WordsOK, v

\* The fields of the builder after a function.
LEMMA FunctionFields ==
    ASSUME bld \in Builder, NEW f \in Fns, calls[f] \in Seq(Fns),
           NEW kept, NEW nvars \in 0 .. 1, NEW out \in BOOLEAN,
           NEW b, b = Function(f, kept, nvars, out)
    PROVE  /\ b \in Builder
           /\ b.words = Append(bld.words, Header(f)) \o CallWords(f, kept)
           /\ out = TRUE => b.segs = bld.segs
           /\ out = FALSE => b.segs = Append(bld.segs, [mark |-> Len(bld.words) + 1,
                                                        begin |-> Len(bld.locals)])
           /\ b.locals = bld.locals \/ b.locals = Append(bld.locals, f)
           /\ CallWords(f, kept) \in Seq(Word) /\ Len(CallWords(f, kept)) = Len(calls[f])
           /\ \A i \in 1 .. Len(calls[f]) : CallWords(f, kept)[i] = CallWord(f, kept, i)
<1> DEFINE b0 == [bld EXCEPT !.words = Append(@, Header(f))]
           b1 == IF out THEN b0
                 ELSE [b0 EXCEPT !.segs = Append(@, [mark |-> Len(b0.words), begin |-> Len(b0.locals)])]
           b2 == IF nvars = 0 THEN b1
                 ELSE IF b1.segs = <<>> THEN b1 ELSE [b1 EXCEPT !.locals = Append(@, f)]
           cs == CallWords(f, kept)
<1>1. b = [b2 EXCEPT !.words = @ \o cs]
  BY DEF Function, lagfx_spv_builder_emit_op, lagfx_spv_builder_mark_locals,
         lagfx_spv_builder_emit_local_var, Header, CallWords, CallWord
<1>2. Header(f) \in Word /\ bld.words \in Seq(Word) /\ bld.locals \in Seq(Fns)
      /\ bld.segs \in Seq(Segment)
  BY DEF Header, Word, Builder
<1>3. /\ cs \in Seq(Word) /\ Len(cs) = Len(calls[f])
      /\ \A i \in 1 .. Len(calls[f]) : cs[i] = CallWord(f, kept, i)
  <2>1. DOMAIN calls[f] = 1 .. Len(calls[f]) /\ Len(calls[f]) \in Nat
    OBVIOUS
  <2>2. \A i \in 1 .. Len(calls[f]) : CallWord(f, kept, i) \in Word
    BY DEF CallWord, Word
  <2>3. cs \in [1 .. Len(calls[f]) -> Word]
    BY <2>1, <2>2 DEF CallWords
  <2> QED  BY <2>1, <2>3 DEF CallWords
<1> DEFINE hw == Append(bld.words, Header(f))
           seg == [mark |-> Len(bld.words) + 1, begin |-> Len(bld.locals)]
<1>4. hw \in Seq(Word) /\ Len(hw) = Len(bld.words) + 1 /\ seg \in Segment
  BY <1>2 DEF Segment
<1> HIDE DEF cs, hw
<1>5. b0 \in Builder /\ b0.words = hw /\ b0.locals = bld.locals /\ b0.segs = bld.segs
  <2>1. b0 = [bld EXCEPT !.words = hw]
    BY DEF hw
  <2> QED  BY <1>4, <2>1 DEF Builder
<1> HIDE DEF b0
<1>6. /\ b1 \in Builder /\ b1.words = hw /\ b1.locals = bld.locals
      /\ out = TRUE => b1.segs = bld.segs
      /\ out = FALSE => b1.segs = Append(bld.segs, seg)
  <2>1. CASE out = TRUE
    BY <1>5, <2>1
  <2>2. CASE out = FALSE
    <3>1. [mark |-> Len(b0.words), begin |-> Len(b0.locals)] = seg
      BY <1>4, <1>5
    <3>2. b1 = [b0 EXCEPT !.segs = Append(bld.segs, seg)]
      BY <1>5, <2>2, <3>1
    <3>3. Append(bld.segs, seg) \in Seq(Segment)
      BY <1>2, <1>4
    <3> QED  BY <1>5, <2>2, <3>2, <3>3 DEF Builder
  <2> QED  BY <2>1, <2>2
<1> HIDE DEF b1
<1>7. /\ b2 \in Builder /\ b2.words = hw /\ b2.segs = b1.segs
      /\ b2.locals = bld.locals \/ b2.locals = Append(bld.locals, f)
  <2>1. CASE nvars = 0 \/ b1.segs = <<>>
    BY <1>6, <2>1
  <2>2. CASE ~(nvars = 0 \/ b1.segs = <<>>)
    <3>1. b2 = [b1 EXCEPT !.locals = Append(bld.locals, f)]
      BY <1>6, <2>2
    <3>2. Append(bld.locals, f) \in Seq(Fns)
      BY <1>2
    <3> QED  BY <1>6, <3>1, <3>2 DEF Builder
  <2> QED  BY <2>1, <2>2
<1> HIDE DEF b2
<1>8. b \in Builder /\ b.words = hw \o cs /\ b.locals = b2.locals /\ b.segs = b2.segs
  <2>1. b = [b2 EXCEPT !.words = hw \o cs]
    BY <1>1, <1>7
  <2>2. hw \o cs \in Seq(Word)
    BY <1>3, <1>4
  <2> QED  BY <1>7, <2>1, <2>2 DEF Builder
<1> QED  BY <1>3, <1>6, <1>7, <1>8 DEF cs, hw

LEMMA FunctionWords ==
    ASSUME bld \in Builder, NEW f \in Fns, calls[f] \in Seq(Fns),
           NEW kept, NEW nvars \in 0 .. 1, NEW out \in BOOLEAN
    PROVE  /\ Function(f, kept, nvars, out) \in Builder
           /\ Function(f, kept, nvars, out).words
                 = Append(bld.words, Header(f)) \o CallWords(f, kept)
BY FunctionFields

LEMMA Prefix ==
    ASSUME NEW S, NEW s \in Seq(S), NEW t \in Seq(S), Len(s) <= Len(t),
           \A i \in 1 .. Len(s) : t[i] = s[i]
    PROVE  SubSeq(t, 1, Len(s)) = s
<1>1. SubSeq(t, 1, Len(s)) \in Seq(S) /\ Len(SubSeq(t, 1, Len(s))) = Len(s)
      /\ \A i \in 1 .. Len(s) : SubSeq(t, 1, Len(s))[i] = s[i]
  OBVIOUS
<1> QED  BY <1>1

\* A failed function leaves no trace: the rewind restores the builder.
LEMMA RewindRestores ==
    ASSUME bld \in Builder, NEW f \in Fns, calls[f] \in Seq(Fns),
           NEW kept, NEW nvars \in 0 .. 1, NEW out \in BOOLEAN
    PROVE  lagfx_spv_builder_funcs_rewind(Function(f, kept, nvars, out),
                                          lagfx_spv_builder_funcs_snapshot(bld)) = bld
<1> DEFINE b == Function(f, kept, nvars, out)
           seg == [mark |-> Len(bld.words) + 1, begin |-> Len(bld.locals)]
<1>1. /\ b \in Builder
      /\ b.words = Append(bld.words, Header(f)) \o CallWords(f, kept)
      /\ out = TRUE => b.segs = bld.segs
      /\ out = FALSE => b.segs = Append(bld.segs, seg)
      /\ b.locals = bld.locals \/ b.locals = Append(bld.locals, f)
      /\ CallWords(f, kept) \in Seq(Word)
  BY FunctionFields, ZenonT(30)
<1> HIDE DEF b
<1>2. /\ b.words \in Seq(Word) /\ b.locals \in Seq(Fns) /\ b.segs \in Seq(Segment)
      /\ bld.words \in Seq(Word) /\ bld.locals \in Seq(Fns) /\ bld.segs \in Seq(Segment)
      /\ bld = [words |-> bld.words, locals |-> bld.locals, segs |-> bld.segs]
      /\ Header(f) \in Word /\ seg \in Segment
  BY <1>1 DEF Builder, Header, Word, Segment
<1>3. SubSeq(b.words, 1, Len(bld.words)) = bld.words
  <2>1. /\ Len(b.words) = Len(bld.words) + 1 + Len(CallWords(f, kept))
        /\ Len(CallWords(f, kept)) \in Nat /\ Len(bld.words) \in Nat
        /\ \A p \in 1 .. Len(bld.words) : b.words[p] = bld.words[p]
    BY <1>1, <1>2, Appended
  <2>2. Len(bld.words) <= Len(b.words)
    BY <2>1
  <2> QED  BY <1>2, <2>1, <2>2, Prefix
<1>4. SubSeq(b.locals, 1, Len(bld.locals)) = bld.locals
  <2>1. Len(bld.locals) <= Len(b.locals)
        /\ \A p \in 1 .. Len(bld.locals) : b.locals[p] = bld.locals[p]
    BY <1>1, <1>2
  <2> QED  BY <1>2, <2>1, Prefix
<1>5. SubSeq(b.segs, 1, Len(bld.segs)) = bld.segs
  <2> HIDE DEF seg
  <2>1. b.segs = bld.segs \/ b.segs = Append(bld.segs, seg)
    BY <1>1
  <2>2. Len(bld.segs) <= Len(b.segs)
        /\ \A p \in 1 .. Len(bld.segs) : b.segs[p] = bld.segs[p]
    BY <1>2, <2>1
  <2> QED  BY <1>2, <2>2, Prefix
<1> QED  BY <1>2, <1>3, <1>4, <1>5
         DEF lagfx_spv_builder_funcs_rewind, lagfx_spv_builder_funcs_snapshot, b

LEMMA RangeInside ==
    ASSUME NEW k \in Nat, NEW x \in 0 .. k, NEW y \in 0 .. k
    PROVE  (x + 1) .. y \subseteq 1 .. k
OBVIOUS

\* A function whose mark is recorded brings its segment with it, which ends the one before.
LEMMA SegsGrow ==
    ASSUME bld \in Builder, SegsOK(bld), NEW f \in Fns, calls[f] \in Seq(Fns),
           NEW kept, NEW nvars \in 0 .. 1
    PROVE  SegsOK(Function(f, kept, nvars, FALSE))
<1> DEFINE b == Function(f, kept, nvars, FALSE)
           seg == [mark |-> Len(bld.words) + 1, begin |-> Len(bld.locals)]
           n == Len(bld.segs)
           k == Len(bld.locals)
<1>1. /\ b \in Builder
      /\ b.words = Append(bld.words, Header(f)) \o CallWords(f, kept)
      /\ b.segs = Append(bld.segs, seg)
      /\ b.locals = bld.locals \/ b.locals = Append(bld.locals, f)
      /\ CallWords(f, kept) \in Seq(Word)
  BY FunctionFields
<1> HIDE DEF b
<1>2. /\ b.words \in Seq(Word) /\ b.locals \in Seq(Fns) /\ b.segs \in Seq(Segment)
      /\ bld.words \in Seq(Word) /\ bld.locals \in Seq(Fns) /\ bld.segs \in Seq(Segment)
      /\ Header(f) \in Word /\ seg \in Segment /\ n \in Nat /\ k \in Nat /\ Len(bld.words) \in Nat
      /\ Header(f).op = "function" /\ Header(f).fn = f
      /\ seg.mark = Len(bld.words) + 1 /\ seg.begin = k
  <2>1. /\ b.words \in Seq(Word) /\ b.locals \in Seq(Fns) /\ b.segs \in Seq(Segment)
        /\ bld.words \in Seq(Word) /\ bld.locals \in Seq(Fns) /\ bld.segs \in Seq(Segment)
    BY <1>1 DEF Builder
  <2>2. n \in Nat /\ k \in Nat /\ Len(bld.words) \in Nat
    BY <2>1
  <2>3. seg \in Segment /\ seg.mark = Len(bld.words) + 1 /\ seg.begin = k
    BY <2>2 DEF Segment
  <2>4. Header(f) \in Word /\ Header(f).op = "function" /\ Header(f).fn = f
    BY DEF Header, Word
  <2> QED  BY <2>1, <2>2, <2>3, <2>4
<1>3. /\ Len(b.words) = Len(bld.words) + 1 + Len(CallWords(f, kept))
      /\ Len(CallWords(f, kept)) \in Nat
      /\ \A p \in 1 .. Len(bld.words) : b.words[p] = bld.words[p]
      /\ b.words[Len(bld.words) + 1] = Header(f)
  BY <1>1, <1>2, Appended
<1> HIDE DEF seg
<1>4. /\ Len(b.segs) = n + 1 /\ b.segs[n + 1] = seg
      /\ \A g \in 1 .. n : b.segs[g] = bld.segs[g]
  BY <1>1, <1>2
<1>5. /\ Len(b.locals) \in {k, k + 1}
      /\ \A i \in 1 .. k : b.locals[i] = bld.locals[i]
      /\ \A i \in 1 .. Len(b.locals) : i \in 1 .. k \/ (i = k + 1 /\ b.locals[i] = f)
  <2>1. CASE b.locals = bld.locals
    BY <1>2, <2>1
  <2>2. CASE b.locals = Append(bld.locals, f)
    BY <1>2, <2>2
  <2> QED  BY <1>1, <2>1, <2>2
<1>6. /\ \A g \in 1 .. n : /\ bld.segs[g].mark \in 1 .. Len(bld.words)
                           /\ bld.words[bld.segs[g].mark].op = "function"
                           /\ bld.segs[g].begin \in 0 .. k
                           /\ \A i \in lagfx_spv_builder_finish(bld, g) :
                                bld.words[bld.segs[g].mark].fn = bld.locals[i]
      /\ \A g, h \in 1 .. n : g <= h => bld.segs[g].begin <= bld.segs[h].begin
      /\ \A i \in 1 .. k : \E g \in 1 .. n : i \in lagfx_spv_builder_finish(bld, g)
  BY DEF SegsOK
<1> HIDE DEF n, k
<1>7. ASSUME NEW g \in 1 .. n
      PROVE  /\ lagfx_spv_builder_finish(b, g) = lagfx_spv_builder_finish(bld, g)
             /\ lagfx_spv_builder_finish(b, g) \subseteq 1 .. k
  <2>1. CASE g = n
    <3>1. lagfx_spv_builder_finish(bld, g) = (bld.segs[g].begin + 1) .. k
      BY <1>2, <2>1 DEF lagfx_spv_builder_finish, n, k
    <3>2. lagfx_spv_builder_finish(b, g) = (bld.segs[g].begin + 1) .. k
      <4>1. g < Len(b.segs) /\ g + 1 = n + 1
        BY <1>2, <1>4, <2>1
      <4>2. b.segs[g] = bld.segs[g] /\ b.segs[g + 1].begin = k
        BY <1>2, <1>4, <4>1
      <4> QED  BY <4>1, <4>2 DEF lagfx_spv_builder_finish
    <3> QED  BY <1>2, <1>6, <3>1, <3>2
  <2>2. CASE g < n
    <3>1. g + 1 \in 1 .. n
      BY <1>2, <2>2
    <3>2. lagfx_spv_builder_finish(bld, g) = (bld.segs[g].begin + 1) .. bld.segs[g + 1].begin
      BY <1>2, <2>2 DEF lagfx_spv_builder_finish, n
    <3>3. lagfx_spv_builder_finish(b, g) = (bld.segs[g].begin + 1) .. bld.segs[g + 1].begin
      <4>1. g < Len(b.segs)
        BY <1>2, <1>4, <2>2
      <4>2. b.segs[g] = bld.segs[g] /\ b.segs[g + 1] = bld.segs[g + 1]
        BY <1>4, <3>1
      <4> QED  BY <4>1, <4>2 DEF lagfx_spv_builder_finish
    <3>4. bld.segs[g].begin \in 0 .. k /\ bld.segs[g + 1].begin \in 0 .. k
      BY <1>6, <3>1
    <3>5. (bld.segs[g].begin + 1) .. bld.segs[g + 1].begin \subseteq 1 .. k
      <4>1. k \in Nat
        BY <1>2
      <4> QED  BY <3>4, <4>1, RangeInside
    <3> QED  BY <3>2, <3>3, <3>5
  <2> QED  BY <1>2, <2>1, <2>2
<1>8. lagfx_spv_builder_finish(b, n + 1) = (k + 1) .. Len(b.locals)
  <2>1. ~(n + 1 < Len(b.segs)) /\ b.segs[n + 1].begin = k
    BY <1>2, <1>4
  <2> QED  BY <2>1 DEF lagfx_spv_builder_finish
<1>9. ASSUME NEW g \in 1 .. Len(b.segs)
      PROVE  /\ b.segs[g].mark \in 1 .. Len(b.words) /\ b.words[b.segs[g].mark].op = "function"
             /\ b.segs[g].begin \in 0 .. Len(b.locals)
             /\ \A i \in lagfx_spv_builder_finish(b, g) : b.words[b.segs[g].mark].fn = b.locals[i]
  <2>1. CASE g \in 1 .. n
    <3>1. b.segs[g] = bld.segs[g] /\ b.words[bld.segs[g].mark] = bld.words[bld.segs[g].mark]
      BY <1>3, <1>4, <1>6, <2>1
    <3>2. b.segs[g].mark \in 1 .. Len(b.words) /\ b.segs[g].begin \in 0 .. Len(b.locals)
      <4>1. bld.segs[g].mark \in 1 .. Len(bld.words) /\ bld.segs[g].begin \in 0 .. k
        BY <1>6, <2>1
      <4>2. \A p, q \in Nat : p <= q => 1 .. p \subseteq 1 .. q /\ 0 .. p \subseteq 0 .. q
        OBVIOUS
      <4>3. Len(b.words) \in Nat /\ Len(bld.words) \in Nat /\ Len(bld.words) <= Len(b.words)
        BY <1>2, <1>3
      <4>4. Len(b.locals) \in Nat /\ k \in Nat /\ k <= Len(b.locals)
        BY <1>2, <1>5
      <4>5. bld.segs[g].mark \in 1 .. Len(b.words)
        BY <4>1, <4>2, <4>3
      <4>6. bld.segs[g].begin \in 0 .. Len(b.locals)
        BY <4>1, <4>2, <4>4
      <4> QED  BY <3>1, <4>5, <4>6
    <3>3. \A i \in lagfx_spv_builder_finish(b, g) : b.words[b.segs[g].mark].fn = b.locals[i]
      <4> SUFFICES ASSUME NEW i \in lagfx_spv_builder_finish(b, g)
                   PROVE  b.words[b.segs[g].mark].fn = b.locals[i]
        OBVIOUS
      <4>1. i \in lagfx_spv_builder_finish(bld, g) /\ i \in 1 .. k
        BY <1>7, <2>1
      <4> QED  BY <1>5, <1>6, <2>1, <3>1, <4>1
    <3> QED  BY <1>6, <2>1, <3>1, <3>2, <3>3
  <2>2. CASE g = n + 1
    <3>1. b.segs[g] = seg /\ b.words[b.segs[g].mark] = Header(f)
      BY <1>2, <1>3, <1>4, <2>2
    <3>2. \A i \in lagfx_spv_builder_finish(b, g) : b.locals[i] = f
      BY <1>2, <1>5, <1>8, <2>2
    <3>3. b.segs[g].mark \in 1 .. Len(b.words) /\ b.segs[g].begin \in 0 .. Len(b.locals)
      <4>1. Len(bld.words) + 1 \in 1 .. Len(b.words)
        BY <1>2, <1>3
      <4>2. k \in 0 .. Len(b.locals)
        BY <1>2, <1>5
      <4> QED  BY <1>2, <3>1, <4>1, <4>2
    <3> QED  BY <1>2, <3>1, <3>2, <3>3
  <2> QED  BY <1>2, <1>4, <2>1, <2>2
<1>10. ASSUME NEW g \in 1 .. Len(b.segs), NEW h \in 1 .. Len(b.segs), g <= h
       PROVE  b.segs[g].begin <= b.segs[h].begin
  <2>1. CASE h \in 1 .. n
    <3>1. g \in 1 .. n
      BY <1>2, <1>10, <2>1
    <3>2. bld.segs[g].begin <= bld.segs[h].begin
      BY <1>6, <1>10, <2>1, <3>1
    <3> QED  BY <1>4, <2>1, <3>1, <3>2
  <2>2. CASE h = n + 1
    <3>1. b.segs[h].begin = k
      BY <1>2, <1>4, <2>2
    <3>2. CASE g = h
      BY <1>2, <3>1, <3>2
    <3>3. CASE g \in 1 .. n
      <4>1. bld.segs[g].begin \in 0 .. k
        BY <1>6, <3>3
      <4>2. b.segs[g].begin \in 0 .. k
        BY <1>4, <3>3, <4>1
      <4>3. k \in Nat
        BY <1>2
      <4> QED  BY <3>1, <4>2, <4>3
    <3> QED  BY <1>2, <1>10, <2>2, <3>2, <3>3
  <2> QED  BY <1>2, <1>4, <2>1, <2>2
<1>11. ASSUME NEW i \in 1 .. Len(b.locals)
       PROVE  \E g \in 1 .. Len(b.segs) : i \in lagfx_spv_builder_finish(b, g)
  <2>1. CASE i \in 1 .. k
    <3>1. PICK g \in 1 .. n : i \in lagfx_spv_builder_finish(bld, g)
      BY <1>6, <2>1
    <3> QED  BY <1>2, <1>4, <1>7, <3>1
  <2>2. CASE i = k + 1
    <3>1. i \in lagfx_spv_builder_finish(b, n + 1) /\ n + 1 \in 1 .. Len(b.segs)
      BY <1>2, <1>4, <1>5, <1>8, <2>2
    <3> QED  BY <3>1
  <2> QED  BY <1>5, <2>1, <2>2
<1> QED  BY <1>9, <1>10, <1>11 DEF SegsOK, b

\* Segments that follow each other share no local.
LEMMA OneHome ==
    ASSUME bld \in Builder, SegsOK(bld),
           NEW g \in 1 .. Len(bld.segs), NEW h \in 1 .. Len(bld.segs),
           NEW i \in lagfx_spv_builder_finish(bld, g), i \in lagfx_spv_builder_finish(bld, h)
    PROVE  g = h
<1>1. /\ Len(bld.segs) \in Nat /\ Len(bld.locals) \in Nat
      /\ \A x \in 1 .. Len(bld.segs) : bld.segs[x].begin \in Nat
  <2>1. bld.segs \in Seq(Segment) /\ bld.locals \in Seq(Fns)
    BY DEF Builder
  <2>2. \A x \in 1 .. Len(bld.segs) : bld.segs[x] \in Segment
    BY <2>1
  <2>3. Len(bld.segs) \in Nat /\ Len(bld.locals) \in Nat
    BY <2>1
  <2>4. \A x \in 1 .. Len(bld.segs) : bld.segs[x].begin \in Nat
    BY <2>2 DEF Segment
  <2> QED  BY <2>3, <2>4
<1>2. ASSUME NEW x \in 1 .. Len(bld.segs), NEW y \in 1 .. Len(bld.segs), x < y,
             NEW j \in lagfx_spv_builder_finish(bld, x), j \in lagfx_spv_builder_finish(bld, y)
      PROVE  FALSE
  <2>1. x < Len(bld.segs) /\ x + 1 \in 1 .. Len(bld.segs) /\ x + 1 <= y
    BY <1>1, <1>2
  <2>2. bld.segs[x + 1].begin <= bld.segs[y].begin
    BY <2>1 DEF SegsOK
  <2>3. /\ bld.segs[x].begin \in Nat /\ bld.segs[x + 1].begin \in Nat /\ bld.segs[y].begin \in Nat
    BY <1>1, <2>1
  <2>4. j \in Int /\ j <= bld.segs[x + 1].begin
    BY <2>1, <2>3 DEF lagfx_spv_builder_finish
  <2>5. bld.segs[y].begin + 1 <= j
    <3>1. PICK z : z = (IF y < Len(bld.segs) THEN bld.segs[y + 1].begin ELSE Len(bld.locals))
      OBVIOUS
    <3>2. z \in Nat
      BY <1>1, <3>1
    <3>3. j \in (bld.segs[y].begin + 1) .. z
      BY <1>2, <3>1 DEF lagfx_spv_builder_finish
    <3>4. \A p, q \in Nat : \A r \in (p + 1) .. q : p + 1 <= r
      OBVIOUS
    <3> QED  BY <2>3, <3>2, <3>3, <3>4
  <2>6. \A p, q \in Nat, r \in Int : ~(p <= q /\ r <= p /\ q + 1 <= r)
    OBVIOUS
  <2> QED  BY <2>2, <2>3, <2>4, <2>5, <2>6
<1>3. g = h \/ g < h \/ h < g
  BY <1>1
<1> QED  BY <1>2, <1>3

-----------------------------------------------------------------------------
(* The plan. *)

Scan == [fn : Fns, at : Nat \ {0}]
Entry == [fn : Fns, id : BOOLEAN]

PlanTypeOK ==
    /\ stage \in {"none", "plan", "helpers", "entry", "finished"}
    /\ scans \in Seq(Scan)
    /\ reg \in Seq(Entry)
    /\ emitted \in SUBSET Fns /\ slot \in Nat \ {0}
    /\ bld \in Builder /\ lostSeg \in BOOLEAN

\* Only the outermost scan is of the entry point.
ScansOK ==
    /\ \A k \in 1 .. Len(scans) : scans[k].fn \in DOMAIN calls
    /\ \A k \in 2 .. Len(scans) : scans[k].fn # 0

\* No function is registered twice, and the entry point is not.
RegOK ==
    /\ \A i \in 1 .. Len(reg) : reg[i].fn \in DOMAIN calls /\ reg[i].fn # 0
    /\ \A i, j \in 1 .. Len(reg) : reg[i].fn = reg[j].fn => i = j

Behind == \A f \in emitted : \E i \in 1 .. Len(reg) : i < slot /\ reg[i].fn = f

\* The functions the section opens.
Opened == IF stage = "finished" THEN emitted \cup {0} ELSE emitted

PlanInv ==
    /\ PlanTypeOK
    /\ stage # "none" => calls \in CallGraphs /\ ScansOK
    /\ RegOK /\ Behind
    /\ stage = "none" => reg = <<>>
    /\ stage \in {"none", "plan"} => emitted = {}
    /\ WordsOK(bld.words, Opened)
    /\ lostSeg = FALSE => SegsOK(bld)

LEMMA GraphShape ==
    ASSUME calls \in CallGraphs
    PROVE  /\ 0 \in DOMAIN calls /\ DOMAIN calls \subseteq Fns
           /\ \A f \in DOMAIN calls : calls[f] \in Seq(DOMAIN calls) /\ calls[f] \in Seq(Fns)
<1>1. 0 \in DOMAIN calls /\ \A f \in DOMAIN calls : calls[f] \in Seq(DOMAIN calls)
  BY PlanAssumption
<1>2. DOMAIN calls \subseteq Fns
  BY DEF Fns
<1>3. ASSUME NEW f \in DOMAIN calls
      PROVE  calls[f] \in Seq(Fns)
  <2>1. calls[f] \in Seq(DOMAIN calls)
    BY <1>1
  <2> QED  BY <1>2, <2>1
<1> QED  BY <1>1, <1>2, <1>3

\* A new builder holds nothing.
LEMMA EmptyBuilder ==
    ASSUME NEW b, b = lagfx_spv_builder_create
    PROVE  b \in Builder /\ WordsOK(b.words, {}) /\ SegsOK(b)
<1>1. b.words = <<>> /\ b.locals = <<>> /\ b.segs = <<>> /\ b \in Builder
  BY DEF lagfx_spv_builder_create, Builder
<1> QED  BY <1>1 DEF WordsOK, SegsOK

LEMMA PlanInitially == PlanInit => PlanInv
<1> SUFFICES ASSUME PlanInit PROVE PlanInv
  OBVIOUS
<1>1. bld \in Builder /\ WordsOK(bld.words, {}) /\ SegsOK(bld)
  BY EmptyBuilder DEF PlanInit
<1>2. PlanTypeOK
  <2>1. scans = <<>> /\ reg = <<>> /\ emitted = {} /\ slot = 1 /\ lostSeg = FALSE /\ stage = "none"
    BY DEF PlanInit
  <2>2. scans \in Seq(Scan) /\ reg \in Seq(Entry)
    BY <2>1
  <2>3. emitted \in SUBSET Fns /\ slot \in Nat \ {0}
    BY <2>1
  <2>4. lostSeg \in BOOLEAN
    BY <2>1, Zenon
  <2> QED  BY <1>1, <2>1, <2>2, <2>3, <2>4, Zenon DEF PlanTypeOK
<1>3. RegOK /\ Behind /\ Opened = {}
  BY DEF PlanInit, RegOK, Behind, Opened
<1> QED  BY <1>1, <1>2, <1>3 DEF PlanInit, PlanInv

\* A function that has not been opened is appended.
LEMMA FunctionStep ==
    ASSUME PlanInv, stage # "none", stage # "finished",
           NEW f \in DOMAIN calls, f \notin emitted,
           NEW kept \in EmittedCalls(f, emitted), NEW nvars \in 0 .. 1, NEW out \in MarkLost
    PROVE  /\ Function(f, kept, nvars, out) \in Builder
           /\ WordsOK(Function(f, kept, nvars, out).words, emitted \cup {f})
           /\ (lostSeg \/ out) \in BOOLEAN
           /\ (lostSeg \/ out) = FALSE => SegsOK(Function(f, kept, nvars, out))
<1>1. calls \in CallGraphs /\ bld \in Builder /\ lostSeg \in BOOLEAN /\ out \in BOOLEAN
  BY DEF PlanInv, PlanTypeOK, MarkLost
<1>2. f \in Fns /\ calls[f] \in Seq(Fns)
  BY <1>1, GraphShape
<1> DEFINE b == Function(f, kept, nvars, out)
           cs == CallWords(f, kept)
<1> HIDE DEF b
<1>3. /\ b \in Builder /\ b.words = Append(bld.words, Header(f)) \o cs
      /\ cs \in Seq(Word) /\ Len(cs) = Len(calls[f])
      /\ \A i \in 1 .. Len(calls[f]) : cs[i] = CallWord(f, kept, i)
  <2>1. nvars \in 0 .. 1 /\ out \in BOOLEAN
    BY <1>1
  <2>2. /\ Function(f, kept, nvars, out) \in Builder
        /\ Function(f, kept, nvars, out).words
              = Append(bld.words, Header(f)) \o CallWords(f, kept)
    BY <1>1, <1>2, <2>1, FunctionWords
  <2>3. /\ CallWords(f, kept) \in Seq(Word) /\ Len(CallWords(f, kept)) = Len(calls[f])
        /\ \A i \in 1 .. Len(calls[f]) : CallWords(f, kept)[i] = CallWord(f, kept, i)
    BY <1>1, <1>2, <2>1, FunctionFields, ZenonT(30)
  <2> QED  BY <2>2, <2>3 DEF b
<1>4. \A i \in 1 .. Len(cs) : /\ cs[i].op # "function" /\ cs[i].of = f
                              /\ cs[i].op = "call" => cs[i].fn \in emitted
  <2> SUFFICES ASSUME NEW i \in 1 .. Len(cs)
               PROVE  /\ CallWord(f, kept, i).op # "function" /\ CallWord(f, kept, i).of = f
                      /\ CallWord(f, kept, i).op = "call" => CallWord(f, kept, i).fn \in emitted
    BY <1>3
  <2>1. i \in kept => calls[f][i] \in emitted
    BY DEF EmittedCalls, emit_helper_fncall
  <2> QED  BY <2>1 DEF CallWord
<1> HIDE DEF cs
<1>5. WordsOK(b.words, emitted \cup {f})
  <2>1. WordsOK(bld.words, emitted) /\ bld.words \in Seq(Word)
    BY <1>1 DEF PlanInv, Opened, Builder
  <2>2. f \in Fns /\ cs \in Seq(Word)
    BY <1>2, <1>3
  <2>3. WordsOK(Append(bld.words, Header(f)) \o cs, emitted \cup {f})
    BY <1>4, <2>1, <2>2, WordsGrow
  <2> QED  BY <1>3, <2>3
<1>6. (lostSeg \/ out) = FALSE => SegsOK(b)
  <2> SUFFICES ASSUME lostSeg = FALSE, out = FALSE PROVE SegsOK(b)
    BY <1>1
  <2>1. SegsOK(bld)
    BY DEF PlanInv
  <2> QED  BY <1>1, <1>2, <2>1, SegsGrow DEF b
<1>7. (lostSeg \/ out) \in BOOLEAN
  BY <1>1
<1> QED  BY <1>3, <1>5, <1>6, <1>7 DEF b

-----------------------------------------------------------------------------
(* The steps. *)

LEMMA TopScan ==
    ASSUME PlanTypeOK, ScansOK, scans # <<>>
    PROVE  /\ scans \in Seq(Scan) /\ Len(scans) \in Nat \ {0}
           /\ Top \in Scan /\ Top.fn \in DOMAIN calls /\ Top.at \in Nat \ {0}
           /\ Len(scans) # 1 => Top.fn # 0
<1>1. scans \in Seq(Scan) /\ Len(scans) \in Nat \ {0}
  BY DEF PlanTypeOK
<1>2. Len(scans) \in 1 .. Len(scans) /\ (Len(scans) # 1 => Len(scans) \in 2 .. Len(scans))
  <2>1. \A n \in Nat \ {0} : n \in 1 .. n /\ (n # 1 => n \in 2 .. n)
    OBVIOUS
  <2> QED  BY <1>1, <2>1
<1>3. Top \in Scan
  BY <1>1, <1>2 DEF Top
<1>4. Top.at \in Nat \ {0}
  BY <1>3 DEF Scan
<1> QED  BY <1>1, <1>2, <1>3, <1>4 DEF ScansOK, Top

\* Steps that touch only the scans.
LEMMA ScanStep ==
    ASSUME PlanInv, PassOver \/ helpers_plan_fn
    PROVE  PlanInv'
<1>1. /\ stage = "plan" /\ scans # <<>> /\ Top.at <= Len(calls[Top.fn])
      /\ UNCHANGED <<stage, calls, reg, emitted, slot, bld, lostSeg>>
      /\ scans' = Advanced \/ (scans' = Append(Advanced, [fn |-> Callee, at |-> 1]) /\ Callee # 0)
  BY DEF PassOver, helpers_plan_fn, Scanning, Planned
<1>2. PlanTypeOK /\ calls \in CallGraphs /\ ScansOK
  BY <1>1 DEF PlanInv
<1> DEFINE n == Len(scans)
<1>3. /\ n \in Nat \ {0} /\ Top \in Scan /\ Top.fn \in DOMAIN calls
      /\ Top.at \in Nat \ {0} /\ scans \in Seq(Scan)
  BY <1>1, <1>2, TopScan
<1>4. /\ Advanced \in Seq(Scan) /\ Len(Advanced) = n
      /\ \A k \in 1 .. n : Advanced[k].fn = scans[k].fn
  <2>1. Advanced = [scans EXCEPT ![n] = [Top EXCEPT !.at = Top.at + 1]]
    BY DEF Advanced, Top
  <2>2. /\ [Top EXCEPT !.at = Top.at + 1] \in Scan
        /\ [Top EXCEPT !.at = Top.at + 1].fn = Top.fn
    BY <1>3 DEF Scan
  <2>3. PICK t : t = [Top EXCEPT !.at = Top.at + 1]
    OBVIOUS
  <2>4. Advanced = [scans EXCEPT ![n] = t] /\ t \in Scan /\ t.fn = scans[n].fn
    BY <2>1, <2>2, <2>3 DEF Top
  <2> QED  BY <1>3, <2>4
<1>5. CASE scans' = Advanced
  <2>1. ScansOK'
    BY <1>1, <1>2, <1>4, <1>5 DEF ScansOK
  <2>2. PlanTypeOK'
    BY <1>1, <1>2, <1>4, <1>5 DEF PlanTypeOK
  <2>3. RegOK' /\ Behind' /\ Opened' = Opened
    BY <1>1 DEF PlanInv, RegOK, Behind, Opened
  <2> QED  BY <1>1, <1>2, <2>1, <2>2, <2>3 DEF PlanInv
<1>6. CASE scans' = Append(Advanced, [fn |-> Callee, at |-> 1]) /\ Callee # 0
  <2>1. Callee \in DOMAIN calls /\ Callee \in Fns
    <3>1. calls[Top.fn] \in Seq(DOMAIN calls) /\ DOMAIN calls \subseteq Fns
      BY <1>2, <1>3, GraphShape
    <3>2. Top.at \in 1 .. Len(calls[Top.fn])
      BY <1>1, <1>3, <3>1
    <3> QED  BY <3>1, <3>2 DEF Callee
  <2>2. PICK t : t = [fn |-> Callee, at |-> 1]
    OBVIOUS
  <2>3. t \in Scan /\ t.fn = Callee /\ scans' = Append(Advanced, t)
    BY <1>6, <2>1, <2>2 DEF Scan
  <2>4. /\ scans' \in Seq(Scan) /\ Len(scans') = n + 1
        /\ \A k \in 1 .. n : scans'[k].fn = scans[k].fn
        /\ scans'[n + 1].fn = Callee
    BY <1>3, <1>4, <2>3
  <2>5. ScansOK'
    <3> SUFFICES ASSUME NEW k \in 1 .. (n + 1)
                 PROVE  scans'[k].fn \in DOMAIN calls /\ (k # 1 => scans'[k].fn # 0)
      BY <1>1, <1>3, <2>4 DEF ScansOK
    <3>1. CASE k \in 1 .. n
      <4>1. k # 1 => k \in 2 .. n
        BY <1>3, <3>1
      <4> QED  BY <1>2, <2>4, <3>1, <4>1 DEF ScansOK
    <3>2. CASE k = n + 1
      BY <1>6, <2>1, <2>4, <3>2
    <3> QED  BY <1>3, <3>1, <3>2
  <2>6. PlanTypeOK'
    BY <1>1, <1>2, <2>4 DEF PlanTypeOK
  <2>7. RegOK' /\ Behind' /\ Opened' = Opened
    BY <1>1 DEF PlanInv, RegOK, Behind, Opened
  <2> QED  BY <1>1, <1>2, <2>5, <2>6, <2>7 DEF PlanInv
<1> QED  BY <1>1, <1>5, <1>6

LEMMA RegisterStep ==
    ASSUME PlanInv, helpers_plan_scan
    PROVE  PlanInv'
<1>1. /\ stage = "plan" /\ scans # <<>> /\ scans' = Front(scans)
      /\ UNCHANGED <<calls, emitted, slot, bld, lostSeg>>
  BY DEF helpers_plan_scan
<1>2. PlanTypeOK /\ calls \in CallGraphs /\ ScansOK /\ RegOK /\ emitted = {}
  BY <1>1 DEF PlanInv
<1>3. /\ Len(scans) \in Nat \ {0} /\ Top \in Scan /\ Top.fn \in DOMAIN calls
      /\ Len(scans) # 1 => Top.fn # 0
      /\ scans \in Seq(Scan) /\ Top.fn \in Fns
  BY <1>1, <1>2, TopScan DEF Scan
<1>4. /\ scans' \in Seq(Scan) /\ Len(scans') = Len(scans) - 1
      /\ \A k \in 1 .. Len(scans') : scans'[k] = scans[k]
  <2>1. scans' = SubSeq(scans, 1, Len(scans) - 1) /\ Len(scans) - 1 \in 0 .. Len(scans)
    BY <1>1, <1>3 DEF Front
  <2>2. ASSUME NEW s \in Seq(Scan), NEW n \in 0 .. Len(s)
        PROVE  /\ SubSeq(s, 1, n) \in Seq(Scan) /\ Len(SubSeq(s, 1, n)) = n
               /\ \A k \in 1 .. n : SubSeq(s, 1, n)[k] = s[k]
    OBVIOUS
  <2> QED  BY <1>3, <2>1, <2>2
<1>5. ScansOK'
  <2>1. \A k \in 1 .. Len(scans') : k \in 1 .. Len(scans) /\ (k # 1 => k \in 2 .. Len(scans))
    BY <1>3, <1>4
  <2>2. \A k \in 2 .. Len(scans') : k \in 1 .. Len(scans') /\ k # 1
    BY <1>3, <1>4
  <2> QED  BY <1>1, <1>2, <1>4, <2>1, <2>2 DEF ScansOK
<1>6. /\ stage' \in {"plan", "helpers"}
      /\ \/ reg' = reg
         \/ \E ok \in BOOLEAN : /\ reg' = Append(reg, [fn |-> Top.fn, id |-> ok])
                                /\ ~helpers_find(Top.fn) /\ Top.fn # 0
  BY <1>1, <1>3 DEF helpers_plan_scan, helper_value_type_ok, helpers_register
<1>7. RegOK' /\ reg' \in Seq(Entry)
  <2>1. CASE reg' = reg
    BY <1>1, <1>2, <2>1 DEF RegOK, PlanTypeOK
  <2>2. ASSUME NEW ok \in BOOLEAN, reg' = Append(reg, [fn |-> Top.fn, id |-> ok]),
               ~helpers_find(Top.fn), Top.fn # 0
        PROVE  RegOK' /\ reg' \in Seq(Entry)
    <3>1. PICK r : r = [fn |-> Top.fn, id |-> ok]
      OBVIOUS
    <3>2. r \in Entry /\ r.fn = Top.fn /\ reg' = Append(reg, r)
      BY <1>3, <2>2, <3>1 DEF Entry
    <3>3. reg \in Seq(Entry) /\ Len(reg) \in Nat
      BY <1>2 DEF PlanTypeOK
    <3>4. /\ reg' \in Seq(Entry) /\ Len(reg') = Len(reg) + 1
          /\ \A i \in 1 .. Len(reg) : reg'[i] = reg[i]
          /\ reg'[Len(reg) + 1] = r
      BY <3>2, <3>3
    <3>5. \A i \in 1 .. Len(reg) : reg[i].fn # Top.fn
      BY <2>2, <3>3 DEF helpers_find
    <3>6. \A i \in 1 .. Len(reg') : reg'[i].fn \in DOMAIN calls' /\ reg'[i].fn # 0
      <4> SUFFICES ASSUME NEW i \in 1 .. Len(reg')
                   PROVE  reg'[i].fn \in DOMAIN calls /\ reg'[i].fn # 0
        BY <1>1
      <4>1. CASE i \in 1 .. Len(reg)
        BY <1>2, <3>4, <4>1 DEF RegOK
      <4>2. CASE i = Len(reg) + 1
        BY <1>3, <2>2, <3>2, <3>4, <4>2
      <4> QED  BY <3>3, <3>4, <4>1, <4>2
    <3>7. \A i, j \in 1 .. Len(reg') : reg'[i].fn = reg'[j].fn => i = j
      <4> SUFFICES ASSUME NEW i \in 1 .. Len(reg'), NEW j \in 1 .. Len(reg'),
                          reg'[i].fn = reg'[j].fn
                   PROVE  i = j
        OBVIOUS
      <4>1. CASE i \in 1 .. Len(reg) /\ j \in 1 .. Len(reg)
        BY <1>2, <3>4, <4>1 DEF RegOK
      <4>2. CASE i \in 1 .. Len(reg) /\ j = Len(reg) + 1
        BY <3>2, <3>4, <3>5, <4>2
      <4>3. CASE i = Len(reg) + 1 /\ j \in 1 .. Len(reg)
        BY <3>2, <3>4, <3>5, <4>3
      <4> QED  BY <3>3, <3>4, <4>1, <4>2, <4>3
    <3> QED  BY <3>4, <3>6, <3>7 DEF RegOK
  <2> QED  BY <1>6, <2>1, <2>2
<1>8. PlanTypeOK'
  BY <1>1, <1>2, <1>4, <1>6, <1>7 DEF PlanTypeOK
<1>9. Behind' /\ Opened' = Opened
  BY <1>1, <1>2, <1>6 DEF Behind, Opened
<1> QED  BY <1>1, <1>2, <1>5, <1>6, <1>7, <1>8, <1>9 DEF PlanInv

LEMMA HelperStep ==
    ASSUME PlanInv, translate_one_helper
    PROVE  PlanInv'
<1> DEFINE f == reg[slot].fn
<1>1. /\ stage = "helpers" /\ slot <= Len(reg) /\ slot' = slot + 1
      /\ UNCHANGED <<stage, calls, scans, visiting, reg>>
  BY DEF translate_one_helper
<1>2. PICK kept \in EmittedCalls(f, emitted), nvars \in 0 .. 1, ok \in BOOLEAN, out \in MarkLost :
        /\ bld' = IF ok THEN Function(f, kept, nvars, out)
                  ELSE lagfx_spv_builder_funcs_rewind(Function(f, kept, nvars, out),
                                                      lagfx_spv_builder_funcs_snapshot(bld))
        /\ emitted' = IF ok THEN emitted \cup {f} ELSE emitted
        /\ lostSeg' = (lostSeg \/ out)
  BY DEF translate_one_helper
<1>3. PlanTypeOK /\ calls \in CallGraphs /\ ScansOK /\ RegOK /\ Behind
  BY <1>1 DEF PlanInv
<1>4. slot \in 1 .. Len(reg) /\ slot \in Nat \ {0} /\ Len(reg) \in Nat
  BY <1>1, <1>3 DEF PlanTypeOK
<1>5. f \in DOMAIN calls /\ f # 0 /\ f \in Fns /\ calls[f] \in Seq(Fns)
  BY <1>3, <1>4, GraphShape DEF RegOK
<1>6. f \notin emitted
  <2> SUFFICES ASSUME f \in emitted PROVE FALSE
    OBVIOUS
  <2>1. PICK i \in 1 .. Len(reg) : i < slot /\ reg[i].fn = f
    BY <1>3 DEF Behind
  <2>2. i = slot
    BY <1>3, <1>4, <2>1 DEF RegOK
  <2> QED  BY <1>4, <2>1, <2>2
<1> HIDE DEF f
<1>7. stage # "none" /\ stage # "finished"
  BY <1>1
<1>8. /\ Function(f, kept, nvars, out) \in Builder
      /\ WordsOK(Function(f, kept, nvars, out).words, emitted \cup {f})
      /\ (lostSeg \/ out) \in BOOLEAN
      /\ (lostSeg \/ out) = FALSE => SegsOK(Function(f, kept, nvars, out))
  BY <1>2, <1>5, <1>6, <1>7, FunctionStep
<1>9. lostSeg' \in BOOLEAN /\ (lostSeg' = FALSE => lostSeg = FALSE)
  BY <1>2, <1>3, <1>8 DEF PlanTypeOK
<1>10. bld' \in Builder /\ WordsOK(bld'.words, emitted') /\ (lostSeg' = FALSE => SegsOK(bld'))
  <2>1. CASE ok = TRUE
    BY <1>2, <1>8, <2>1
  <2>2. CASE ok = FALSE
    <3>1. out \in BOOLEAN /\ bld \in Builder
      BY <1>2, <1>3 DEF MarkLost, PlanTypeOK
    <3>2. bld' = bld
      BY <1>2, <1>5, <2>2, <3>1, RewindRestores
    <3>3. emitted' = emitted
      BY <1>2, <2>2
    <3>4. WordsOK(bld.words, emitted) /\ (lostSeg = FALSE => SegsOK(bld))
      BY <1>1 DEF PlanInv, Opened
    <3> QED  BY <1>9, <3>1, <3>2, <3>3, <3>4
  <2> QED  BY <2>1, <2>2
<1>11. emitted' \in SUBSET Fns /\ emitted' \subseteq emitted \cup {f}
  BY <1>2, <1>3, <1>5 DEF PlanTypeOK
<1>12. Behind'
  <2> SUFFICES ASSUME NEW x \in emitted \cup {f}
               PROVE  \E i \in 1 .. Len(reg) : i < slot + 1 /\ reg[i].fn = x
    BY <1>1, <1>11 DEF Behind
  <2>1. CASE x \in emitted
    <3>1. PICK i \in 1 .. Len(reg) : i < slot /\ reg[i].fn = x
      BY <1>3, <2>1 DEF Behind
    <3> QED  BY <1>4, <3>1
  <2>2. CASE x = f
    BY <1>4, <2>2 DEF f
  <2> QED  BY <2>1, <2>2
<1>13. slot' \in Nat \ {0}
  BY <1>1, <1>4
<1>14. PlanTypeOK'
  BY <1>1, <1>3, <1>9, <1>10, <1>11, <1>13 DEF PlanTypeOK
<1>15. RegOK' /\ ScansOK' /\ Opened' = emitted'
  BY <1>1, <1>3 DEF RegOK, ScansOK, Opened
<1> QED  BY <1>1, <1>3, <1>10, <1>12, <1>14, <1>15 DEF PlanInv

LEMMA EntryStep ==
    ASSUME PlanInv, EmitEntry
    PROVE  PlanInv'
<1>1. stage = "entry" /\ stage' = "finished" /\ UNCHANGED <<calls, scans, visiting, reg, emitted, slot>>
  BY DEF EmitEntry
<1>2. PICK kept \in EmittedCalls(0, emitted), nvars \in 0 .. 1, out \in MarkLost :
        bld' = Function(0, kept, nvars, out) /\ lostSeg' = (lostSeg \/ out)
  BY DEF EmitEntry
<1>3. PlanTypeOK /\ calls \in CallGraphs /\ ScansOK /\ RegOK /\ Behind
  BY <1>1 DEF PlanInv
<1>4. 0 \in DOMAIN calls
  BY <1>3, GraphShape
<1>5. 0 \notin emitted
  BY <1>3 DEF RegOK, Behind
<1>6. stage # "none" /\ stage # "finished"
  BY <1>1
<1>7. /\ Function(0, kept, nvars, out) \in Builder
      /\ WordsOK(Function(0, kept, nvars, out).words, emitted \cup {0})
      /\ (lostSeg \/ out) \in BOOLEAN
      /\ (lostSeg \/ out) = FALSE => SegsOK(Function(0, kept, nvars, out))
  BY <1>2, <1>4, <1>5, <1>6, FunctionStep
<1>8. /\ bld' \in Builder /\ WordsOK(bld'.words, emitted \cup {0}) /\ lostSeg' \in BOOLEAN
      /\ lostSeg' = FALSE => SegsOK(bld')
  BY <1>2, <1>7
<1>9. PlanTypeOK'
  BY <1>1, <1>3, <1>8 DEF PlanTypeOK
<1>10. RegOK' /\ ScansOK' /\ Behind' /\ Opened' = emitted \cup {0}
  BY <1>1, <1>3 DEF RegOK, ScansOK, Behind, Opened
<1> QED  BY <1>1, <1>3, <1>8, <1>9, <1>10 DEF PlanInv

LEMMA StartStep ==
    ASSUME PlanInv, NEW g \in CallGraphs, StartPlan(g)
    PROVE  PlanInv'
<1>1. /\ stage = "none" /\ stage' = "plan" /\ calls' = g /\ scans' = <<[fn |-> 0, at |-> 1]>>
      /\ UNCHANGED <<visiting, reg, emitted, slot, bld, lostSeg>>
  BY DEF StartPlan
<1>2. PlanTypeOK /\ reg = <<>> /\ emitted = {}
  BY <1>1 DEF PlanInv
<1>3. 0 \in DOMAIN g /\ 0 \in Fns
  BY PlanAssumption DEF Fns
<1>4. scans' \in Seq(Scan) /\ ScansOK'
  <2>1. PICK t : t = [fn |-> 0, at |-> 1]
    OBVIOUS
  <2>2. t \in Scan /\ t.fn = 0 /\ scans' = <<t>>
    BY <1>1, <1>3, <2>1 DEF Scan
  <2>3. scans' \in Seq(Scan) /\ Len(scans') = 1 /\ scans'[1] = t
    BY <2>2
  <2> QED  BY <1>1, <1>3, <2>2, <2>3 DEF ScansOK
<1>5. PlanTypeOK'
  BY <1>1, <1>2, <1>4 DEF PlanTypeOK
<1>6. RegOK' /\ Behind' /\ Opened' = Opened
  BY <1>1, <1>2 DEF RegOK, Behind, Opened
<1> QED  BY <1>1, <1>2, <1>4, <1>5, <1>6 DEF PlanInv

LEMMA FreeStep ==
    ASSUME FreePlan
    PROVE  PlanInv'
<1>1. /\ stage' = "none" /\ calls' = <<>> /\ scans' = <<>> /\ reg' = <<>>
      /\ emitted' = {} /\ slot' = 1 /\ bld' = lagfx_spv_builder_create /\ lostSeg' = FALSE
  BY DEF FreePlan
<1>2. bld' \in Builder /\ WordsOK(bld'.words, {}) /\ SegsOK(bld')
  BY <1>1, EmptyBuilder
<1>3. PlanTypeOK'
  <2>1. scans' \in Seq(Scan) /\ reg' \in Seq(Entry)
    BY <1>1
  <2>2. emitted' \in SUBSET Fns /\ slot' \in Nat \ {0}
    BY <1>1
  <2>3. lostSeg' \in BOOLEAN
    BY <1>1, Zenon
  <2> QED  BY <1>1, <1>2, <2>1, <2>2, <2>3, Zenon DEF PlanTypeOK
<1>4. RegOK' /\ Behind' /\ Opened' = {}
  BY <1>1 DEF RegOK, Behind, Opened
<1> QED  BY <1>1, <1>2, <1>3, <1>4 DEF PlanInv

LEMMA PlanStepKeeps == PlanInv /\ [PlanNext]_planVars => PlanInv'
<1> SUFFICES ASSUME PlanInv, [PlanNext]_planVars PROVE PlanInv'
  OBVIOUS
<1>1. CASE PassOver \/ helpers_plan_fn
  BY <1>1, ScanStep
<1>2. CASE helpers_plan_scan
  BY <1>2, RegisterStep
<1>3. CASE SkipHelper
  <2>1. slot' = slot + 1 /\ UNCHANGED <<stage, calls, scans, visiting, reg, emitted, bld, lostSeg>>
        /\ stage = "helpers"
    BY <1>3 DEF SkipHelper
  <2>2. PlanTypeOK' /\ slot \in Nat
    BY <2>1 DEF PlanInv, PlanTypeOK
  <2>3. ScansOK' /\ RegOK' /\ Opened' = Opened
    BY <2>1 DEF PlanInv, ScansOK, RegOK, Opened
  <2>4. Behind'
    <3> SUFFICES ASSUME NEW x \in emitted
                 PROVE  \E i \in 1 .. Len(reg) : i < slot + 1 /\ reg[i].fn = x
      BY <2>1 DEF Behind
    <3>1. PICK i \in 1 .. Len(reg) : i < slot /\ reg[i].fn = x
      BY DEF PlanInv, Behind
    <3> QED  BY <2>2, <3>1
  <2> QED  BY <2>1, <2>2, <2>3, <2>4 DEF PlanInv
<1>4. CASE translate_one_helper
  BY <1>4, HelperStep
<1>5. CASE HelpersDone
  <2>1. /\ stage = "helpers" /\ stage' = "entry"
        /\ UNCHANGED <<calls, scans, visiting, reg, emitted, slot, bld, lostSeg>>
    BY <1>5 DEF HelpersDone
  <2>2. PlanTypeOK' /\ ScansOK' /\ RegOK' /\ Behind' /\ Opened' = Opened
    BY <2>1 DEF PlanInv, PlanTypeOK, ScansOK, RegOK, Behind, Opened
  <2> QED  BY <2>1, <2>2 DEF PlanInv
<1>6. CASE EmitEntry
  BY <1>6, EntryStep
<1>7. CASE FreePlan
  BY <1>7, FreeStep
<1>8. CASE \E g \in CallGraphs : StartPlan(g)
  BY <1>8, StartStep
<1>9. CASE UNCHANGED planVars
  <2>1. PlanTypeOK' /\ ScansOK' = ScansOK /\ RegOK' /\ Behind' /\ Opened' = Opened
    BY <1>9 DEF planVars, PlanInv, PlanTypeOK, ScansOK, RegOK, Behind, Opened
  <2> QED  BY <1>9, <2>1 DEF planVars, PlanInv
<1> QED  BY <1>1, <1>2, <1>3, <1>4, <1>5, <1>6, <1>7, <1>8, <1>9 DEF PlanNext, PlanStep

LEMMA PlanInvariant == PlanSpec => []PlanInv
BY PlanInitially, PlanStepKeeps, PTL DEF PlanSpec

\* Whatever the functions call, and whatever was passed over, failed or ran out of room, a
\* call that lagfx_air2spv_translate_function puts into a module is to another function that
\* stands complete before it, and no function is there twice.
THEOREM CallsDefinedAlways == PlanSpec => []CallsDefined
<1>1. PlanInv => CallsDefined
  <2> SUFFICES ASSUME PlanInv PROVE CallsDefined
    OBVIOUS
  <2>1. WordsOK(bld.words, Opened) /\ bld.words \in Seq(Word) /\ emitted \subseteq Opened
    BY DEF PlanInv, PlanTypeOK, Builder, Opened
  <2>2. DOMAIN bld.words = 1 .. Len(bld.words)
    BY <2>1
  <2>3. \A p, q \in DOMAIN bld.words :
           bld.words[p].op = "function" /\ bld.words[q] = bld.words[p] => p = q
    BY <2>1, <2>2 DEF WordsOK
  <2>4. \A f \in emitted : \E p \in DOMAIN bld.words :
           bld.words[p].op = "function" /\ bld.words[p].fn = f
    BY <2>1, <2>2 DEF WordsOK
  <2>5. \A p \in DOMAIN bld.words : bld.words[p].op = "call" =>
          \E q \in 1 .. (p - 1) : /\ bld.words[q].op = "function"
                                  /\ bld.words[q].fn = bld.words[p].fn
                                  /\ bld.words[q].fn # bld.words[p].of
    BY <2>1, <2>2 DEF WordsOK
  <2> QED  BY <2>3, <2>4, <2>5 DEF CallsDefined
<1> QED  BY <1>1, PlanInvariant, PTL

\* Unless a mark was lost for want of memory, every local variable of a finished module is
\* spliced once, into the function that made it, however many functions before it failed and
\* were rewound.
THEOREM LocalsAtHomeAlways == PlanSpec => []LocalsAtHome
<1>1. PlanInv => LocalsAtHome
  <2> SUFFICES ASSUME PlanInv, stage = "finished", ~lostSeg, NEW i \in DOMAIN bld.locals
               PROVE  \E g \in DOMAIN bld.segs :
                        /\ bld.words[bld.segs[g].mark].op = "function"
                        /\ bld.words[bld.segs[g].mark].fn = bld.locals[i]
                        /\ \A h \in DOMAIN bld.segs :
                              i \in lagfx_spv_builder_finish(bld, h) <=> h = g
    BY DEF LocalsAtHome
  <2>1. bld \in Builder /\ lostSeg \in BOOLEAN
    BY DEF PlanInv, PlanTypeOK
  <2>2. lostSeg = FALSE
    BY <2>1, Zenon
  <2>3. SegsOK(bld)
    BY <2>2 DEF PlanInv
  <2>4. /\ DOMAIN bld.locals = 1 .. Len(bld.locals) /\ DOMAIN bld.segs = 1 .. Len(bld.segs)
    BY <2>1 DEF Builder
  <2>5. PICK g \in 1 .. Len(bld.segs) : i \in lagfx_spv_builder_finish(bld, g)
    BY <2>3, <2>4 DEF SegsOK
  <2>6. /\ bld.words[bld.segs[g].mark].op = "function"
        /\ bld.words[bld.segs[g].mark].fn = bld.locals[i]
    BY <2>3, <2>5 DEF SegsOK
  <2>7. \A h \in DOMAIN bld.segs : i \in lagfx_spv_builder_finish(bld, h) <=> h = g
    BY <2>1, <2>3, <2>4, <2>5, OneHome
  <2> QED  BY <2>4, <2>6, <2>7
<1> QED  BY <1>1, PlanInvariant, PTL

-----------------------------------------------------------------------------
(***************************************************************************)
(* The reader.                                                             *)
(***************************************************************************)

\* The capacity of an arena does not matter here.
ArenaOK(a) == a \in [used : Nat \ {0}, cap : {a.cap}, gen : Nat]

Table == [off : Nat, n : Nat, gen : Nat, inner : SUBSET Nat, strs : Nat]

FnRec == [at : Nat, proto : BOOLEAN, start : Nat, end : Nat, name : {"raw", "none", "arena"}]

Module == [types : Table, constants : Table, groups : Table, symtab : Table,
           metadata : Table, strings : Nat, fns : Seq(FnRec), foff : Nat, fgen : Nat,
           strtab : Nat, bits : Nat]

BodyOK(x) ==
    /\ x \in [fn : Nat, end : Nat, arena : {x.arena}, ioff : Nat, igen : Nat,
              ops : SUBSET Nat, n : Nat, lcoff : Nat, lcn : Nat]
    /\ ArenaOK(x.arena)

Abbrevs == [here : Nat, mod : Nat, info : [Targets -> Nat],
            target : Targets \cup {"none", "other"},
            phere : Nat, pmod : Nat, pinfo : [Targets -> Nat], lost : BOOLEAN]

Walks == {"inner", "nested"}

\* Where the reader is: a block is under way in the walks and in a body's constants only.
PhaseInv ==
    /\ pc \in {"closed", "root", "module", "inner", "nested", "names", "open", "body",
               "local", "decoded"}
    /\ pos \in Nat /\ mend \in Nat
    /\ blk \in [id : Walked \cup {"none", "STRTAB", "local"}, end : Nat]
    /\ pc \notin {"inner", "nested", "local"} => blk.id = "none"
    /\ pc \in Walks => blk.id \in Walked \cup {"STRTAB"}
    /\ pc = "local" => blk.id = "local"

AbbrevInv == ab \in Abbrevs /\ AbbrevsAgree

\* A walker's pointer to its table is current, that of VALUE_SYMTAB excepted, and so is
\* a body's.
PointerInv ==
    /\ lt \in Table /\ m \in Module /\ ArenaOK(arena) /\ BodyOK(body)
    /\ PointersCurrent
    /\ m.fns # <<>> => m.foff # 0
    /\ pc \in Walks /\ WalkerOf(blk.id).table /\ blk.id # "VALUE_SYMTAB" => lt.gen = arena.gen
    /\ pc \in {"body", "local"} => body.igen = body.arena.gen

InModuleWalk == pc = "module" \/ (pc \in Walks /\ blk.id # "STRTAB")

\* The next function to be bound: as many before it have a body as blocks were met.
CursorOK ==
    /\ fn \in 1 .. (Len(m.fns) + 1)
    /\ met = <<>> => fn = 1
    /\ fn <= Len(m.fns) => Rank(m.fns, fn - 1) = Len(met)
    /\ fn > Len(m.fns) => Rank(m.fns, Len(m.fns)) <= Len(met)

BoundInv ==
    /\ met \in Seq(Nat)
    /\ BodiesBound
    /\ mend = 0 => m.fns = <<>> /\ met = <<>>
    /\ InModuleWalk => mend # 0 /\ CursorOK
    /\ pc = "names" => fn \in Nat \ {0}

ReaderInv == PhaseInv /\ AbbrevInv /\ PointerInv /\ BoundInv

-----------------------------------------------------------------------------
(* The operators. *)

LEMMA Reserve ==
    ASSUME NEW a, ArenaOK(a), NEW n \in Nat, NEW r, r = arena_reserve(a, n)
    PROVE  ArenaOK(r) /\ r.used = a.used + n
<1>1. CASE Grows(a, n)
  <2>1. PICK c : r = [used |-> a.used + n, cap |-> c, gen |-> a.gen + 1]
    BY <1>1 DEF arena_reserve
  <2> QED  BY <2>1 DEF ArenaOK
<1>2. CASE ~Grows(a, n)
  <2>1. r = [a EXCEPT !.used = a.used + n]
    BY <1>2 DEF arena_reserve
  <2> QED  BY <2>1 DEF ArenaOK
<1> QED  BY <1>1, <1>2

LEMMA InitialArena ==
    ASSUME NEW c PROVE ArenaOK(arena_init(c)) /\ arena_init(c).used = 1
BY DEF ArenaOK, arena_init

LEMMA EmptyTable == NoTable \in Table /\ NoTable.off = 0 /\ NoTable.n = 0
BY DEF NoTable, Table

LEMMA FreshTable ==
    ASSUME NEW o \in Nat, NEW g \in Nat
    PROVE  NewTable(o, g) \in Table /\ NewTable(o, g).gen = g
BY EmptyTable DEF NewTable, Table

LEMMA EmptyModule ==
    NoModule \in Module /\ NoModule.fns = <<>> /\ NoModule.foff = 0
BY EmptyTable DEF NoModule, Module

LEMMA EmptyBody == BodyOK(NoBody)
<1>1. ArenaOK(arena_init(BodyCap))
  BY InitialArena
<1> QED  BY <1>1 DEF NoBody, BodyOK

LEMMA TableRederived ==
    ASSUME NEW t \in Table, NEW g \in Nat
    PROVE  Rederived(t, g) \in Table /\ Current(Rederived(t, g), g)
BY DEF Rederived, Table, Current

\* Deriving the pointers makes every table current and touches nothing else.
LEMMA Derived ==
    ASSUME m \in Module, NEW g \in Nat, NEW d, d = derive_table_ptrs(m, g)
    PROVE  /\ d \in Module /\ d.fns = m.fns /\ d.foff = m.foff
           /\ d.strings = m.strings /\ d.metadata = m.metadata /\ d.strtab = m.strtab
           /\ Current(d.types, g) /\ Current(d.constants, g) /\ Current(d.groups, g)
           /\ m.foff # 0 => d.fgen = g
<1> DEFINE ty == Rederived(m.types, g)
           co == Rederived(m.constants, g)
           gr == Rederived(m.groups, g)
           fg == IF m.foff = 0 THEN m.fgen ELSE g
<1>1. d = [m EXCEPT !.types = ty, !.constants = co, !.groups = gr, !.fgen = fg]
  BY DEF derive_table_ptrs
<1>2. /\ m.types \in Table /\ m.constants \in Table /\ m.groups \in Table /\ m.fgen \in Nat
      /\ m.foff \in Nat
  BY DEF Module
<1>3. /\ ty \in Table /\ co \in Table /\ gr \in Table /\ fg \in Nat
      /\ Current(ty, g) /\ Current(co, g) /\ Current(gr, g)
  BY <1>2, TableRederived
<1> HIDE DEF ty, co, gr
<1>4. d \in Module
  BY <1>1, <1>3 DEF Module
<1>5. d.types = ty /\ d.constants = co /\ d.groups = gr /\ d.fgen = fg
  BY <1>1 DEF Module
<1>6. /\ d.fns = m.fns /\ d.foff = m.foff /\ d.strings = m.strings /\ d.metadata = m.metadata
      /\ d.strtab = m.strtab
  BY <1>1 DEF Module
<1> QED  BY <1>3, <1>4, <1>5, <1>6

LEMMA CommittedModule ==
    ASSUME m \in Module, lt \in Table, NEW c, c = Committed
    PROVE  c \in Module /\ c.fns = m.fns /\ c.foff = m.foff
<1>1. [lt EXCEPT !.gen = 0] \in Table /\ lt.strs \in Nat
  BY DEF Table
<1>2. PICK z \in Table : z = [lt EXCEPT !.gen = 0]
  BY <1>1
<1>3. CASE c = [m EXCEPT !.constants = lt]
  BY <1>3 DEF Module
<1>4. CASE c = [m EXCEPT !.types = lt]
  BY <1>4 DEF Module
<1>5. CASE c = [m EXCEPT !.groups = lt]
  BY <1>5 DEF Module
<1>6. CASE c = [m EXCEPT !.symtab = lt]
  BY <1>6 DEF Module
<1>7. CASE c = [m EXCEPT !.metadata = z, !.strings = lt.strs]
  BY <1>1, <1>7 DEF Module
<1>8. CASE c = m
  BY <1>8
<1> QED  BY <1>2, <1>3, <1>4, <1>5, <1>6, <1>7, <1>8 DEF Committed

LEMMA Ends ==
    ASSUME pos \in Nat
    PROVE  /\ \A e \in read_enter_subblock_payload : e \in Nat /\ pos < e
           /\ \A p \in lagfx_block_next_record : p \in Nat
           /\ \A e \in Nat, p \in Nat : lagfx_bs_seek(e, p) \in Nat
           /\ \A e \in Nat : lagfx_block_skip(e) \in Nat
BY ReaderAssumption
   DEF read_enter_subblock_payload, lagfx_block_next_record, lagfx_abbrev_decode_record,
       lagfx_bs_seek, lagfx_block_skip

LEMMA FreshAbbrevs ==
    ASSUME AbbrevsAgree, ab \in Abbrevs, NEW id, id # "BLOCKINFO",
           blk'.id # "BLOCKINFO", ab' = lagfx_block_enter(id, ab.info)
    PROVE  AbbrevInv'
<1>1. /\ ab'.here = lagfx_abbrev_table_copy(id, ab.info)
      /\ ab'.phere = lagfx_abbrev_table_copy(id, ab.pinfo)
      /\ ab'.mod = ab.mod /\ ab'.pmod = ab.pmod /\ ab'.info = ab.info /\ ab'.pinfo = ab.pinfo
      /\ ab'.lost = ab.lost
  BY DEF lagfx_block_enter, Abbrevs
<1>2. lagfx_abbrev_table_copy(id, ab.info) \in Nat /\ lagfx_abbrev_table_copy(id, ab.pinfo) \in Nat
  BY DEF lagfx_abbrev_table_copy, Abbrevs
<1>3. ab' \in Abbrevs
  BY <1>2 DEF lagfx_block_enter, Abbrevs
<1> QED  BY <1>1, <1>3 DEF AbbrevInv, AbbrevsAgree

LEMMA SameAbbrevs ==
    ASSUME AbbrevInv, ab' = ab, blk'.id = blk.id \/ blk.id # "BLOCKINFO"
    PROVE  AbbrevInv'
BY DEF AbbrevInv, AbbrevsAgree

\* Defining an abbreviation in a block other than BLOCKINFO.
LEMMA OwnAbbrev ==
    ASSUME AbbrevInv, blk.id # "BLOCKINFO", ab.here < AbbrevCap, blk'.id = blk.id,
           ab' = [ab EXCEPT !.here = lagfx_abbrev_table_define(@), !.phere = @ + 1]
    PROVE  AbbrevInv'
<1>1. ab \in Abbrevs /\ ab.here \in Nat /\ ab.phere \in Nat
  BY DEF AbbrevInv, Abbrevs
<1>2. /\ ab'.here = ab.here + 1 /\ ab'.phere = ab.phere + 1
      /\ ab'.mod = ab.mod /\ ab'.pmod = ab.pmod /\ ab'.info = ab.info /\ ab'.pinfo = ab.pinfo
      /\ ab'.lost = ab.lost
  BY <1>1 DEF lagfx_abbrev_table_define, Abbrevs
<1>3. ab' \in Abbrevs
  <2>1. lagfx_abbrev_table_define(ab.here) \in Nat /\ ab.phere + 1 \in Nat
    BY <1>1 DEF lagfx_abbrev_table_define
  <2> QED  BY <1>1, <2>1 DEF Abbrevs
<1> QED  BY <1>2, <1>3 DEF AbbrevInv, AbbrevsAgree

\* Defining one in BLOCKINFO: while the producer keeps to the cap, so does the target.
LEMMA BlockinfoAbbrev ==
    ASSUME AbbrevInv, blk.id = "BLOCKINFO", ab.here < AbbrevCap, blk' = blk,
           ab' = DefineAbbrev
    PROVE  AbbrevInv'
<1> DEFINE h == lagfx_abbrev_table_define(ab.here)
           info == InstallAbbrev(h, ab.info)
           pinfo == MeantAbbrev(ab.pinfo)
<1>1. /\ ab \in Abbrevs /\ ab.here \in Nat /\ ab.info \in [Targets -> Nat]
      /\ ab.pinfo \in [Targets -> Nat] /\ AbbrevsAgree
  BY DEF AbbrevInv, Abbrevs
<1>2. h = ab.here + 1
  BY DEF lagfx_abbrev_table_define
<1>3. ab' = [ab EXCEPT !.here = h, !.info = info, !.pinfo = pinfo]
  BY DEF DefineAbbrev
<1>4. info \in [Targets -> Nat] /\ pinfo \in [Targets -> Nat]
  BY <1>1 DEF InstallAbbrev, MeantAbbrev
<1>5. \A t \in Targets : ab.pinfo[t] <= pinfo[t]
  BY <1>1 DEF MeantAbbrev
<1>6. ab.info = ab.pinfo /\ (\A t \in Targets : pinfo[t] <= AbbrevCap) => info = pinfo
  <2> SUFFICES ASSUME ab.info = ab.pinfo, \A t \in Targets : pinfo[t] <= AbbrevCap
               PROVE  info = pinfo
    OBVIOUS
  <2>1. CASE ab.target \notin Targets
    BY <2>1 DEF InstallAbbrev, MeantAbbrev
  <2>2. CASE ab.target \in Targets
    <3>1. pinfo[ab.target] = ab.pinfo[ab.target] + 1 /\ ab.pinfo[ab.target] \in Nat
      BY <1>1, <2>2 DEF MeantAbbrev
    <3>2. ab.info[ab.target] < AbbrevCap
      BY <2>2, <3>1, ReaderAssumption
    <3> QED  BY <1>1, <1>2, <2>2, <3>2 DEF InstallAbbrev, MeantAbbrev
  <2> QED  BY <2>1, <2>2
<1>7. h \in Nat
  BY <1>1, <1>2
<1> HIDE DEF h, info, pinfo
<1>8. /\ ab' \in Abbrevs
      /\ ab'.mod = ab.mod /\ ab'.pmod = ab.pmod /\ ab'.info = info /\ ab'.pinfo = pinfo
      /\ ab'.lost = ab.lost
  BY <1>1, <1>3, <1>4, <1>7 DEF Abbrevs
<1>9. AbbrevsAgree'
  <2> SUFFICES ASSUME ~ab.lost, \A t \in Targets : pinfo[t] <= AbbrevCap
               PROVE  ab'.mod = ab'.pmod /\ ab'.info = ab'.pinfo
    BY <1>8 DEF AbbrevsAgree
  <2>1. \A t \in Targets : ab.pinfo[t] <= AbbrevCap
    <3> SUFFICES ASSUME NEW t \in Targets PROVE ab.pinfo[t] <= AbbrevCap
      OBVIOUS
    <3>1. ab.pinfo[t] \in Nat /\ pinfo[t] \in Nat /\ ab.pinfo[t] <= pinfo[t] /\ pinfo[t] <= AbbrevCap
      BY <1>1, <1>4, <1>5
    <3> QED  BY <3>1, ReaderAssumption
  <2>2. ab.mod = ab.pmod /\ ab.info = ab.pinfo
    BY <1>1, <2>1 DEF AbbrevsAgree
  <2> QED  BY <1>6, <1>8, <2>2
<1> QED  BY <1>8, <1>9 DEF AbbrevInv

\* Leaving a block, or giving one up.
LEMMA LeavingAbbrevs ==
    ASSUME AbbrevInv, NEW l \in BOOLEAN,
           ab' = [ab EXCEPT !.lost = @ \/ l, !.here = 0, !.phere = 0, !.target = "none"]
    PROVE  AbbrevInv'
<1>1. ab \in Abbrevs /\ ab.lost \in BOOLEAN /\ AbbrevsAgree
  BY DEF AbbrevInv, Abbrevs
<1>2. /\ ab'.here = 0 /\ ab'.phere = 0 /\ ab'.lost = (ab.lost \/ l)
      /\ ab'.mod = ab.mod /\ ab'.pmod = ab.pmod /\ ab'.info = ab.info /\ ab'.pinfo = ab.pinfo
  BY <1>1 DEF Abbrevs
<1>3. (ab.lost \/ l) \in BOOLEAN
  BY <1>1
<1>4. ab' \in Abbrevs
  BY <1>1, <1>3 DEF Abbrevs
<1> QED  BY <1>1, <1>2, <1>4 DEF AbbrevInv, AbbrevsAgree

\* The other changes of the tables.
LEMMA AbbrevChange ==
    ASSUME AbbrevInv, ab' \in Abbrevs, ab'.info = ab.info, ab'.pinfo = ab.pinfo,
           ab'.lost = FALSE => ab.lost = FALSE,
           ab.mod = ab.pmod => ab'.mod = ab'.pmod,
           blk'.id # "BLOCKINFO" => \/ ab'.here = ab'.phere
                                    \/ blk.id # "BLOCKINFO" /\ (ab.here = ab.phere => ab'.here = ab'.phere)
    PROVE  AbbrevInv'
<1>1. ab.lost \in BOOLEAN /\ ab'.lost \in BOOLEAN
  BY DEF AbbrevInv, Abbrevs
<1>2. ~ab'.lost => ~ab.lost
  BY <1>1
<1> QED  BY <1>2 DEF AbbrevInv, AbbrevsAgree

LEMMA FreeReader ==
    ASSUME lagfx_air_module_free
    PROVE  ReaderInv'
<1>1. /\ pc' = "closed" /\ pos' = 0 /\ mend' = 0 /\ blk' = NoBlock /\ lt' = NoTable
      /\ m' = NoModule /\ arena' = arena_init(ArenaCap) /\ fn' = 0 /\ body' = NoBody
      /\ ab' = NoAbbrevs /\ met' = <<>> /\ stale' = {}
  BY DEF lagfx_air_module_free
<1>2. PhaseInv'
  BY <1>1 DEF PhaseInv, NoBlock, Walks
<1>3. AbbrevInv'
  <2>1. NoAbbrevs \in Abbrevs /\ NoAbbrevs.here = NoAbbrevs.phere
        /\ NoAbbrevs.mod = NoAbbrevs.pmod /\ NoAbbrevs.info = NoAbbrevs.pinfo
    BY DEF NoAbbrevs, Abbrevs, lagfx_blockinfo_init
  <2> QED  BY <1>1, <2>1 DEF AbbrevInv, AbbrevsAgree
<1>4. PointerInv'
  BY <1>1, EmptyTable, EmptyModule, EmptyBody, InitialArena
     DEF PointerInv, PointersCurrent, Walks
<1>5. BoundInv'
  BY <1>1, EmptyModule DEF BoundInv, BodiesBound, InModuleWalk, Walks
<1> QED  BY <1>2, <1>3, <1>4, <1>5 DEF ReaderInv

LEMMA ReaderInitially == ReaderInit => ReaderInv
<1> SUFFICES ASSUME ReaderInit PROVE ReaderInv
  OBVIOUS
<1>1. /\ pc = "closed" /\ pos = 0 /\ mend = 0 /\ blk = NoBlock /\ lt = NoTable
      /\ m = NoModule /\ arena = arena_init(ArenaCap) /\ fn = 0 /\ body = NoBody
      /\ ab = NoAbbrevs /\ met = <<>> /\ stale = {}
  BY DEF ReaderInit
<1>2. PhaseInv
  BY <1>1 DEF PhaseInv, NoBlock, Walks
<1>3. AbbrevInv
  <2>1. NoAbbrevs \in Abbrevs /\ NoAbbrevs.here = NoAbbrevs.phere
        /\ NoAbbrevs.mod = NoAbbrevs.pmod /\ NoAbbrevs.info = NoAbbrevs.pinfo
    BY DEF NoAbbrevs, Abbrevs, lagfx_blockinfo_init
  <2> QED  BY <1>1, <2>1 DEF AbbrevInv, AbbrevsAgree
<1>4. PointerInv
  BY <1>1, EmptyTable, EmptyModule, EmptyBody, InitialArena
     DEF PointerInv, PointersCurrent, Walks
<1>5. BoundInv
  BY <1>1, EmptyModule DEF BoundInv, BodiesBound, InModuleWalk, Walks
<1> QED  BY <1>2, <1>3, <1>4, <1>5 DEF ReaderInv

-----------------------------------------------------------------------------
(* Where the reader is. *)

LEMMA PhaseStep ==
    ASSUME PhaseInv, m \in Module, ReaderNext
    PROVE  PhaseInv' \/ lagfx_air_module_free
<1> SUFFICES ASSUME ~lagfx_air_module_free PROVE PhaseInv'
  OBVIOUS
<1>0. /\ \A e \in read_enter_subblock_payload : e \in Nat /\ pos < e
      /\ \A p \in lagfx_block_next_record : p \in Nat
      /\ \A e \in Nat, p \in Nat : lagfx_bs_seek(e, p) \in Nat
      /\ \A e \in Nat : lagfx_block_skip(e) \in Nat
      /\ pos \in Nat /\ pos + 1 \in Nat /\ mend \in Nat /\ blk.end \in Nat
  BY Ends DEF PhaseInv
<1>1. CASE lagfx_air_module_open \/ RootEnds
  BY <1>1 DEF lagfx_air_module_open, RootEnds, PhaseInv, Walks
<1>2. CASE RootModule
  BY <1>0, <1>2 DEF RootModule, PhaseInv, Walks
<1>3. CASE RootStrtab
  BY <1>0, <1>3 DEF RootStrtab, PhaseInv, Walks, Walked
<1>4. CASE RootOther
  <2>1. PICK e \in read_enter_subblock_payload : pos' = lagfx_bs_seek(e, pos + 1)
    BY <1>4 DEF RootOther
  <2>2. pos' \in Nat /\ pc = "root" /\ pc' \in {"root", "names"} /\ UNCHANGED <<mend, blk>>
    BY <1>0, <1>4, <2>1 DEF RootOther
  <2> QED  BY <2>2 DEF PhaseInv, Walks
<1>5. CASE ModuleEnds \/ ModuleStops
  <2>1. pos' \in Nat
    BY <1>0, <1>5 DEF ModuleEnds, ModuleStops
  <2>2. pc = "module" /\ pc' \in {"root", "names"} /\ UNCHANGED <<mend, blk>>
    BY <1>5 DEF ModuleEnds, ModuleStops, InModule
  <2> QED  BY <2>1, <2>2 DEF PhaseInv, Walks
<1>6. CASE ModuleDefineAbbrev \/ ModuleString \/ ModuleFunction
  BY <1>0, <1>6 DEF ModuleDefineAbbrev, ModuleString, ModuleFunction, OutOfMemory, PhaseInv, Walks
<1>7. CASE ModuleSkips
  BY <1>0, <1>7 DEF ModuleSkips, PhaseInv, Walks
<1>8. CASE ModuleFunctionBlock
  BY <1>0, <1>8 DEF ModuleFunctionBlock, PhaseInv, Walks
<1>9. CASE EnterBlock
  <2>1. PICK id \in Walked, e \in read_enter_subblock_payload : blk' = [id |-> id, end |-> e]
    BY <1>9 DEF EnterBlock, OutOfMemory
  <2>2. pc' = "inner" /\ pos' = pos + 1 /\ mend' = mend
    BY <1>9 DEF EnterBlock, OutOfMemory
  <2>3. blk'.id = id /\ blk' \in [id : Walked \cup {"none", "STRTAB", "local"}, end : Nat]
    BY <1>0, <2>1
  <2> QED  BY <1>0, <2>2, <2>3 DEF PhaseInv, Walks
<1>10. CASE BlockEnds \/ TableFull
  <2>1. PICK p \in Nat, broken \in BOOLEAN : pc = "inner" /\ LeaveBlock(p, broken)
    BY <1>0, <1>10 DEF BlockEnds, TableFull, InBlock
  <2> QED  BY <1>0, <2>1 DEF LeaveBlock, NoBlock, PhaseInv, Walks
<1>11. CASE NestedBlock \/ SkipNested
  BY <1>0, <1>11 DEF NestedBlock, SkipNested, InBlock, PhaseInv, Walks
<1>12. CASE BlockDefinesAbbrev \/ BlockinfoRecord \/ DroppedRecord \/ EmptyRecord
            \/ PlainRecord \/ SymtabRecord
  BY <1>0, <1>12 DEF BlockDefinesAbbrev, BlockinfoRecord, DroppedRecord, EmptyRecord,
     PlainRecord, SymtabRecord, PhaseInv, Walks
<1>13. CASE StrtabRecord \/ InternedRecord \/ NameRecord \/ StringsRecord
  BY <1>0, <1>13 DEF StrtabRecord, InternedRecord, NameRecord, StringsRecord, OutOfMemory,
     PhaseInv, Walks
<1>14. CASE ResolveName \/ Materialise
  BY <1>0, <1>14 DEF ResolveName, Materialise, OutOfMemory, PhaseInv, Walks
<1>15. CASE ClearNames
  BY <1>0, <1>15 DEF ClearNames, PhaseInv, Walks
<1>16. CASE lagfx_air_function_body_open
  <2>1. PICK i \in DOMAIN m.fns : pos' = m.fns[i].start + 1
    BY <1>16 DEF lagfx_air_function_body_open
  <2>2. m.fns[i].start \in Nat
    <3>1. m.fns \in Seq(FnRec)
      BY DEF Module
    <3>2. m.fns[i] \in FnRec
      BY <3>1
    <3> QED  BY <3>2 DEF FnRec
  <2>3. pos' \in Nat
    BY <2>1, <2>2
  <2> QED  BY <1>16, <2>3 DEF lagfx_air_function_body_open, PhaseInv, Walks
<1>17. CASE BodyDefinesAbbrev \/ BodyInstruction
  BY <1>0, <1>17 DEF BodyDefinesAbbrev, BodyInstruction, InBody, PhaseInv, Walks
<1>18. CASE BodyConstants \/ LocalConstant
  <2>1. CASE BodyConstants
    <3>1. PICK e \in read_enter_subblock_payload : blk' = [id |-> "local", end |-> e]
      BY <2>1 DEF BodyConstants
    <3>2. pc' = "local" /\ pos' = pos + 1 /\ mend' = mend
      BY <2>1 DEF BodyConstants
    <3>3. /\ blk'.id = "local"
          /\ blk' \in [id : Walked \cup {"none", "STRTAB", "local"}, end : Nat]
      BY <1>0, <3>1
    <3> QED  BY <1>0, <3>2, <3>3 DEF PhaseInv, Walks
  <2>2. CASE LocalConstant
    BY <1>0, <2>2 DEF LocalConstant, PhaseInv, Walks
  <2> QED  BY <1>18, <2>1, <2>2
<1>19. CASE LocalConstantsEnd
  BY <1>0, <1>19 DEF LocalConstantsEnd, NoBlock, PhaseInv, Walks
<1>20. CASE BodySkips
  BY <1>0, <1>20 DEF BodySkips, InBody, PhaseInv, Walks
<1>21. CASE BodyEnds \/ lagfx_air_function_body_free
  BY <1>0, <1>21 DEF BodyEnds, lagfx_air_function_body_free, PhaseInv, Walks
<1>22. CASE RootRefused \/ CloseModule
  BY <1>22 DEF RootRefused, CloseModule
<1> QED
  BY <1>1, <1>2, <1>3, <1>4, <1>5, <1>6, <1>7, <1>8, <1>9, <1>10, <1>11, <1>12, <1>13, <1>14,
     <1>15, <1>16, <1>17, <1>18, <1>19, <1>20, <1>21, <1>22
  DEF ReaderNext, Walk, WalkBlock

-----------------------------------------------------------------------------
(* Abbreviations. *)

LEMMA AbbrevStep ==
    ASSUME PhaseInv, AbbrevInv, ReaderNext
    PROVE  AbbrevInv' \/ lagfx_air_module_free
<1> SUFFICES ASSUME ~lagfx_air_module_free PROVE AbbrevInv'
  OBVIOUS
<1>0. /\ ab \in Abbrevs /\ AbbrevsAgree
      /\ ab.here \in Nat /\ ab.phere \in Nat /\ ab.mod \in Nat /\ ab.pmod \in Nat
      /\ ab.lost \in BOOLEAN
  BY DEF AbbrevInv, Abbrevs
<1>1. CASE \/ lagfx_air_module_open \/ RootEnds \/ RootModule \/ RootOther \/ ModuleEnds
           \/ ModuleStops \/ ModuleSkips \/ ModuleFunctionBlock
  <2>1. ab' = ab /\ blk' = blk
    BY <1>1 DEF lagfx_air_module_open, RootEnds, RootModule, RootOther, ModuleEnds, ModuleStops,
       ModuleSkips, ModuleFunctionBlock
  <2> QED  BY <2>1, SameAbbrevs
<1>2. CASE ModuleString \/ ModuleFunction
  <2>1. ab' = ab /\ blk' = blk
    BY <1>2 DEF ModuleString, ModuleFunction, OutOfMemory
  <2> QED  BY <2>1, SameAbbrevs
<1>3. CASE \/ DroppedRecord \/ EmptyRecord \/ PlainRecord \/ SymtabRecord \/ NestedBlock
           \/ StrtabRecord \/ InternedRecord \/ NameRecord \/ StringsRecord
  <2>1. ab' = ab /\ blk' = blk
    BY <1>3 DEF DroppedRecord, EmptyRecord, PlainRecord, SymtabRecord, NestedBlock,
       StrtabRecord, InternedRecord, NameRecord, StringsRecord, OutOfMemory
  <2> QED  BY <2>1, SameAbbrevs
<1>4. CASE \/ ResolveName \/ Materialise \/ ClearNames
           \/ BodyInstruction \/ LocalConstant \/ BodySkips \/ BodyEnds
  <2>1. ab' = ab /\ blk' = blk
    BY <1>4 DEF ResolveName, Materialise, ClearNames, BodyInstruction, LocalConstant, BodySkips,
       BodyEnds, OutOfMemory
  <2> QED  BY <2>1, SameAbbrevs
<1>5. CASE BodyConstants \/ LocalConstantsEnd
  <2>1. ab' = ab /\ blk.id # "BLOCKINFO"
    BY <1>5 DEF BodyConstants, LocalConstantsEnd, InBody, PhaseInv
  <2> QED  BY <2>1, SameAbbrevs
<1>6. CASE RootStrtab
  <2>1. PICK e : blk' = [id |-> "STRTAB", end |-> e]
    BY <1>6 DEF RootStrtab
  <2>2. lagfx_block_enter("STRTAB", [t \in Targets |-> 0]) = lagfx_block_enter("STRTAB", ab.info)
    BY DEF lagfx_block_enter, lagfx_abbrev_table_copy, Targets
  <2>3. ab' = lagfx_block_enter("STRTAB", ab.info) /\ blk'.id # "BLOCKINFO"
    BY <1>6, <2>1, <2>2 DEF RootStrtab
  <2> QED  BY <1>0, <2>3, FreshAbbrevs
<1>7. CASE ModuleDefineAbbrev
  <2>1. /\ ab' = [ab EXCEPT !.mod = lagfx_abbrev_table_define(@), !.pmod = @ + 1]
        /\ blk' = blk /\ ab.mod < AbbrevCap /\ blk.id # "BLOCKINFO"
    BY <1>7 DEF ModuleDefineAbbrev, InModule, PhaseInv
  <2>2. lagfx_abbrev_table_define(ab.mod) = ab.mod + 1 /\ ab.mod + 1 \in Nat /\ ab.pmod + 1 \in Nat
        /\ lagfx_abbrev_table_define(ab.mod) \in Nat
    BY <1>0, <2>1 DEF lagfx_abbrev_table_define
  <2>3. ab' \in Abbrevs
    BY <1>0, <2>1, <2>2 DEF Abbrevs
  <2>4. /\ ab'.mod = ab.mod + 1 /\ ab'.pmod = ab.pmod + 1 /\ ab'.info = ab.info
        /\ ab'.pinfo = ab.pinfo /\ ab'.lost = ab.lost /\ ab'.here = ab.here /\ ab'.phere = ab.phere
    BY <1>0, <2>1, <2>2 DEF Abbrevs
  <2> QED  BY <2>1, <2>3, <2>4, AbbrevChange
<1>8. CASE EnterBlock
  <2>1. PICK id \in Walked, e \in read_enter_subblock_payload :
           /\ blk' = [id |-> id, end |-> e]
           /\ ab' = lagfx_block_enter(id, IF id = "BLOCKINFO" THEN lagfx_blockinfo_init
                                          ELSE ab.info)
    BY <1>8 DEF EnterBlock, OutOfMemory
  <2>2. blk'.id = id
    BY <2>1
  <2>3. CASE id # "BLOCKINFO"
    BY <1>0, <2>1, <2>2, <2>3, FreshAbbrevs
  <2>4. CASE id = "BLOCKINFO"
    <3>1. ab' = [ab EXCEPT !.here = 0, !.phere = 0, !.target = "none"]
      BY <2>1, <2>4 DEF lagfx_block_enter, lagfx_abbrev_table_copy, Targets
    <3>2. ab' \in Abbrevs
      BY <1>0, <3>1 DEF Abbrevs
    <3>3. /\ ab'.mod = ab.mod /\ ab'.pmod = ab.pmod /\ ab'.info = ab.info
          /\ ab'.pinfo = ab.pinfo /\ ab'.lost = ab.lost
      BY <1>0, <3>1 DEF Abbrevs
    <3> QED  BY <2>2, <2>4, <3>2, <3>3, AbbrevChange
  <2> QED  BY <2>3, <2>4
<1>9. CASE BlockEnds \/ TableFull
  <2>0. pos \in Nat /\ pos + 1 \in Nat /\ \A p \in lagfx_block_next_record : p \in Nat
    BY Ends DEF PhaseInv
  <2>1. PICK p \in Nat, broken \in BOOLEAN : LeaveBlock(p, broken)
    BY <1>9, <2>0 DEF BlockEnds, TableFull
  <2> DEFINE l == IF blk.id = "BLOCKINFO" THEN broken ELSE blk.end > BufLen
  <2>2. l \in BOOLEAN
    <3>1. CASE blk.id = "BLOCKINFO"
      BY <3>1
    <3>2. CASE blk.id # "BLOCKINFO"
      BY <3>2
    <3> QED  BY <3>1, <3>2
  <2>3. ab' = [ab EXCEPT !.lost = @ \/ l, !.here = 0, !.phere = 0, !.target = "none"]
    BY <2>1 DEF LeaveBlock
  <2> HIDE DEF l
  <2> QED  BY <2>2, <2>3, LeavingAbbrevs
<1>10. CASE SkipNested
  <2>1. PICK e : ab' = [ab EXCEPT !.lost = @ \/ e > BufLen]
    BY <1>10 DEF SkipNested
  <2>2. (ab.lost \/ e > BufLen) \in BOOLEAN
    BY <1>0
  <2>3. ab' \in Abbrevs /\ ab'.lost = (ab.lost \/ e > BufLen)
    BY <1>0, <2>1, <2>2 DEF Abbrevs
  <2>4. /\ ab'.mod = ab.mod /\ ab'.pmod = ab.pmod /\ ab'.info = ab.info
        /\ ab'.pinfo = ab.pinfo /\ ab'.here = ab.here /\ ab'.phere = ab.phere
    BY <1>0, <2>1 DEF Abbrevs
  <2>5. blk' = blk
    BY <1>10 DEF SkipNested
  <2>6. ab'.lost = FALSE => ab.lost = FALSE
    BY <1>0, <2>3
  <2> QED  BY <1>0, <2>3, <2>4, <2>5, <2>6 DEF AbbrevInv, AbbrevsAgree
<1>11. CASE BlockDefinesAbbrev
  <2>1. ab' = DefineAbbrev /\ blk' = blk /\ ab.here < AbbrevCap
    BY <1>11 DEF BlockDefinesAbbrev
  <2>2. CASE blk.id = "BLOCKINFO"
    BY <2>1, <2>2, BlockinfoAbbrev
  <2>3. CASE blk.id # "BLOCKINFO"
    <3>1. ab' = [ab EXCEPT !.here = lagfx_abbrev_table_define(@), !.phere = @ + 1]
      BY <2>1, <2>3 DEF DefineAbbrev
    <3> QED  BY <2>1, <2>3, <3>1, OwnAbbrev
  <2> QED  BY <2>2, <2>3
<1>12. CASE BlockinfoRecord
  <2>1. PICK t \in Targets \cup {"other"} : ab' = [ab EXCEPT !.target = t]
    BY <1>12 DEF BlockinfoRecord
  <2>2. ab' \in Abbrevs
    BY <1>0, <2>1 DEF Abbrevs
  <2>3. /\ ab'.mod = ab.mod /\ ab'.pmod = ab.pmod /\ ab'.info = ab.info /\ ab'.lost = ab.lost
        /\ ab'.pinfo = ab.pinfo /\ ab'.here = ab.here /\ ab'.phere = ab.phere
    BY <1>0, <2>1 DEF Abbrevs
  <2>4. blk' = blk
    BY <1>12 DEF BlockinfoRecord
  <2> QED  BY <1>0, <2>2, <2>3, <2>4 DEF AbbrevInv, AbbrevsAgree
<1>13. CASE lagfx_air_function_body_open
  <2>1. ab' = lagfx_block_enter("FUNCTION", ab.info) /\ blk' = blk /\ blk.id # "BLOCKINFO"
    BY <1>13 DEF lagfx_air_function_body_open, PhaseInv
  <2> QED  BY <1>0, <2>1, FreshAbbrevs
<1>14. CASE BodyDefinesAbbrev
  <2>1. /\ ab' = [ab EXCEPT !.here = lagfx_abbrev_table_define(@), !.phere = @ + 1]
        /\ blk' = blk /\ ab.here < AbbrevCap /\ blk.id # "BLOCKINFO"
    BY <1>14 DEF BodyDefinesAbbrev, InBody, PhaseInv
  <2> QED  BY <2>1, OwnAbbrev
<1>15. CASE lagfx_air_function_body_free
  <2>1. ab' = [ab EXCEPT !.here = 0, !.phere = 0]
    BY <1>15 DEF lagfx_air_function_body_free
  <2>2. ab' \in Abbrevs
    BY <1>0, <2>1 DEF Abbrevs
  <2>3. /\ ab'.mod = ab.mod /\ ab'.pmod = ab.pmod /\ ab'.info = ab.info /\ ab'.lost = ab.lost
        /\ ab'.pinfo = ab.pinfo /\ ab'.here = 0 /\ ab'.phere = 0
    BY <1>0, <2>1 DEF Abbrevs
  <2> QED  BY <2>2, <2>3, AbbrevChange
<1>16. CASE RootRefused \/ CloseModule
  BY <1>16 DEF RootRefused, CloseModule
<1> QED
  BY <1>1, <1>2, <1>3, <1>4, <1>5, <1>6, <1>7, <1>8, <1>9, <1>10, <1>11, <1>12, <1>13, <1>14,
     <1>15, <1>16
  DEF ReaderNext, Walk, WalkBlock

-----------------------------------------------------------------------------
(* Functions and their bodies. *)

LEMMA RankFacts ==
    ASSUME NEW fns, NEW i \in Nat
    PROVE  /\ IsFiniteSet({j \in 1..i : ~fns[j].proto})
           /\ Rank(fns, i) \in Nat
<1>1. IsFiniteSet(1..i)
  BY FS_Interval
<1>2. IsFiniteSet({j \in 1..i : ~fns[j].proto})
  BY <1>1, FS_Subset
<1> QED  BY <1>2, FS_CardinalityType DEF Rank

LEMMA RankZero == ASSUME NEW fns PROVE Rank(fns, 0) = 0
<1>1. {j \in 1..0 : ~fns[j].proto} = {}
  OBVIOUS
<1> QED  BY <1>1, FS_EmptySet DEF Rank

LEMMA RankSame ==
    ASSUME NEW fns, NEW gns, NEW i \in Nat, \A j \in 1..i : fns[j].proto = gns[j].proto
    PROVE  Rank(fns, i) = Rank(gns, i)
<1>1. {j \in 1..i : ~fns[j].proto} = {j \in 1..i : ~gns[j].proto}
  OBVIOUS
<1> QED  BY <1>1 DEF Rank

\* Prototypes do not count ...
LEMMA RankSkip ==
    ASSUME NEW fns, NEW i \in Nat, NEW k \in Nat, i <= k, \A j \in (i + 1)..k : fns[j].proto
    PROVE  Rank(fns, k) = Rank(fns, i)
<1>1. {j \in 1..k : ~fns[j].proto} = {j \in 1..i : ~fns[j].proto}
  OBVIOUS
<1> QED  BY <1>1 DEF Rank

\* ... and a function with a body counts once.
LEMMA RankNext ==
    ASSUME NEW fns, NEW k \in Nat \ {0}, ~fns[k].proto
    PROVE  Rank(fns, k) = Rank(fns, k - 1) + 1
<1> DEFINE S == {j \in 1..(k - 1) : ~fns[j].proto}
<1>1. {j \in 1..k : ~fns[j].proto} = S \cup {k} /\ k \notin S
  OBVIOUS
<1>2. IsFiniteSet(S)
  <2>1. k - 1 \in Nat
    OBVIOUS
  <2> QED  BY <2>1, RankFacts
<1> HIDE DEF S
<1>3. Cardinality(S \cup {k}) = Cardinality(S) + 1
  BY <1>1, <1>2, FS_AddElement
<1> QED  BY <1>1, <1>3 DEF Rank, S

LEMMA RankMono ==
    ASSUME NEW fns, NEW i \in Nat, NEW k \in Nat, i <= k
    PROVE  Rank(fns, i) <= Rank(fns, k)
<1>1. {j \in 1..i : ~fns[j].proto} \subseteq {j \in 1..k : ~fns[j].proto}
  OBVIOUS
<1>2. IsFiniteSet({j \in 1..k : ~fns[j].proto})
  BY RankFacts
<1> QED  BY <1>1, <1>2, FS_Subset DEF Rank

\* The cursor finds the next function with a body.
LEMMA NextBodyFound ==
    ASSUME m \in Module, fn \in 1 .. (Len(m.fns) + 1), NEW j, j = NextBody(fn)
    PROVE  /\ j \in fn .. (Len(m.fns) + 1)
           /\ j <= Len(m.fns) => ~m.fns[j].proto
           /\ \A k \in fn .. (j - 1) : m.fns[k].proto
<1>1. Len(m.fns) \in Nat /\ fn \in Nat
  BY DEF Module
<1> DEFINE T == {k \in fn .. (Len(m.fns) + 1) : k = Len(m.fns) + 1 \/ ~m.fns[k].proto}
<1>2. Len(m.fns) + 1 \in T /\ T \subseteq Nat
  BY <1>1
<1>3. PICK x \in T : \A y \in T : ~(y < x)
  <2> DEFINE R == {ss \in Nat \X Nat : ss[1] < ss[2]}
  <2>1. R = OpToRel(<, Nat)
    BY Zenon DEF OpToRel
  <2>2. IsWellFoundedOn(R, Nat)
    BY <2>1, NatLessThanWellFounded
  <2>3. PICK x \in T : \A y \in T : ~(<<y, x>> \in R)
    BY <1>2, <2>2, WFMin, ZenonT(30)
  <2>4. \A y \in T : ~(y < x)
    BY <1>2, <2>3
  <2> QED  BY <2>4
<1>4. /\ x \in fn .. (Len(m.fns) + 1)
      /\ x <= Len(m.fns) => ~m.fns[x].proto
  BY <1>1, <1>3
<1>5. \A k \in fn .. (x - 1) : m.fns[k].proto
  <2> SUFFICES ASSUME NEW k \in fn .. (x - 1), ~m.fns[k].proto PROVE FALSE
    OBVIOUS
  <2>1. k \in fn .. (Len(m.fns) + 1) /\ k < x
    BY <1>1, <1>4
  <2> QED  BY <1>3, <2>1
<1> QED  BY <1>4, <1>5 DEF NextBody

\* The functions at foff and later, bound to the blocks mt.
Bound(fns, foff, mt) ==
    \A i \in 1 .. Len(fns) :
        /\ fns[i].at = foff + i - 1
        /\ fns[i].start # 0 => fns[i].start < fns[i].end /\ fns[i].end <= BufLen
        /\ fns[i].start = IF ~fns[i].proto /\ Rank(fns, i) \in 1 .. Len(mt)
                          THEN mt[Rank(fns, i)] ELSE 0

LEMMA BoundMeans ==
    ASSUME m \in Module, met \in Seq(Nat)
    PROVE  BodiesBound <=> Bound(m.fns, m.foff, met)
<1>1. DOMAIN m.fns = 1 .. Len(m.fns) /\ DOMAIN met = 1 .. Len(met)
  BY DEF Module
<1> QED  BY <1>1 DEF BodiesBound, Bound

LEMMA BoundKept ==
    ASSUME m \in Module, m' \in Module, BoundInv,
           m'.fns = m.fns, m'.foff = m.foff, met' = met, mend' = mend,
           InModuleWalk' => InModuleWalk /\ fn' = fn,
           pc' = "names" => fn' \in Nat \ {0}
    PROVE  BoundInv'
<1>1. met' \in Seq(Nat) /\ BodiesBound'
  BY DEF BoundInv, BodiesBound
<1>2. InModuleWalk' => CursorOK'
  BY DEF BoundInv, CursorOK
<1>3. mend' = 0 => m'.fns = <<>> /\ met' = <<>>
  BY DEF BoundInv
<1>4. InModuleWalk' => mend' # 0
  BY DEF BoundInv
<1> QED  BY <1>1, <1>2, <1>3, <1>4 DEF BoundInv

\* Changing one function's entry.
LEMMA EntryChanged ==
    ASSUME NEW d \in Module, NEW k \in 1 .. Len(d.fns), NEW r \in FnRec,
           NEW x, x = [d EXCEPT !.fns = [d.fns EXCEPT ![k] = r]]
    PROVE  /\ x \in Module /\ Len(x.fns) = Len(d.fns) /\ x.fns[k] = r
           /\ \A i \in 1 .. Len(d.fns) : i # k => x.fns[i] = d.fns[i]
           /\ x.types = d.types /\ x.constants = d.constants /\ x.groups = d.groups
           /\ x.foff = d.foff /\ x.fgen = d.fgen /\ x.metadata = d.metadata
           /\ x.strings = d.strings /\ x.strtab = d.strtab
<1>1. d.fns \in Seq(FnRec)
  BY DEF Module
<1>2. PICK fs : fs = [d.fns EXCEPT ![k] = r]
  OBVIOUS
<1>3. /\ fs \in Seq(FnRec) /\ Len(fs) = Len(d.fns) /\ fs[k] = r
      /\ \A i \in 1 .. Len(d.fns) : i # k => fs[i] = d.fns[i]
  BY <1>1, <1>2
<1>4. x = [d EXCEPT !.fns = fs]
  BY <1>2
<1>5. x \in Module /\ x.fns = fs
  BY <1>3, <1>4 DEF Module
<1>6. /\ x.types = d.types /\ x.constants = d.constants /\ x.groups = d.groups
      /\ x.foff = d.foff /\ x.fgen = d.fgen /\ x.metadata = d.metadata
      /\ x.strings = d.strings /\ x.strtab = d.strtab
  BY <1>4 DEF Module
<1> QED  BY <1>3, <1>5, <1>6

\* Giving functions other names.
LEMMA BoundRenamed ==
    ASSUME NEW fns \in Seq(FnRec), NEW gns \in Seq(FnRec), NEW o, NEW mt, Bound(fns, o, mt),
           Len(gns) = Len(fns),
           \A i \in 1 .. Len(fns) : /\ gns[i].at = fns[i].at /\ gns[i].proto = fns[i].proto
                                    /\ gns[i].start = fns[i].start /\ gns[i].end = fns[i].end
    PROVE  Bound(gns, o, mt)
<1> SUFFICES ASSUME NEW i \in 1 .. Len(fns)
             PROVE  /\ gns[i].at = o + i - 1
                    /\ gns[i].start # 0 => gns[i].start < gns[i].end /\ gns[i].end <= BufLen
                    /\ gns[i].start = IF ~gns[i].proto /\ Rank(gns, i) \in 1 .. Len(mt)
                                      THEN mt[Rank(gns, i)] ELSE 0
  BY DEF Bound
<1>1. Rank(gns, i) = Rank(fns, i)
  <2>1. i \in Nat /\ \A j \in 1..i : j \in 1 .. Len(fns)
    OBVIOUS
  <2> QED  BY <2>1, RankSame
<1> QED  BY <1>1 DEF Bound

\* ResolveName and ClearNames change names only.
LEMMA NamesStep ==
    ASSUME PhaseInv, m \in Module, ArenaOK(arena), BoundInv, ResolveName \/ ClearNames,
           ~lagfx_air_module_free
    PROVE  m' \in Module /\ m'.foff = m.foff /\ (m'.fns = <<>> <=> m.fns = <<>>) /\ BoundInv'
<1>1. /\ pc = "names" /\ pc' = "names" /\ fn <= Len(m.fns) /\ mend' = mend /\ met' = met
      /\ fn \in Nat \ {0} /\ met \in Seq(Nat) /\ Bound(m.fns, m.foff, met)
  BY BoundMeans DEF ResolveName, ClearNames, OutOfMemory, BoundInv
<1>2. m.fns \in Seq(FnRec) /\ Len(m.fns) \in Nat /\ arena.gen \in Nat
  BY DEF Module, ArenaOK
<1>3. fn' \in Nat \ {0}
  <2>1. fn' = fn + 1 \/ fn' = Len(m.fns) + 1
    BY DEF ResolveName, ClearNames, OutOfMemory
  <2> QED  BY <1>1, <1>2, <2>1
<1>4. /\ m' \in Module /\ m'.foff = m.foff /\ Len(m'.fns) = Len(m.fns)
      /\ \A i \in 1 .. Len(m.fns) : /\ m'.fns[i].at = m.fns[i].at
                                    /\ m'.fns[i].proto = m.fns[i].proto
                                    /\ m'.fns[i].start = m.fns[i].start
                                    /\ m'.fns[i].end = m.fns[i].end
  <2>1. CASE ResolveName
    <3>1. PICK g \in Nat, nm \in {"none", "arena"} :
             m' = [derive_table_ptrs(m, g) EXCEPT !.fns[fn].name = nm]
      <4>1. ArenaOK(arena_reserve(arena, 1))
        BY Reserve
      <4>2. arena_reserve(arena, 1).gen \in Nat
        BY <4>1 DEF ArenaOK
      <4> QED  BY <1>2, <2>1, <4>2 DEF ResolveName, OutOfMemory
    <3>2. PICK d : d = derive_table_ptrs(m, g)
      OBVIOUS
    <3>3. d \in Module /\ d.fns = m.fns /\ d.foff = m.foff
      BY <3>2, Derived
    <3>4. fn \in 1 .. Len(d.fns) /\ m.fns[fn] \in FnRec
      BY <1>1, <1>2, <3>3
    <3>5. PICK r : r = [m.fns[fn] EXCEPT !.name = nm]
      OBVIOUS
    <3>6. /\ r \in FnRec /\ r.at = m.fns[fn].at /\ r.proto = m.fns[fn].proto
          /\ r.start = m.fns[fn].start /\ r.end = m.fns[fn].end
      BY <3>4, <3>5 DEF FnRec
    <3>7. m' = [d EXCEPT !.fns = [d.fns EXCEPT ![fn] = r]]
      BY <3>1, <3>2, <3>3, <3>5
    <3>8. /\ m' \in Module /\ Len(m'.fns) = Len(d.fns) /\ m'.fns[fn] = r /\ m'.foff = d.foff
          /\ \A i \in 1 .. Len(d.fns) : i # fn => m'.fns[i] = d.fns[i]
      BY <3>3, <3>4, <3>6, <3>7, EntryChanged
    <3> QED  BY <3>3, <3>6, <3>8
  <2>2. CASE ClearNames
    <3> DEFINE gs == [i \in DOMAIN m.fns |-> [m.fns[i] EXCEPT !.name = "none"]]
    <3>1. m' = [m EXCEPT !.fns = gs] \/ m' = m
      BY <2>2 DEF ClearNames
    <3>2. /\ gs \in Seq(FnRec) /\ Len(gs) = Len(m.fns)
          /\ \A i \in 1 .. Len(m.fns) : /\ gs[i].at = m.fns[i].at /\ gs[i].proto = m.fns[i].proto
                                        /\ gs[i].start = m.fns[i].start
                                        /\ gs[i].end = m.fns[i].end
      <4>1. DOMAIN m.fns = 1 .. Len(m.fns) /\ \A i \in 1 .. Len(m.fns) : m.fns[i] \in FnRec
        BY <1>2
      <4>2. \A i \in 1 .. Len(m.fns) :
              /\ [m.fns[i] EXCEPT !.name = "none"] \in FnRec
              /\ [m.fns[i] EXCEPT !.name = "none"].at = m.fns[i].at
              /\ [m.fns[i] EXCEPT !.name = "none"].proto = m.fns[i].proto
              /\ [m.fns[i] EXCEPT !.name = "none"].start = m.fns[i].start
              /\ [m.fns[i] EXCEPT !.name = "none"].end = m.fns[i].end
        BY <4>1 DEF FnRec
      <4>3. gs \in [1 .. Len(m.fns) -> FnRec]
        BY <4>1, <4>2
      <4>4. \A i \in 1 .. Len(m.fns) : gs[i] = [m.fns[i] EXCEPT !.name = "none"]
        BY <4>1
      <4> HIDE DEF gs
      <4>5. gs \in Seq(FnRec) /\ Len(gs) = Len(m.fns)
        <5>1. ASSUME NEW k \in Nat, NEW g \in [1 .. k -> FnRec]
              PROVE  g \in Seq(FnRec) /\ Len(g) = k
          OBVIOUS
        <5> QED  BY <1>2, <4>3, <5>1
      <4> QED  BY <4>2, <4>4, <4>5
    <3> HIDE DEF gs
    <3>3. CASE m' = [m EXCEPT !.fns = gs]
      <4>1. m' \in Module /\ m'.fns = gs /\ m'.foff = m.foff
        BY <3>2, <3>3 DEF Module
      <4> QED  BY <3>2, <4>1
    <3>4. CASE m' = m
      BY <3>4
    <3> QED  BY <3>1, <3>3, <3>4
  <2> QED  BY <2>1, <2>2
<1>5. m'.fns \in Seq(FnRec)
  BY <1>4 DEF Module
<1>6. Bound(m'.fns, m.foff, met)
  BY <1>1, <1>2, <1>4, <1>5, BoundRenamed
<1>7. BodiesBound'
  <2>1. DOMAIN m'.fns = 1 .. Len(m'.fns) /\ DOMAIN met' = 1 .. Len(met')
    BY <1>1, <1>5
  <2> QED  BY <1>1, <1>4, <1>6, <2>1 DEF Bound, BodiesBound
<1>8. mend' = 0 => m'.fns = <<>> /\ met' = <<>>
  BY <1>1, <1>2 DEF BoundInv
<1>9. m'.fns = <<>> <=> m.fns = <<>>
  BY <1>2, <1>4, <1>5
<1> QED  BY <1>1, <1>3, <1>4, <1>7, <1>8, <1>9 DEF BoundInv, InModuleWalk, Walks

\* A FUNCTION record: the struct is reserved right behind the last one.
LEMMA FunctionRecordStep ==
    ASSUME PhaseInv, m \in Module, ArenaOK(arena), BoundInv, m.fns # <<>> => m.foff # 0,
           ModuleFunction, ~lagfx_air_module_free
    PROVE  /\ m' \in Module /\ BoundInv' /\ m'.foff # 0 /\ ArenaOK(arena')
           /\ pc' = "module" /\ blk' = blk /\ body' = body /\ lt' = lt /\ stale' = stale
<1>1. /\ pc = "module" /\ pc' = pc /\ FunctionsAdjacent /\ arena' = arena_reserve(arena, 1)
      /\ UNCHANGED <<mend, blk, lt, fn, body, met, stale>>
  BY DEF ModuleFunction, InModule, OutOfMemory
<1>2. PICK proto \in BOOLEAN :
        m' = [m EXCEPT
                !.foff = IF m.fns = <<>> THEN arena.used ELSE @,
                !.fgen = IF m.fns = <<>> THEN arena_reserve(arena, 1).gen ELSE @,
                !.fns = Append(@, [at |-> arena.used, proto |-> proto,
                                   start |-> 0, end |-> 0, name |-> "raw"])]
  BY DEF ModuleFunction, OutOfMemory
<1>3. PICK r : r = [at |-> arena.used, proto |-> proto, start |-> 0, end |-> 0, name |-> "raw"]
  OBVIOUS
<1>4. /\ ArenaOK(arena') /\ arena'.gen \in Nat /\ arena.used \in Nat \ {0}
      /\ m.fns \in Seq(FnRec) /\ Len(m.fns) \in Nat /\ m.foff \in Nat /\ m.fgen \in Nat
  BY <1>1, Reserve DEF ArenaOK, Module
<1>5. /\ r \in FnRec /\ r.at = arena.used /\ r.start = 0 /\ r.proto = proto
  BY <1>3, <1>4 DEF FnRec
<1>6. PICK fs, fo, fg : /\ fs = Append(m.fns, r)
                        /\ fo = IF m.fns = <<>> THEN arena.used ELSE m.foff
                        /\ fg = IF m.fns = <<>> THEN arena'.gen ELSE m.fgen
  OBVIOUS
<1>7. m' = [m EXCEPT !.foff = fo, !.fgen = fg, !.fns = fs]
  BY <1>1, <1>2, <1>3, <1>6
<1>8. /\ fs \in Seq(FnRec) /\ Len(fs) = Len(m.fns) + 1 /\ fs[Len(m.fns) + 1] = r
      /\ \A i \in 1 .. Len(m.fns) : fs[i] = m.fns[i]
  BY <1>4, <1>5, <1>6
<1>9. fo \in Nat \ {0} /\ fg \in Nat
  BY <1>4, <1>6
<1>10. m' \in Module /\ m'.fns = fs /\ m'.foff = fo
  BY <1>7, <1>8, <1>9 DEF Module
<1>11. met = <<>> /\ met' = <<>> /\ fn = 1 /\ fn' = fn /\ mend # 0
  BY <1>1 DEF FunctionsAdjacent, BoundInv, CursorOK, InModuleWalk
<1>12. Bound(m.fns, m.foff, met)
  BY <1>11, BoundMeans DEF BoundInv
<1>13. ASSUME NEW i \in 1 .. Len(fs)
       PROVE  fs[i].at = fo + i - 1 /\ fs[i].start = 0
  <2>1. CASE i \in 1 .. Len(m.fns)
    <3>1. m.fns # <<>> /\ fs[i] = m.fns[i] /\ fo = m.foff
      BY <1>6, <1>8, <2>1
    <3>2. m.fns[i].at = m.foff + i - 1
      BY <1>12, <2>1 DEF Bound
    <3>3. m.fns[i].start = 0
      BY <1>11, <1>12, <2>1 DEF Bound
    <3> QED  BY <3>1, <3>2, <3>3
  <2>2. CASE i = Len(m.fns) + 1
    <3>1. fs[i].at = arena.used /\ fs[i].start = 0
      BY <1>5, <1>8, <2>2
    <3>2. CASE m.fns = <<>>
      <4>1. i = 1 /\ fo = arena.used
        BY <1>6, <2>2, <3>2
      <4> QED  BY <1>4, <3>1, <4>1
    <3>3. CASE m.fns # <<>>
      <4>1. Len(m.fns) \in 1 .. Len(m.fns) /\ fo = m.foff
        BY <1>4, <1>6, <3>3
      <4>2. m.fns[Len(m.fns)].at = m.foff + Len(m.fns) - 1
        BY <1>12, <4>1 DEF Bound
      <4>3. arena.used = m.fns[Len(m.fns)].at + 1
        BY <1>1, <3>3 DEF FunctionsAdjacent
      <4> QED  BY <1>4, <2>2, <3>1, <4>1, <4>2, <4>3
    <3> QED  BY <3>2, <3>3
  <2> QED  BY <1>4, <1>8, <2>1, <2>2
<1>14. BodiesBound'
  <2>1. DOMAIN m'.fns = 1 .. Len(fs) /\ DOMAIN met' = {}
    BY <1>8, <1>10, <1>11
  <2> QED  BY <1>10, <1>13, <2>1 DEF BodiesBound
<1>15. CursorOK'
  <2>1. Rank(fs, 0) = 0
    BY RankZero
  <2> QED  BY <1>4, <1>8, <1>10, <1>11, <2>1 DEF CursorOK
<1>16. BoundInv'
  BY <1>1, <1>11, <1>14, <1>15 DEF BoundInv
<1> QED  BY <1>1, <1>4, <1>9, <1>10, <1>16

\* A FUNCTION_BLOCK goes to the next function with a body: as many came before that one
\* as blocks before this one.
LEMMA FunctionBlockStep ==
    ASSUME PhaseInv, m \in Module, ArenaOK(arena), BoundInv, ModuleFunctionBlock
    PROVE  m' \in Module /\ m'.foff = m.foff /\ (m'.fns = <<>> <=> m.fns = <<>>) /\ BoundInv'
<1> DEFINE j == NextBody(fn)
           n == Len(m.fns)
           k == Len(met)
<1>1. /\ pc = "module" /\ pc' = pc
      /\ UNCHANGED <<mend, blk>> /\ met' = Append(met, pos)
      /\ fn' = IF j > n THEN j ELSE j + 1
  BY DEF ModuleFunctionBlock, InModule
<1>0. PICK d : d = derive_table_ptrs(m, arena.gen)
  OBVIOUS
<1>2. PICK e \in read_enter_subblock_payload :
        /\ e <= BufLen
        /\ m' = IF j > n THEN d ELSE [d EXCEPT !.fns[j].start = pos, !.fns[j].end = e]
  BY <1>0 DEF ModuleFunctionBlock
<1>3. arena.gen \in Nat /\ pos \in Nat /\ e \in Nat /\ pos < e
  BY Ends DEF ArenaOK, PhaseInv
<1>4. d \in Module /\ d.fns = m.fns /\ d.foff = m.foff
  BY <1>0, <1>3, Derived
<1>5. m.fns \in Seq(FnRec) /\ n \in Nat
  BY DEF Module
<1>6. /\ met \in Seq(Nat) /\ CursorOK /\ mend # 0 /\ Bound(m.fns, m.foff, met)
  BY <1>1, BoundMeans DEF BoundInv, InModuleWalk
<1>7. /\ fn \in 1 .. (n + 1)
      /\ fn <= n => Rank(m.fns, fn - 1) = k
      /\ fn > n => Rank(m.fns, n) <= k
  BY <1>6 DEF CursorOK
<1>8. /\ j \in fn .. (n + 1) /\ (j <= n => ~m.fns[j].proto)
      /\ \A x \in fn .. (j - 1) : m.fns[x].proto
  BY <1>7, NextBodyFound
<1>9. /\ met' \in Seq(Nat) /\ Len(met') = k + 1 /\ met'[k + 1] = pos /\ k \in Nat
      /\ \A i \in 1 .. k : met'[i] = met[i]
  BY <1>1, <1>3, <1>6
<1> HIDE DEF j, n, k
<1>10. fn \in Nat \ {0} /\ j \in Nat \ {0} /\ fn - 1 \in Nat /\ j - 1 \in Nat /\ fn - 1 <= j - 1
  BY <1>5, <1>7, <1>8
<1>11. Rank(m.fns, j - 1) = Rank(m.fns, fn - 1)
  <2>1. \A x \in ((fn - 1) + 1) .. (j - 1) : m.fns[x].proto
    BY <1>8, <1>10
  <2> QED  BY <1>10, <2>1, RankSkip
<1>12. ASSUME NEW i \in 1 .. n
       PROVE  i \in Nat /\ i - 1 \in Nat /\ Rank(m.fns, i) \in Nat
  <2>1. i \in Nat /\ i - 1 \in Nat
    BY <1>5
  <2> QED  BY <2>1, RankFacts
<1>13. CASE j > n
  <2>1. j = n + 1 /\ fn' = n + 1 /\ m'.fns = m.fns /\ m'.foff = m.foff /\ m' \in Module
    BY <1>1, <1>2, <1>4, <1>5, <1>8, <1>13
  <2>2. Rank(m.fns, n) <= k
    <3>1. CASE fn <= n
      BY <1>5, <1>7, <1>9, <1>11, <2>1, <3>1
    <3>2. CASE fn > n
      BY <1>7, <3>2
    <3> QED  BY <1>5, <1>10, <3>1, <3>2
  <2>3. Bound(m.fns, m.foff, met')
    <3> SUFFICES ASSUME NEW i \in 1 .. n
                 PROVE  /\ m.fns[i].at = m.foff + i - 1
                        /\ m.fns[i].start # 0 => m.fns[i].start < m.fns[i].end /\ m.fns[i].end <= BufLen
                        /\ m.fns[i].start = IF ~m.fns[i].proto /\ Rank(m.fns, i) \in 1 .. Len(met')
                                            THEN met'[Rank(m.fns, i)] ELSE 0
      BY DEF Bound, n
    <3>1. Rank(m.fns, i) <= Rank(m.fns, n) /\ Rank(m.fns, n) \in Nat
      BY <1>5, <1>12, RankMono, RankFacts
    <3>2. Rank(m.fns, i) <= k /\ Rank(m.fns, i) \in Nat
      BY <1>9, <1>12, <2>2, <3>1
    <3>3. Rank(m.fns, i) \in 1 .. Len(met') <=> Rank(m.fns, i) \in 1 .. k
      BY <1>9, <3>2
    <3>4. /\ m.fns[i].at = m.foff + i - 1
          /\ m.fns[i].start # 0 => m.fns[i].start < m.fns[i].end /\ m.fns[i].end <= BufLen
          /\ m.fns[i].start = IF ~m.fns[i].proto /\ Rank(m.fns, i) \in 1 .. k
                              THEN met[Rank(m.fns, i)] ELSE 0
      BY <1>6 DEF Bound, n, k
    <3> QED  BY <1>9, <3>3, <3>4
  <2>4. BodiesBound'
    <3>1. DOMAIN m'.fns = 1 .. Len(m.fns) /\ DOMAIN met' = 1 .. Len(met')
      BY <1>5, <1>9, <2>1
    <3> QED  BY <2>1, <2>3, <3>1 DEF Bound, BodiesBound
  <2>5. CursorOK'
    <3>1. met' # <<>> /\ Rank(m.fns, n) <= Len(met')
      <4>1. Rank(m.fns, n) \in Nat
        BY <1>5, RankFacts
      <4> QED  BY <1>9, <2>2, <4>1
    <3> QED  BY <1>5, <2>1, <3>1 DEF CursorOK, n
  <2> QED  BY <1>1, <1>6, <1>9, <2>1, <2>4, <2>5 DEF BoundInv
<1>14. CASE j <= n
  <2>1. j \in 1 .. n /\ fn <= n /\ ~m.fns[j].proto /\ fn' = j + 1
    BY <1>1, <1>5, <1>7, <1>8, <1>14
  <2>2. Rank(m.fns, j) = k + 1
    BY <1>7, <1>10, <1>11, <2>1, RankNext
  <2>3. PICK r : r = [m.fns[j] EXCEPT !.start = pos, !.end = e]
    OBVIOUS
  <2>4. m.fns[j] \in FnRec /\ r \in FnRec /\ r.start = pos /\ r.end = e
        /\ r.at = m.fns[j].at /\ r.proto = m.fns[j].proto
    <3>1. m.fns[j] \in FnRec
      BY <1>5, <2>1 DEF n
    <3> QED  BY <1>3, <2>3, <3>1 DEF FnRec
  <2>5. m' = [d EXCEPT !.fns = [d.fns EXCEPT ![j] = r]]
    <3>1. m' = [d EXCEPT !.fns[j].start = pos, !.fns[j].end = e]
      BY <1>2, <1>5, <1>14, <2>1
    <3> QED  BY <1>4, <2>1, <2>3, <3>1
  <2>6. j \in 1 .. Len(d.fns)
    BY <1>4, <2>1 DEF n
  <2>7. /\ m' \in Module /\ Len(m'.fns) = Len(d.fns) /\ m'.fns[j] = r /\ m'.foff = d.foff
        /\ \A i \in 1 .. Len(d.fns) : i # j => m'.fns[i] = d.fns[i]
    BY <1>4, <2>4, <2>5, <2>6, EntryChanged
  <2>8. /\ Len(m'.fns) = n /\ m'.fns[j] = r /\ m'.foff = m.foff
        /\ \A i \in 1 .. n : i # j => m'.fns[i] = m.fns[i]
    BY <1>4, <2>7 DEF n
  <2>9. \A i \in 1 .. n : m'.fns[i].proto = m.fns[i].proto
    BY <2>4, <2>8
  <2>10. \A i \in 0 .. n : Rank(m'.fns, i) = Rank(m.fns, i)
    <3> SUFFICES ASSUME NEW i \in 0 .. n PROVE Rank(m'.fns, i) = Rank(m.fns, i)
      OBVIOUS
    <3>1. i \in Nat /\ \A x \in 1 .. i : m'.fns[x].proto = m.fns[x].proto
      BY <1>5, <2>9
    <3> QED  BY <3>1, RankSame
  <2>11. ASSUME NEW i \in 1 .. n
         PROVE  /\ m'.fns[i].at = m.foff + i - 1
                /\ m'.fns[i].start # 0
                     => m'.fns[i].start < m'.fns[i].end /\ m'.fns[i].end <= BufLen
                /\ m'.fns[i].start = IF ~m'.fns[i].proto /\ Rank(m'.fns, i) \in 1 .. Len(met')
                                     THEN met'[Rank(m'.fns, i)] ELSE 0
    <3>1. Rank(m'.fns, i) = Rank(m.fns, i) /\ Rank(m.fns, i) \in Nat /\ i \in Nat
      BY <1>5, <1>12, <2>10
    <3>2. /\ m.fns[i].at = m.foff + i - 1
          /\ m.fns[i].start # 0 => m.fns[i].start < m.fns[i].end /\ m.fns[i].end <= BufLen
          /\ m.fns[i].start = IF ~m.fns[i].proto /\ Rank(m.fns, i) \in 1 .. k
                              THEN met[Rank(m.fns, i)] ELSE 0
      BY <1>6 DEF Bound, n, k
    <3>3. CASE i = j
      <4>1. m'.fns[i] = r /\ ~r.proto /\ Rank(m'.fns, i) = k + 1 /\ k + 1 \in 1 .. Len(met')
        BY <1>9, <2>1, <2>2, <2>4, <2>8, <3>1, <3>3
      <4>2. /\ r.at = m.foff + i - 1 /\ r.start < r.end /\ r.end <= BufLen /\ r.start = met'[k + 1]
        BY <1>2, <1>3, <1>9, <2>4, <3>2, <3>3
      <4> QED  BY <4>1, <4>2
    <3>4. CASE i # j
      <4>1. m'.fns[i] = m.fns[i]
        BY <2>8, <3>4
      <4>2. ~m.fns[i].proto => Rank(m.fns, i) # k + 1
        <5> SUFFICES ASSUME ~m.fns[i].proto PROVE Rank(m.fns, i) # k + 1
          OBVIOUS
        <5>1. CASE i < j
          <6>1. i <= j - 1
            BY <1>5, <2>1, <3>1, <5>1
          <6>2. Rank(m.fns, i) <= Rank(m.fns, j - 1)
            BY <1>10, <3>1, <6>1, RankMono
          <6> QED  BY <1>7, <1>9, <1>11, <2>1, <3>1, <6>2
        <5>2. CASE j < i
          <6>1. Rank(m.fns, i) = Rank(m.fns, i - 1) + 1 /\ i - 1 \in Nat
            BY <1>10, <1>12, <5>2, RankNext
          <6>2. j <= i - 1
            BY <1>10, <3>1, <5>2
          <6>3. Rank(m.fns, j) <= Rank(m.fns, i - 1) /\ Rank(m.fns, i - 1) \in Nat
            BY <1>10, <6>1, <6>2, RankMono, RankFacts
          <6> QED  BY <1>9, <2>2, <6>1, <6>3
        <5> QED  BY <1>10, <3>1, <3>4, <5>1, <5>2
      <4>3. ~m.fns[i].proto => (Rank(m.fns, i) \in 1 .. Len(met') <=> Rank(m.fns, i) \in 1 .. k)
        BY <1>9, <3>1, <4>2
      <4> QED  BY <1>9, <3>1, <3>2, <4>1, <4>3
    <3> QED  BY <3>3, <3>4
  <2>12. BodiesBound'
    <3>1. m'.fns \in Seq(FnRec)
      BY <2>7 DEF Module
    <3>2. DOMAIN m'.fns = 1 .. n /\ DOMAIN met' = 1 .. Len(met')
      BY <1>9, <2>8, <3>1
    <3> QED  BY <2>8, <2>11, <3>2 DEF BodiesBound
  <2>13. CursorOK'
    <3>1. met' # <<>> /\ fn' \in 1 .. (n + 1) /\ fn' - 1 = j
      BY <1>5, <1>9, <1>10, <2>1
    <3>2. Rank(m'.fns, j) = Len(met')
      BY <1>5, <1>9, <2>1, <2>2, <2>10
    <3>3. fn' > n => j = n
      BY <1>5, <2>1
    <3>4. fn' > n => Rank(m'.fns, n) <= Len(met')
      BY <1>9, <3>2, <3>3
    <3> QED  BY <2>8, <3>1, <3>2, <3>4 DEF CursorOK
  <2>14. m'.fns # <<>> /\ m.fns # <<>>
    BY <1>5, <2>1, <2>8 DEF n
  <2> QED  BY <1>1, <1>6, <1>9, <2>7, <2>8, <2>12, <2>13, <2>14 DEF BoundInv
<1> QED  BY <1>5, <1>10, <1>13, <1>14

-----------------------------------------------------------------------------
(* Pointers. *)

Handed == {"open", "body", "local", "decoded"}

LEMMA Walkers ==
    /\ ~WalkerOf("STRTAB").table
    /\ \A id : /\ WalkerOf(id).oom # {} \/ WalkerOf(id).named
                    => id # "VALUE_SYMTAB" /\ WalkerOf(id).table
               /\ WalkerOf(id).plain => WalkerOf(id).table
    /\ WalkerOf("METADATA").table
<1> SUFFICES ASSUME NEW id
             PROVE  /\ ~WalkerOf("STRTAB").table /\ WalkerOf("METADATA").table
                    /\ WalkerOf(id).oom # {} \/ WalkerOf(id).named
                         => id # "VALUE_SYMTAB" /\ WalkerOf(id).table
                    /\ WalkerOf(id).plain => WalkerOf(id).table
  OBVIOUS
<1>1. /\ ~walk_dropped.table /\ ~walk_dropped.plain /\ ~walk_dropped.named
      /\ walk_dropped.oom = {} /\ walk_symtab.table /\ ~walk_symtab.named /\ walk_symtab.oom = {}
      /\ walk_constants.table /\ walk_types.table /\ walk_groups.table /\ walk_metadata.table
  BY DEF walk_dropped, walk_symtab, walk_constants, walk_types, walk_groups, walk_metadata, Walker
<1>2. WalkerOf("STRTAB") = walk_dropped /\ WalkerOf("METADATA") = walk_metadata
  BY DEF WalkerOf
<1>3. CASE id \in {"CONSTANTS", "TYPE", "PARAMATTR_GROUP", "METADATA"}
  BY <1>1, <1>2, <1>3 DEF WalkerOf
<1>4. CASE id = "VALUE_SYMTAB"
  BY <1>1, <1>2, <1>4 DEF WalkerOf
<1>5. CASE id \notin {"CONSTANTS", "TYPE", "PARAMATTR_GROUP", "METADATA", "VALUE_SYMTAB"}
  BY <1>1, <1>2, <1>5 DEF WalkerOf
<1> QED  BY <1>3, <1>4, <1>5

\* A step of the walk: nothing has been handed out.
LEMMA WalkingPointers ==
    ASSUME PointerInv, lt' \in Table, m' \in Module, ArenaOK(arena'), body' = body,
           stale' \subseteq {"VALUE_SYMTAB", "clear"}, m'.fns # <<>> => m'.foff # 0,
           pc' \notin Handed,
           pc' \in Walks /\ WalkerOf(blk'.id).table /\ blk'.id # "VALUE_SYMTAB"
              => lt'.gen = arena'.gen
    PROVE  PointerInv'
BY DEF PointerInv, PointersCurrent, Handed

\* The same when the module and its arena stay.
LEMMA StillPointers ==
    ASSUME PointerInv, lt' = lt, m' = m, arena' = arena, body' = body, stale' = stale,
           pc' = pc \/ pc' \notin Handed,
           pc' \in Walks => \/ pc \in Walks /\ blk' = blk
                            \/ blk'.id = "STRTAB"
    PROVE  PointerInv'
<1>1. pc' \in Walks /\ WalkerOf(blk'.id).table /\ blk'.id # "VALUE_SYMTAB"
         => lt'.gen = arena'.gen
  BY Walkers DEF PointerInv
<1>2. pc' \in {"body", "local"} => body'.igen = body'.arena.gen
  BY DEF PointerInv, Handed
<1>3. PointersCurrent'
  BY DEF PointerInv, PointersCurrent, Handed
<1> QED  BY <1>1, <1>2, <1>3 DEF PointerInv

\* The steps that touch neither the module nor an arena.
LEMMA QuietStep ==
    ASSUME PhaseInv, PointerInv, BoundInv,
           \/ RootEnds \/ RootStrtab \/ RootOther \/ ModuleEnds \/ ModuleStops
           \/ ModuleDefineAbbrev \/ ModuleSkips \/ NestedBlock \/ SkipNested
           \/ BlockDefinesAbbrev \/ BlockinfoRecord \/ DroppedRecord \/ EmptyRecord
           \/ BodyDefinesAbbrev \/ BodySkips
    PROVE  PointerInv' /\ BoundInv'
<1>1. UNCHANGED <<lt, m, arena, body, met, stale, mend>>
  BY DEF RootEnds, RootStrtab, RootOther, ModuleEnds, ModuleStops, ModuleDefineAbbrev,
     ModuleSkips, NestedBlock, SkipNested, BlockDefinesAbbrev, BlockinfoRecord, DroppedRecord,
     EmptyRecord, BodyDefinesAbbrev, BodySkips
<1>2. /\ pc' = pc \/ pc' \in {"names", "root", "inner", "nested"}
      /\ pc' \in Walks => \/ pc \in Walks /\ blk' = blk /\ fn' = fn
                          \/ blk'.id = "STRTAB"
      /\ pc' = "module" => pc = "module" /\ fn' = fn
      /\ pc' = "names" => pc # "names" /\ fn' = 1
  <2>1. CASE RootStrtab
    BY <2>1 DEF RootStrtab
  <2>2. CASE \/ RootEnds \/ RootOther \/ ModuleEnds \/ ModuleStops
    BY <2>2 DEF RootEnds, RootOther, ModuleEnds, ModuleStops, InModule, Walks
  <2>3. CASE \/ ModuleDefineAbbrev \/ ModuleSkips \/ BodyDefinesAbbrev \/ BodySkips
    BY <2>3 DEF ModuleDefineAbbrev, ModuleSkips, BodyDefinesAbbrev, BodySkips, InModule, InBody,
       Walks
  <2>4. CASE \/ NestedBlock \/ SkipNested \/ BlockDefinesAbbrev \/ BlockinfoRecord
             \/ DroppedRecord \/ EmptyRecord
    BY <2>4 DEF NestedBlock, SkipNested, BlockDefinesAbbrev, BlockinfoRecord, DroppedRecord,
       EmptyRecord, InBlock, Walks
  <2> QED  BY <2>1, <2>2, <2>3, <2>4
<1>3. PointerInv'
  BY <1>1, <1>2, StillPointers DEF Handed
<1>4. m \in Module
  BY DEF PointerInv
<1>5. InModuleWalk' => InModuleWalk /\ fn' = fn
  BY <1>2 DEF InModuleWalk
<1> QED  BY <1>1, <1>2, <1>3, <1>4, <1>5, BoundKept

\* A step of the walk that leaves the functions alone.
LEMMA WalkKeepsBound ==
    ASSUME PointerInv, BoundInv, m' \in Module, m'.fns = m.fns, m'.foff = m.foff,
           UNCHANGED <<fn, met, mend>>, InModuleWalk' => InModuleWalk, pc' # "names"
    PROVE  BoundInv'
<1>1. m \in Module
  BY DEF PointerInv
<1> QED  BY <1>1, BoundKept

\* Strings, the start of the walk and the module block.
LEMMA RootSteps ==
    ASSUME PhaseInv, PointerInv, BoundInv,
           lagfx_air_module_open \/ RootModule \/ ModuleString \/ StrtabRecord,
           ~lagfx_air_module_free
    PROVE  PointerInv' /\ BoundInv'
<1>0. /\ m \in Module /\ lt \in Table /\ ArenaOK(arena) /\ arena.used \in Nat
      /\ (m.fns # <<>> => m.foff # 0) /\ stale \subseteq {"VALUE_SYMTAB", "clear"}
  BY DEF PointerInv, PointersCurrent, ArenaOK
<1>1. CASE lagfx_air_module_open
  <2>1. /\ m' = [NoModule EXCEPT !.bits = arena.used] /\ pc' = "root"
        /\ arena' = arena_reserve(arena, BufLen)
        /\ UNCHANGED <<mend, blk, lt, body, met, stale>>
    BY <1>1 DEF lagfx_air_module_open
  <2>2. m' \in Module /\ m'.fns = <<>> /\ m'.foff = 0
    BY <1>0, <2>1, EmptyModule DEF Module
  <2>3. ArenaOK(arena')
    BY <1>0, <2>1, Reserve, ReaderAssumption
  <2>4. PointerInv'
    BY <1>0, <2>1, <2>2, <2>3, WalkingPointers DEF Handed, Walks
  <2>5. BoundInv'
    BY <2>1, <2>2 DEF BoundInv, BodiesBound, InModuleWalk, Walks
  <2> QED  BY <2>4, <2>5
<1>2. CASE RootModule
  <2>1. /\ pc = "root" /\ pc' = "module" /\ fn' = 1 /\ mend = 0
        /\ UNCHANGED <<blk, lt, m, arena, body, met, stale>>
    BY <1>2 DEF RootModule
  <2>2. mend' # 0
    <3>1. PICK e \in read_enter_subblock_payload : mend' = e
      BY <1>2 DEF RootModule
    <3>2. pos \in Nat /\ e \in Nat /\ pos < e
      BY Ends DEF PhaseInv
    <3> QED  BY <3>1, <3>2
  <2>3. m.fns = <<>> /\ met = <<>>
    BY <2>1 DEF BoundInv
  <2>4. PointerInv'
    BY <2>1, StillPointers DEF Handed, Walks
  <2>5. CursorOK'
    <3>1. Rank(m.fns, 0) = 0
      BY RankZero
    <3> QED  BY <2>1, <2>3, <3>1 DEF CursorOK
  <2>6. BodiesBound' /\ met' \in Seq(Nat)
    BY <2>1 DEF BoundInv, BodiesBound
  <2> QED  BY <2>1, <2>2, <2>3, <2>4, <2>5, <2>6 DEF BoundInv
<1>3. CASE ModuleString
  <2>1. /\ pc = "module" /\ arena' = arena_reserve(arena, 1)
        /\ UNCHANGED <<pc, mend, blk, lt, m, fn, body, met, stale>>
    BY <1>3 DEF ModuleString, InModule, OutOfMemory
  <2>2. ArenaOK(arena')
    BY <1>0, <2>1, Reserve
  <2>3. PointerInv'
    BY <1>0, <2>1, <2>2, WalkingPointers DEF Handed, Walks
  <2>4. InModuleWalk
    BY <2>1 DEF InModuleWalk
  <2>5. BoundInv'
    BY <1>0, <2>1, <2>4, WalkKeepsBound
  <2> QED  BY <2>3, <2>5
<1>4. CASE StrtabRecord
  <2>1. /\ pc = "inner" /\ arena' = arena_reserve(arena, 1) /\ blk.id = "STRTAB"
        /\ m' = [m EXCEPT !.strtab = arena.used]
        /\ UNCHANGED <<pc, mend, blk, lt, fn, body, met, stale>>
    BY <1>4 DEF StrtabRecord, InBlock, OutOfMemory
  <2>2. ArenaOK(arena')
    BY <1>0, <2>1, Reserve
  <2>3. m' \in Module /\ m'.fns = m.fns /\ m'.foff = m.foff
    BY <1>0, <2>1 DEF Module
  <2>4. PointerInv'
    BY <1>0, <2>1, <2>2, <2>3, WalkingPointers, Walkers DEF Handed
  <2>5. ~InModuleWalk'
    BY <2>1 DEF InModuleWalk
  <2>6. BoundInv'
    BY <2>1, <2>3, <2>5, WalkKeepsBound
  <2> QED  BY <2>4, <2>6
<1> QED  BY <1>1, <1>2, <1>3, <1>4

\* A table is begun, or handed to the module.
LEMMA BlockSteps ==
    ASSUME PhaseInv, PointerInv, BoundInv, EnterBlock \/ BlockEnds \/ TableFull,
           ~lagfx_air_module_free
    PROVE  PointerInv' /\ BoundInv'
<1>0. /\ m \in Module /\ lt \in Table /\ ArenaOK(arena)
      /\ (m.fns # <<>> => m.foff # 0) /\ stale \subseteq {"VALUE_SYMTAB", "clear"}
  BY DEF PointerInv, PointersCurrent
<1>1. CASE EnterBlock
  <2>1. /\ pc = "module" /\ pc' = "inner" /\ UNCHANGED <<mend, m, fn, body, met, stale>>
    BY <1>1 DEF EnterBlock, InModule, OutOfMemory
  <2>2. PICK id \in Walked, e \in read_enter_subblock_payload :
          LET a0 == IF id = "METADATA" THEN arena_reserve(arena, TableLen) ELSE arena
              a  == arena_reserve(a0, TableLen)
          IN  /\ blk' = [id |-> id, end |-> e]
              /\ IF WalkerOf(id).table
                 THEN /\ arena' = a
                      /\ lt' = NewTable(a0.used, a.gen)
                 ELSE UNCHANGED <<arena, lt>>
    BY <1>1 DEF EnterBlock, OutOfMemory
  <2>3. blk'.id = id
    BY <2>2
  <2>4. TableLen \in Nat
    BY ReaderAssumption
  <2>5. PICK a0 : a0 = IF id = "METADATA" THEN arena_reserve(arena, TableLen) ELSE arena
    OBVIOUS
  <2>6. ArenaOK(a0)
    <3>1. ArenaOK(arena_reserve(arena, TableLen))
      BY <1>0, <2>4, Reserve
    <3> QED  BY <1>0, <2>5, <3>1
  <2>7. PICK a : a = arena_reserve(a0, TableLen)
    OBVIOUS
  <2>8. ArenaOK(a) /\ a0.used \in Nat /\ a.gen \in Nat
    BY <2>4, <2>6, <2>7, Reserve DEF ArenaOK
  <2>9. IF WalkerOf(id).table THEN arena' = a /\ lt' = NewTable(a0.used, a.gen)
        ELSE UNCHANGED <<arena, lt>>
    BY <2>2, <2>5, <2>7
  <2>10. /\ ArenaOK(arena') /\ lt' \in Table
         /\ WalkerOf(id).table => lt'.gen = arena'.gen
    BY <1>0, <2>8, <2>9, FreshTable
  <2>11. PointerInv'
    BY <1>0, <2>1, <2>3, <2>10, WalkingPointers DEF Handed
  <2>12. InModuleWalk
    BY <2>1 DEF InModuleWalk
  <2>13. BoundInv'
    BY <1>0, <2>1, <2>12, WalkKeepsBound
  <2> QED  BY <2>11, <2>13
<1>2. CASE BlockEnds \/ TableFull
  <2>1. PICK p, broken : pc = "inner" /\ LeaveBlock(p, broken)
    BY <1>2 DEF BlockEnds, TableFull, InBlock
  <2>2. /\ m' = Committed /\ lt' = NoTable /\ pc' = IF blk.id = "STRTAB" THEN "root" ELSE "module"
        /\ blk' = NoBlock /\ UNCHANGED <<mend, arena, fn, body, met, stale>>
    BY <2>1 DEF LeaveBlock
  <2>3. m' \in Module /\ m'.fns = m.fns /\ m'.foff = m.foff
    BY <1>0, <2>2, CommittedModule
  <2>4. pc' \in {"root", "module"} /\ (pc' = "module" => InModuleWalk)
    BY <2>1, <2>2 DEF InModuleWalk, Walks
  <2>5. PointerInv'
    BY <1>0, <2>2, <2>3, <2>4, EmptyTable, WalkingPointers DEF Handed, Walks
  <2>6. InModuleWalk' => InModuleWalk
    BY <2>4 DEF InModuleWalk, Walks
  <2>7. BoundInv'
    BY <2>2, <2>3, <2>4, <2>6, WalkKeepsBound
  <2> QED  BY <2>5, <2>7
<1> QED  BY <1>1, <1>2

\* A record of a table: the walker's pointer is computed anew whenever it reserves.
LEMMA RecordSteps ==
    ASSUME PhaseInv, PointerInv, BoundInv,
           PlainRecord \/ InternedRecord \/ NameRecord \/ StringsRecord \/ SymtabRecord,
           ~lagfx_air_module_free
    PROVE  PointerInv' /\ BoundInv'
<1>0. /\ m \in Module /\ lt \in Table /\ ArenaOK(arena) /\ arena.gen \in Nat
      /\ (m.fns # <<>> => m.foff # 0) /\ stale \subseteq {"VALUE_SYMTAB", "clear"}
      /\ lt.n + 1 \in Nat /\ lt.inner \in SUBSET Nat /\ lt.strs \in Nat
  BY DEF PointerInv, PointersCurrent, ArenaOK, Table
<1>1. pc = "inner" /\ UNCHANGED <<pc, mend, blk, m, fn, body, met>>
  BY DEF PlainRecord, InternedRecord, NameRecord, StringsRecord, SymtabRecord, InBlock,
     OutOfMemory
<1>2. WalkerOf(blk.id).table /\ blk.id # "VALUE_SYMTAB" => lt.gen = arena.gen
  BY <1>1 DEF PointerInv, Walks
<1>3. BoundInv'
  <2>1. InModuleWalk' => InModuleWalk
    BY <1>1 DEF InModuleWalk
  <2> QED  BY <1>0, <1>1, <2>1, WalkKeepsBound
<1>4. /\ ArenaOK(arena') /\ lt' \in Table /\ stale' \subseteq {"VALUE_SYMTAB", "clear"}
      /\ WalkerOf(blk.id).table /\ blk.id # "VALUE_SYMTAB" => lt'.gen = arena'.gen
  <2>1. CASE PlainRecord
    <3>1. /\ lt' = [lt EXCEPT !.n = lt.n + 1] /\ arena' = arena /\ WalkerOf(blk.id).table
          /\ stale' = stale \cup Use(blk.id, lt.gen, arena)
      BY <2>1, Walkers DEF PlainRecord
    <3>2. lt' \in Table /\ lt'.gen = lt.gen
      BY <1>0, <3>1 DEF Table
    <3> QED  BY <1>0, <1>2, <3>1, <3>2 DEF Use
  <2>2. CASE InternedRecord
    <3>1. WalkerOf(blk.id).table /\ blk.id # "VALUE_SYMTAB"
      BY <2>2, Walkers DEF InternedRecord
    <3>2. PICK a : a = arena_reserve(arena, 1)
      OBVIOUS
    <3>3. ArenaOK(a) /\ a.gen \in Nat
      BY <1>0, <3>2, Reserve DEF ArenaOK
    <3>4. CASE /\ arena' = a
               /\ lt' = [lt EXCEPT !.n = @ + 1, !.gen = a.gen,
                                   !.inner = IF WalkerOf(blk.id).inner THEN @ \cup {a.gen} ELSE @]
               /\ stale' = stale \cup Use(blk.id, lt'.gen, a)
      <4>1. PICK inn : inn = IF WalkerOf(blk.id).inner THEN lt.inner \cup {a.gen} ELSE lt.inner
        OBVIOUS
      <4>2. inn \in SUBSET Nat
        BY <1>0, <3>3, <4>1
      <4>3. lt' = [lt EXCEPT !.n = lt.n + 1, !.gen = a.gen, !.inner = inn]
        BY <3>4, <4>1
      <4>4. lt' \in Table /\ lt'.gen = a.gen
        BY <1>0, <3>3, <4>2, <4>3 DEF Table
      <4> QED  BY <1>0, <3>3, <3>4, <4>4 DEF Use
    <3>5. CASE /\ lt' = [lt EXCEPT !.n = @ + 1] /\ arena' = arena
               /\ stale' = stale \cup Use(blk.id, lt.gen, arena)
      <4>1. lt' \in Table /\ lt'.gen = lt.gen
        BY <1>0, <3>5 DEF Table
      <4> QED  BY <1>0, <1>2, <3>1, <3>5, <4>1 DEF Use
    <3> QED  BY <2>2, <3>2, <3>4, <3>5 DEF InternedRecord, OutOfMemory
  <2>3. CASE NameRecord
    <3>1. PICK a : a = arena_reserve(arena, 1)
      OBVIOUS
    <3>2. /\ WalkerOf(blk.id).table /\ blk.id # "VALUE_SYMTAB"
          /\ arena' = a /\ lt' = [lt EXCEPT !.gen = a.gen]
          /\ stale' = stale \cup Use(blk.id, lt.gen, arena)
      BY <2>3, <3>1, Walkers DEF NameRecord, OutOfMemory
    <3>3. ArenaOK(a) /\ a.gen \in Nat
      BY <1>0, <3>1, Reserve DEF ArenaOK
    <3>4. lt' \in Table /\ lt'.gen = a.gen
      BY <1>0, <3>2, <3>3 DEF Table
    <3> QED  BY <1>0, <1>2, <3>2, <3>3, <3>4 DEF Use
  <2>4. CASE StringsRecord
    <3>1. PICK k \in 1..(TableLen - lt.strs) :
            /\ arena' = arena_reserve(arena, k)
            /\ lt' = [lt EXCEPT !.gen = arena_reserve(arena, k).gen, !.strs = @ + k]
            /\ stale' = stale
      BY <2>4 DEF StringsRecord, OutOfMemory
    <3>2. k \in Nat /\ lt.strs + k \in Nat
      BY <1>0, ReaderAssumption
    <3>3. ArenaOK(arena') /\ arena'.gen \in Nat
      BY <1>0, <3>1, <3>2, Reserve DEF ArenaOK
    <3>4. lt' = [lt EXCEPT !.gen = arena'.gen, !.strs = lt.strs + k]
      BY <3>1
    <3>5. lt' \in Table /\ lt'.gen = arena'.gen
      BY <1>0, <3>2, <3>3, <3>4 DEF Table
    <3> QED  BY <1>0, <3>1, <3>3, <3>5
  <2>5. CASE SymtabRecord
    <3>1. /\ blk.id = "VALUE_SYMTAB" /\ lt' = [lt EXCEPT !.n = lt.n + 1]
          /\ arena' = arena_reserve(arena, 1) \/ arena' = arena
          /\ stale' \subseteq stale \cup {"VALUE_SYMTAB"}
      BY <2>5 DEF SymtabRecord, Use
    <3>2. ArenaOK(arena')
      <4>1. ArenaOK(arena_reserve(arena, 1))
        BY <1>0, Reserve
      <4> QED  BY <1>0, <3>1, <4>1
    <3>3. lt' \in Table
      BY <1>0, <3>1 DEF Table
    <3> QED  BY <1>0, <3>1, <3>2, <3>3
  <2> QED  BY <2>1, <2>2, <2>3, <2>4, <2>5
<1>5. PointerInv'
  BY <1>0, <1>1, <1>4, WalkingPointers DEF Handed
<1> QED  BY <1>3, <1>5

\* The function table is used through a pointer that has just been derived.
LEMMA FunctionSteps ==
    ASSUME PhaseInv, PointerInv, BoundInv,
           ModuleFunction \/ ModuleFunctionBlock \/ ResolveName \/ ClearNames,
           ~lagfx_air_module_free
    PROVE  PointerInv' /\ BoundInv'
<1>0. /\ m \in Module /\ lt \in Table /\ ArenaOK(arena) /\ arena.gen \in Nat
      /\ (m.fns # <<>> => m.foff # 0) /\ stale \subseteq {"VALUE_SYMTAB", "clear"}
  BY DEF PointerInv, PointersCurrent, ArenaOK
<1>1. CASE ModuleFunction
  <2>1. /\ m' \in Module /\ BoundInv' /\ m'.foff # 0 /\ ArenaOK(arena')
        /\ pc' = "module" /\ blk' = blk /\ body' = body /\ lt' = lt /\ stale' = stale
    BY <1>0, <1>1, FunctionRecordStep
  <2> QED  BY <1>0, <2>1, WalkingPointers DEF Handed, Walks
<1>2. CASE ModuleFunctionBlock
  <2>1. m' \in Module /\ m'.foff = m.foff /\ (m'.fns = <<>> <=> m.fns = <<>>) /\ BoundInv'
    BY <1>0, <1>2, FunctionBlockStep
  <2>2. PICK d : d = derive_table_ptrs(m, arena.gen)
    OBVIOUS
  <2>3. /\ pc' = "module" /\ UNCHANGED <<lt, arena, body>>
        /\ stale' = stale \cup (IF m.fns = <<>> THEN {} ELSE Use("bind", d.fgen, arena))
    BY <1>2, <2>2 DEF ModuleFunctionBlock, InModule
  <2>4. m.fns # <<>> => d.fgen = arena.gen
    BY <1>0, <2>2, Derived
  <2>5. stale' = stale
    BY <2>3, <2>4 DEF Use
  <2> QED  BY <1>0, <2>1, <2>3, <2>5, WalkingPointers DEF Handed, Walks
<1>3. CASE ResolveName \/ ClearNames
  <2>1. m' \in Module /\ m'.foff = m.foff /\ (m'.fns = <<>> <=> m.fns = <<>>) /\ BoundInv'
    BY <1>0, <1>3, NamesStep
  <2>2. pc = "names" /\ pc' = "names" /\ fn <= Len(m.fns) /\ UNCHANGED <<lt, body>>
    BY <1>3 DEF ResolveName, ClearNames, OutOfMemory
  <2>3. m.foff # 0
    <3>1. fn \in Nat \ {0}
      BY <2>2 DEF BoundInv
    <3>2. m.fns # <<>>
      BY <2>2, <3>1
    <3> QED  BY <1>0, <3>2
  <2>4. ArenaOK(arena') /\ stale' \subseteq {"VALUE_SYMTAB", "clear"}
    <3>1. CASE ClearNames
      BY <1>0, <3>1 DEF ClearNames, Use
    <3>2. CASE ResolveName
      <4>1. PICK a : a = arena_reserve(arena, 1)
        OBVIOUS
      <4>2. ArenaOK(a) /\ a.gen \in Nat
        BY <1>0, <4>1, Reserve DEF ArenaOK
      <4>3. PICK d0, d1 : d0 = derive_table_ptrs(m, arena.gen) /\ d1 = derive_table_ptrs(m, a.gen)
        OBVIOUS
      <4>4. d0.fgen = arena.gen
        BY <1>0, <2>3, <4>3, Derived
      <4>5. d1 \in Module /\ d1.fgen = a.gen
        BY <1>0, <2>3, <4>2, <4>3, Derived
      <4>6. CASE arena' = arena /\ stale' = stale \cup Use("names", d0.fgen, arena)
        BY <1>0, <4>4, <4>6 DEF Use
      <4>7. CASE /\ arena' = a /\ stale' = stale \cup Use("names", m'.fgen, a)
                 /\ m' = [d1 EXCEPT !.fns[fn].name = "arena"]
        <5>1. m'.fgen = a.gen
          BY <4>5, <4>7 DEF Module
        <5> QED  BY <1>0, <4>2, <4>7, <5>1 DEF Use
      <4> QED  BY <3>2, <4>1, <4>3, <4>6, <4>7 DEF ResolveName, OutOfMemory
    <3> QED  BY <1>3, <3>1, <3>2
  <2> QED  BY <1>0, <2>1, <2>2, <2>3, <2>4, WalkingPointers DEF Handed, Walks
<1> QED  BY <1>1, <1>2, <1>3

\* The module is handed out with current pointers.
LEMMA MaterialiseStep ==
    ASSUME PointerInv, BoundInv, Materialise, ~lagfx_air_module_free
    PROVE  PointerInv' /\ BoundInv'
<1>0. /\ m \in Module /\ lt \in Table /\ ArenaOK(arena) /\ BodyOK(body)
      /\ (m.fns # <<>> => m.foff # 0) /\ stale \subseteq {"VALUE_SYMTAB", "clear"}
      /\ m.strings \in Nat
  BY DEF PointerInv, PointersCurrent, Module
<1>1. PICK a : a = arena_reserve(arena, m.strings)
  OBVIOUS
<1>2. PICK d : d = derive_table_ptrs(m, a.gen)
  OBVIOUS
<1>3. /\ arena' = a /\ pc = "names" /\ pc' = "open"
      /\ m' = [d EXCEPT !.metadata.gen = IF m.metadata.n > 0 THEN a.gen ELSE @]
      /\ UNCHANGED <<mend, blk, lt, fn, body, met, stale>>
  BY <1>1, <1>2 DEF Materialise, OutOfMemory
<1>4. ArenaOK(a) /\ a.gen \in Nat
  BY <1>0, <1>1, Reserve DEF ArenaOK
<1>5. /\ d \in Module /\ d.fns = m.fns /\ d.foff = m.foff /\ d.metadata = m.metadata
      /\ Current(d.types, a.gen) /\ Current(d.constants, a.gen) /\ Current(d.groups, a.gen)
      /\ m.foff # 0 => d.fgen = a.gen
  BY <1>0, <1>2, <1>4, Derived
<1>6. PICK g : g = IF m.metadata.n > 0 THEN a.gen ELSE m.metadata.gen
  OBVIOUS
<1>7. m.metadata \in Table
  BY <1>0 DEF Module
<1>8. g \in Nat
  BY <1>4, <1>6, <1>7 DEF Table
<1>9. PICK z : z = [m.metadata EXCEPT !.gen = g]
  OBVIOUS
<1>10. z \in Table /\ z.n = m.metadata.n /\ z.gen = g
  BY <1>7, <1>8, <1>9 DEF Table
<1>11. m' = [d EXCEPT !.metadata = z]
  BY <1>3, <1>5, <1>6, <1>9
<1>12. /\ m' \in Module /\ m'.fns = m.fns /\ m'.foff = m.foff /\ m'.metadata = z
       /\ m'.types = d.types /\ m'.constants = d.constants /\ m'.groups = d.groups
       /\ m'.fgen = d.fgen
  BY <1>5, <1>10, <1>11 DEF Module
<1>13. PointersCurrent'
  <2>1. m'.metadata.n > 0 => m'.metadata.gen = arena'.gen
    BY <1>3, <1>6, <1>10, <1>12
  <2>2. m'.fns # <<>> => m'.fgen = arena'.gen
    BY <1>0, <1>3, <1>5, <1>12
  <2>3. /\ Current(m'.types, arena'.gen) /\ Current(m'.constants, arena'.gen)
        /\ Current(m'.groups, arena'.gen)
    BY <1>3, <1>5, <1>12
  <2> HIDE DEF Current
  <2> QED  BY <1>0, <1>3, <2>1, <2>2, <2>3 DEF PointersCurrent
<1>14. PointerInv'
  BY <1>0, <1>3, <1>4, <1>12, <1>13 DEF PointerInv, Walks
<1>15. BoundInv'
  <2>1. ~InModuleWalk'
    BY <1>3 DEF InModuleWalk, Walks
  <2> QED  BY <1>0, <1>3, <1>12, <2>1, BoundKept
<1> QED  BY <1>14, <1>15

\* After that the module and its arena stay as they are.
LEMMA HandedOut ==
    ASSUME PointerInv, BoundInv, pc \in Handed, pc' \in Handed,
           UNCHANGED <<m, arena, mend, met>>, lt' \in Table, BodyOK(body'),
           stale' \subseteq {"VALUE_SYMTAB", "clear"},
           pc' # "open" => body'.igen = body'.arena.gen,
           pc' = "decoded" => body'.ops \subseteq {body'.arena.gen}
    PROVE  PointerInv' /\ BoundInv'
<1>0. m \in Module
  BY DEF PointerInv
<1>1. ~InModuleWalk' /\ pc' # "names" /\ pc' \notin Walks
  BY DEF InModuleWalk, Walks, Handed
<1>2. BoundInv'
  BY <1>0, <1>1, BoundKept
<1>3. PointersCurrent'
  BY DEF PointerInv, PointersCurrent, Handed
<1> QED  BY <1>1, <1>2, <1>3 DEF PointerInv

\* Room for k words in a body's arena.
LEMMA BodyRoom ==
    ASSUME BodyOK(body), NEW k \in Nat, NEW a,
           a = IF k > 0 THEN arena_reserve(body.arena, k) ELSE body.arena
    PROVE  ArenaOK(a) /\ a.gen \in Nat
<1>1. ArenaOK(body.arena)
  BY DEF BodyOK
<1>2. ArenaOK(arena_reserve(body.arena, k))
  BY <1>1, Reserve
<1>3. ArenaOK(a)
  BY <1>1, <1>2
<1> QED  BY <1>3 DEF ArenaOK

\* Every use of a body's tables is through a pointer into its arena as it is.
LEMMA BodySteps ==
    ASSUME PhaseInv, PointerInv, BoundInv,
           \/ lagfx_air_function_body_open \/ BodyInstruction \/ BodyConstants
           \/ LocalConstant \/ LocalConstantsEnd \/ BodyEnds
           \/ lagfx_air_function_body_free
    PROVE  PointerInv' /\ BoundInv'
<1>0. /\ m \in Module /\ lt \in Table /\ ArenaOK(arena) /\ BodyOK(body)
      /\ stale \subseteq {"VALUE_SYMTAB", "clear"}
      /\ pc \in Handed => (m.fns # <<>> => m.fgen = arena.gen)
      /\ pc \in {"body", "local"} => body.igen = body.arena.gen
  BY DEF PointerInv, PointersCurrent, Handed
<1>a. /\ ArenaOK(body.arena) /\ body.arena.gen \in Nat /\ body.arena.used \in Nat
      /\ body \in [fn : Nat, end : Nat, arena : {body.arena}, ioff : Nat, igen : Nat,
                   ops : SUBSET Nat, n : Nat, lcoff : Nat, lcn : Nat]
      /\ body.n + 1 \in Nat /\ body.igen \in Nat /\ body.ops \in SUBSET Nat
      /\ lt.n \in Nat /\ lt.n + 1 \in Nat /\ lt.off \in Nat
  <2>1. /\ ArenaOK(body.arena)
        /\ body \in [fn : Nat, end : Nat, arena : {body.arena}, ioff : Nat, igen : Nat,
                     ops : SUBSET Nat, n : Nat, lcoff : Nat, lcn : Nat]
    BY <1>0 DEF BodyOK
  <2>2. body.arena.gen \in Nat /\ body.arena.used \in Nat
    BY <2>1 DEF ArenaOK
  <2>3. body.n + 1 \in Nat /\ body.igen \in Nat /\ body.ops \in SUBSET Nat
    BY <2>1
  <2>4. lt.n \in Nat /\ lt.n + 1 \in Nat /\ lt.off \in Nat
    BY <1>0 DEF Table
  <2> QED  BY <2>1, <2>2, <2>3, <2>4
<1>b. TableLen \in Nat
  BY ReaderAssumption
<1>1. CASE lagfx_air_function_body_open
  <2>1. PICK a0 : a0 = arena_init(BodyCap)
    OBVIOUS
  <2>2. PICK a1 : a1 = arena_reserve(a0, TableLen)
    OBVIOUS
  <2>3. PICK i \in DOMAIN m.fns :
          /\ body' = [NoBody EXCEPT !.fn = i, !.end = m.fns[i].end, !.arena = a1,
                                    !.ioff = a0.used, !.igen = a1.gen]
          /\ stale' = stale \cup Use("body", m.fgen, arena)
    BY <1>1, <2>1, <2>2 DEF lagfx_air_function_body_open
  <2>4. pc = "open" /\ pc' = "body" /\ UNCHANGED <<mend, lt, m, arena, met>>
    BY <1>1 DEF lagfx_air_function_body_open
  <2>5. ArenaOK(a1) /\ a0.used \in Nat /\ a1.gen \in Nat
    <3>1. ArenaOK(a0)
      BY <2>1, InitialArena
    <3> QED  BY <1>b, <2>2, <3>1, Reserve DEF ArenaOK
  <2>6. i \in Nat /\ m.fns[i].end \in Nat /\ m.fns # <<>>
    <3>1. m.fns \in Seq(FnRec)
      BY <1>0 DEF Module
    <3>2. m.fns[i] \in FnRec /\ i \in Nat /\ m.fns # <<>>
      BY <3>1
    <3> QED  BY <3>2 DEF FnRec
  <2>7. PICK e \in Nat : e = m.fns[i].end
    BY <2>6
  <2>8. body' = [NoBody EXCEPT !.fn = i, !.end = e, !.arena = a1, !.ioff = a0.used,
                               !.igen = a1.gen]
    BY <2>3, <2>7
  <2>9. BodyOK(body') /\ body'.igen = a1.gen /\ body'.arena = a1
    BY <2>5, <2>6, <2>8 DEF NoBody, BodyOK
  <2>10. stale' = stale
    BY <1>0, <2>3, <2>4, <2>6 DEF Use, Handed
  <2> QED  BY <1>0, <2>4, <2>9, <2>10, HandedOut DEF Handed
<1>2. CASE BodyInstruction
  <2>1. PICK k \in 0..1 :
          LET a == IF k > 0 THEN arena_reserve(body.arena, k) ELSE body.arena
          IN  /\ body' = [body EXCEPT !.arena = a, !.n = @ + 1,
                                      !.igen = IF k > 0 THEN a.gen ELSE @,
                                      !.ops = IF k > 0 THEN @ \cup {a.gen} ELSE @]
              /\ stale' = stale \cup Use("instruction", body'.igen, a)
    BY <1>2 DEF BodyInstruction
  <2>2. pc = "body" /\ UNCHANGED <<pc, mend, lt, m, arena, met>>
    BY <1>2 DEF BodyInstruction, InBody
  <2>3. PICK a : a = IF k > 0 THEN arena_reserve(body.arena, k) ELSE body.arena
    OBVIOUS
  <2>4. ArenaOK(a) /\ a.gen \in Nat
    <3>1. k \in Nat
      OBVIOUS
    <3> QED  BY <1>0, <2>3, <3>1, BodyRoom
  <2>5. (IF k > 0 THEN a.gen ELSE body.igen) = a.gen
    BY <1>0, <2>2, <2>3
  <2>6. PICK o : o = IF k > 0 THEN body.ops \cup {a.gen} ELSE body.ops
    OBVIOUS
  <2>7. o \in SUBSET Nat
    BY <1>a, <2>4, <2>6
  <2>8. body' = [body EXCEPT !.arena = a, !.n = body.n + 1, !.igen = a.gen, !.ops = o]
    BY <2>1, <2>3, <2>5, <2>6
  <2>9. BodyOK(body') /\ body'.igen = a.gen /\ body'.arena = a
    BY <1>a, <2>4, <2>7, <2>8 DEF BodyOK
  <2>10. stale' = stale
    BY <2>1, <2>3, <2>9 DEF Use
  <2> QED  BY <1>0, <2>2, <2>9, <2>10, HandedOut DEF Handed
<1>3. CASE BodyConstants
  <2>1. PICK a : a = arena_reserve(body.arena, TableLen)
    OBVIOUS
  <2>2. /\ lt' = NewTable(body.arena.used, a.gen)
        /\ body' = [body EXCEPT !.arena = a, !.igen = a.gen]
        /\ pc = "body" /\ pc' = "local" /\ UNCHANGED <<mend, m, arena, met, stale>>
    BY <1>3, <2>1 DEF BodyConstants, InBody
  <2>3. ArenaOK(a) /\ a.gen \in Nat
    BY <1>a, <1>b, <2>1, Reserve DEF ArenaOK
  <2>4. BodyOK(body') /\ body'.igen = a.gen /\ body'.arena = a
    BY <1>a, <2>2, <2>3 DEF BodyOK
  <2>5. lt' \in Table
    BY <1>a, <2>2, <2>3, FreshTable
  <2> QED  BY <1>0, <2>2, <2>4, <2>5, HandedOut DEF Handed
<1>4. CASE LocalConstant
  <2>1. PICK k \in 0..1 :
          LET a == IF k > 0 THEN arena_reserve(body.arena, k) ELSE body.arena
          IN  /\ lt' = [lt EXCEPT !.n = @ + 1, !.gen = a.gen]
              /\ body' = [body EXCEPT !.arena = a, !.igen = IF k > 0 THEN a.gen ELSE @]
              /\ stale' = stale \cup Use("local constant", lt'.gen, a)
    BY <1>4 DEF LocalConstant
  <2>2. pc = "local" /\ UNCHANGED <<pc, mend, m, arena, met>>
    BY <1>4 DEF LocalConstant
  <2>3. PICK a : a = IF k > 0 THEN arena_reserve(body.arena, k) ELSE body.arena
    OBVIOUS
  <2>4. ArenaOK(a) /\ a.gen \in Nat
    <3>1. k \in Nat
      OBVIOUS
    <3> QED  BY <1>0, <2>3, <3>1, BodyRoom
  <2>5. (IF k > 0 THEN a.gen ELSE body.igen) = a.gen
    BY <1>0, <2>2, <2>3
  <2>6. body' = [body EXCEPT !.arena = a, !.igen = a.gen]
    BY <2>1, <2>3, <2>5
  <2>7. BodyOK(body') /\ body'.igen = a.gen /\ body'.arena = a
    BY <1>a, <2>4, <2>6 DEF BodyOK
  <2>8. lt' = [lt EXCEPT !.n = lt.n + 1, !.gen = a.gen]
    BY <2>1, <2>3
  <2>9. lt' \in Table /\ lt'.gen = a.gen
    BY <1>0, <1>a, <2>4, <2>8 DEF Table
  <2>10. stale' = stale
    BY <2>1, <2>3, <2>9 DEF Use
  <2> QED  BY <1>0, <2>2, <2>7, <2>9, <2>10, HandedOut DEF Handed
<1>5. CASE LocalConstantsEnd
  <2>1. /\ body' = [body EXCEPT !.lcoff = lt.off, !.lcn = lt.n] /\ lt' = NoTable
        /\ pc = "local" /\ pc' = "body" /\ UNCHANGED <<mend, m, arena, met, stale>>
    BY <1>5 DEF LocalConstantsEnd
  <2>2. BodyOK(body') /\ body'.igen = body.igen /\ body'.arena = body.arena
    BY <1>a, <2>1 DEF BodyOK
  <2> QED  BY <1>0, <2>1, <2>2, EmptyTable, HandedOut DEF Handed
<1>6. CASE BodyEnds
  <2>1. PICK o : o = IF body.ops = {} THEN {} ELSE {body.arena.gen}
    OBVIOUS
  <2>2. /\ body' = [body EXCEPT !.ops = o] /\ pc = "body" /\ pc' = "decoded"
        /\ stale' = stale \cup Use("operands", body.igen, body.arena)
        /\ UNCHANGED <<mend, lt, m, arena, met>>
    BY <1>6, <2>1 DEF BodyEnds
  <2>3. o \in SUBSET Nat /\ o \subseteq {body.arena.gen}
    BY <1>a, <2>1
  <2>4. /\ BodyOK(body') /\ body'.igen = body.igen /\ body'.arena = body.arena
        /\ body'.ops = o
    BY <1>a, <2>2, <2>3 DEF BodyOK
  <2>5. stale' = stale
    BY <1>0, <2>2 DEF Use
  <2> QED  BY <1>0, <2>2, <2>3, <2>4, <2>5, HandedOut DEF Handed
<1>7. CASE lagfx_air_function_body_free
  <2>1. /\ body' = NoBody /\ pc = "decoded" /\ pc' = "open"
        /\ UNCHANGED <<mend, lt, m, arena, met, stale>>
    BY <1>7 DEF lagfx_air_function_body_free
  <2>2. BodyOK(body')
    BY <2>1, EmptyBody
  <2> QED  BY <1>0, <2>1, <2>2, HandedOut DEF Handed
<1> QED  BY <1>1, <1>2, <1>3, <1>4, <1>5, <1>6, <1>7

-----------------------------------------------------------------------------
LEMMA ReaderStepKeeps == ReaderInv /\ [ReaderNext]_readerVars => ReaderInv'
<1> SUFFICES ASSUME ReaderInv, [ReaderNext]_readerVars PROVE ReaderInv'
  OBVIOUS
<1>0. PhaseInv /\ AbbrevInv /\ PointerInv /\ BoundInv /\ m \in Module
  BY DEF ReaderInv, PointerInv
<1>1. CASE lagfx_air_module_free
  BY <1>1, FreeReader
<1>2. CASE ReaderNext /\ ~lagfx_air_module_free
  <2>1. PhaseInv' /\ AbbrevInv'
    BY <1>0, <1>2, PhaseStep, AbbrevStep
  <2>2. PointerInv' /\ BoundInv'
    <3>1. CASE \/ RootEnds \/ RootStrtab \/ RootOther \/ ModuleEnds \/ ModuleStops
               \/ ModuleDefineAbbrev \/ ModuleSkips \/ NestedBlock \/ SkipNested
               \/ BlockDefinesAbbrev \/ BlockinfoRecord \/ DroppedRecord \/ EmptyRecord
               \/ BodyDefinesAbbrev \/ BodySkips
      BY <1>0, <3>1, QuietStep
    <3>2. CASE lagfx_air_module_open \/ RootModule \/ ModuleString \/ StrtabRecord
      BY <1>0, <1>2, <3>2, RootSteps
    <3>3. CASE EnterBlock \/ BlockEnds \/ TableFull
      BY <1>0, <1>2, <3>3, BlockSteps
    <3>4. CASE PlainRecord \/ InternedRecord \/ NameRecord \/ StringsRecord \/ SymtabRecord
      BY <1>0, <1>2, <3>4, RecordSteps
    <3>5. CASE ModuleFunction \/ ModuleFunctionBlock \/ ResolveName \/ ClearNames
      BY <1>0, <1>2, <3>5, FunctionSteps
    <3>6. CASE Materialise
      BY <1>0, <1>2, <3>6, MaterialiseStep
    <3>7. CASE \/ lagfx_air_function_body_open \/ BodyInstruction \/ BodyConstants
               \/ LocalConstant \/ LocalConstantsEnd \/ BodyEnds
               \/ lagfx_air_function_body_free
      BY <1>0, <3>7, BodySteps
    <3>8. CASE RootRefused \/ CloseModule
      BY <1>2, <3>8 DEF RootRefused, CloseModule
    <3> QED
      BY <1>2, <3>1, <3>2, <3>3, <3>4, <3>5, <3>6, <3>7, <3>8 DEF ReaderNext, Walk, WalkBlock
  <2> QED  BY <2>1, <2>2 DEF ReaderInv
<1>3. CASE UNCHANGED readerVars
  BY <1>0, <1>3
  DEF readerVars, ReaderInv, PhaseInv, AbbrevInv, AbbrevsAgree, PointerInv, PointersCurrent,
      BoundInv, BodiesBound, InModuleWalk, CursorOK
<1> QED  BY <1>1, <1>2, <1>3

LEMMA ReaderInvariant == ReaderSpec => []ReaderInv
<1>1. ReaderInit => ReaderInv
  BY ReaderInitially
<1>2. ReaderInv /\ [ReaderNext]_readerVars => ReaderInv'
  BY ReaderStepKeeps
<1> QED  BY <1>1, <1>2, PTL DEF ReaderSpec

\* No table is used through a pointer into an arena that has been reallocated since, and
\* what the reader hands out points into the arena as it is, for every capacity of the
\* arenas and the tables.
THEOREM PointersCurrentAlways == ReaderSpec => []PointersCurrent
<1>1. ReaderInv => PointersCurrent
  BY DEF ReaderInv, PointerInv
<1> QED  BY <1>1, ReaderInvariant, PTL

\* Entry i of the function table is the struct of the i-th FUNCTION record, and the k-th
\* FUNCTION_BLOCK is bound to the k-th function that has a body.
THEOREM BodiesBoundAlways == ReaderSpec => []BodiesBound
<1>1. ReaderInv => BodiesBound
  BY DEF ReaderInv, BoundInv
<1> QED  BY <1>1, ReaderInvariant, PTL

\* The reader's abbreviation tables are the producer's, as long as it has not lost its
\* place and the producer keeps to the cap.
THEOREM AbbrevsAgreeAlways == ReaderSpec => []AbbrevsAgree
<1>1. ReaderInv => AbbrevsAgree
  BY DEF ReaderInv, AbbrevInv
<1> QED  BY <1>1, ReaderInvariant, PTL
=============================================================================
