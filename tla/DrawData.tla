------------------------------ MODULE DrawData ------------------------------
(***************************************************************************)
(* The computations of a draw: where the bytes of a guest buffer lie, how  *)
(* vertices are laid out, how large a texture is and which part of the     *)
(* target is drawn to.  Pure functions, used by EncoderState.              *)
(***************************************************************************)
EXTENDS Integers, Sequences, FiniteSets, SequencesExt

Smaller(a, b) == IF a < b THEN a ELSE b

-----------------------------------------------------------------------------
(* Placement.  A buffer is described by four entries {size, page frame};   *)
(* sizes and offsets are the guest's and their sums are those of u64.      *)

CONSTANTS
    MinPfn, MaxPfn,   \* 0x10 and 0xfffff
    PageWords,        \* bound: words in a page (1024)
    Wide,             \* u64 arithmetic is modulo this
    Word              \* u32 arithmetic is modulo this

ASSUME PfnAssumption ==
    /\ MinPfn \in Nat /\ MaxPfn \in Nat
    /\ PageWords \in Nat \ {0} /\ Wide \in Nat /\ Wide > 2 /\ Word \in Nat \ {0}

UsableEntry(e) == e.pfn >= MinPfn /\ e.pfn <= MaxPfn /\ e.size # 0

\* The address of a word of an entry, counted from 0.
WordAt(e, n) == (e.pfn * PageWords + n) % Wide

\* One iteration of the placement loop.  The state: the entries passed (acc), the
\* logical offset of the next word, how many are still to be read and the addresses
\* read so far.  A read that fails, because an address is in bad, ends the loop.
PlacementStepRaw(bad, st, e) ==
    LET sum    == (st.acc + e.size) % Wide
        within == st.logical
        chunk  == Smaller((e.size - within) % Wide, st.left)
        part   == [k \in 1 .. chunk |-> WordAt(e, within + k - 1)]
    IN  IF ~UsableEntry(e) \/ st.left = 0 THEN st
        ELSE IF st.logical >= sum THEN [st EXCEPT !.acc = sum]
        ELSE IF \E k \in 1 .. chunk : part[k] \in bad THEN [st EXCEPT !.left = 0]
        ELSE [acc |-> sum, logical |-> (st.logical + chunk) % Wide, left |-> st.left - chunk,
              out |-> st.out \o part]

PlacementStep(bad, st, e) ==
    LET sum    == (st.acc + e.size) % Wide
        within == (st.logical - st.acc) % Wide
        chunk  == Smaller((e.size - within) % Wide, st.left)
        part   == [k \in 1 .. chunk |-> WordAt(e, within + k - 1)]
    IN  IF ~UsableEntry(e) \/ st.left = 0 THEN st
        ELSE IF st.logical >= sum THEN [st EXCEPT !.acc = sum]
        ELSE IF \E k \in 1 .. chunk : part[k] \in bad THEN [st EXCEPT !.left = 0]
        ELSE [acc |-> sum, logical |-> (st.logical + chunk) % Wide, left |-> st.left - chunk,
              out |-> st.out \o part]

\* A buffer as lagfx_read_vtx_source finds it: the address of a backing update recorded
\* for it (none, or not asked for: NoBacking), its descriptor (empty when the reference
\* does not resolve or cannot be read) and the addresses that cannot be read, of the
\* backing and of the placement.
NoBacking == -1
BackingWords(src, offset, want) == [k \in 1 .. want |-> (src.backing + offset + k - 1) % Wide]

BackingReadable(src, offset, want) ==
    /\ src.backing # NoBacking
    /\ \A k \in 1 .. want : BackingWords(src, offset, want)[k] \notin src.badVa

\* The addresses lagfx_read_vtx_source reads for want words at an offset: the backing's,
\* or else what the placement has.
lagfx_read_vtx_source(src, offset, want) ==
    LET placed[i \in 0 .. Len(src.desc)] ==
          IF i = 0 THEN [acc |-> 0, logical |-> offset, left |-> want, out |-> <<>>]
          ELSE PlacementStep(src.bad, placed[i - 1], src.desc[i])
    IN  IF BackingReadable(src, offset, want) THEN BackingWords(src, offset, want)
        ELSE placed[Len(src.desc)].out

\* What the addresses should be: the usable entries, one after the other.
EntryWords(e) ==
    IF UsableEntry(e) THEN [k \in 1 .. e.size |-> WordAt(e, k - 1)] ELSE <<>>

BufferWords(desc) ==
    LET words[i \in 0 .. Len(desc)] == IF i = 0 THEN <<>> ELSE words[i - 1] \o EntryWords(desc[i])
    IN  words[Len(desc)]

-----------------------------------------------------------------------------
(* Vertices.  A shader's inputs are the component counts of its attributes. *)

\* Bytes of the first n, one after the other.
Tight(in, n) ==
    LET bytes[i \in 0 .. Len(in)] == IF i = 0 THEN 0 ELSE bytes[i - 1] + 4 * in[i]
    IN  bytes[n]

\* Formats lagfx_pipeline_build knows.
KnownFormats == {3, 9, 28, 29, 30, 31, 37, 52}

\* The attributes given to the pipeline: those of the state's descriptor, with a
\* position added in front when the descriptor starts past it, or none.
PsoAttributes(in, attrs) ==
    IF attrs = <<>> THEN <<>>
    ELSE IF attrs[1].off # 0
    THEN IF Len(attrs) < 8 /\ Len(attrs) + 1 = Len(in)
         THEN <<[fmt |-> 31, off |-> 0]>> \o attrs ELSE <<>>
    ELSE attrs

\* Attribute offsets of the pipeline: the descriptor's when every input has a known
\* one, the inputs packed one after the other otherwise.
AttributeOffsets(in, attrs) ==
    LET pso == PsoAttributes(in, attrs)
        known == Len(pso) >= Len(in) /\ \A a \in 1 .. Len(in) : pso[a].fmt \in KnownFormats
    IN  [a \in 1 .. Len(in) |->
            IF known THEN pso[a].off ELSE Tight(in, a - 1)]

\* The distance of two vertices lagfx_pipeline_build settles on: the descriptor's when
\* it is plausible, the packed inputs rounded up to 8 bytes otherwise.
VertexStride(in, stride) ==
    LET off == Tight(in, Len(in))
    IN  IF stride >= off /\ stride <= 256 THEN stride ELSE 8 * ((off + 7) \div 8)

-----------------------------------------------------------------------------
(* Textures and regions. *)

\* Bytes of a texel, and whether the row length and the height of the descriptor can be
\* used for a backing of want bytes and make a row of at least one texel.
TexelBytes(bpp) == IF bpp = 8 THEN 8 ELSE IF bpp = 1 THEN 1 ELSE 4

FromRows(want, stride, height, bpp) ==
    stride >= 4 /\ (stride % 4 = 0 \/ bpp = 1) /\ height > 0 /\ want \div stride > 0
    /\ stride \div TexelBytes(bpp) > 0

\* Width and height lagfx_texture_realize gives an image: rows as described, as many as
\* fit; or the first width of a list that divides the size with a plausible aspect; or
\* 64 wide.  <<0, 0>> when it gives up.
TextureExtent(want, stride, height, bpp) ==
    LET npx    == want \div 4
        widths == <<64, 128, 32, 256, 16, 512, 1280, 1920, 1024, 2048>>
        fits   == {i \in 1 .. Len(widths) :
                      /\ npx % widths[i] = 0
                      /\ 10 * widths[i] >= 4 * (npx \div widths[i])
                      /\ 10 * widths[i] <= 25 * (npx \div widths[i])}
        first  == widths[CHOOSE i \in fits : \A j \in fits : i <= j]
        extent == IF FromRows(want, stride, height, bpp)
                  THEN <<stride \div TexelBytes(bpp), Smaller(height, want \div stride)>>
                  ELSE IF fits # {} THEN <<first, npx \div first>>
                  ELSE <<64, IF npx \div 64 = 0 THEN 1 ELSE npx \div 64>>
    IN  IF \E d \in 1 .. 2 : extent[d] = 0 \/ extent[d] > 16384 THEN <<0, 0>> ELSE extent

\* The viewport or scissor of a draw: a rectangle that starts inside the target is
\* cut at its edges, any other is replaced by the whole target.  The far edge is a sum
\* of two u32.
Whole(t) == [x |-> 0, y |-> 0, w |-> t.w, h |-> t.h]

DrawRect(r, t) ==
    IF r.w = 0 \/ r.x >= t.w \/ r.y >= t.h THEN Whole(t)
    ELSE [r EXCEPT !.w = IF (r.x + @) % Word > t.w THEN t.w - r.x ELSE @,
                   !.h = IF (r.y + @) % Word > t.h THEN t.h - r.y ELSE @]
=============================================================================
