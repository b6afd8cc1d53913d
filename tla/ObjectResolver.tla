--------------------------- MODULE ObjectResolver ---------------------------
(***************************************************************************)
(* protocol/object_resolver.c: from an object id to the object's bytes,    *)
(* through the slot table of the task's heap, and the decoding of pipeline *)
(* descriptors (function references, vertex attributes, vertex stride).    *)
(* A descriptor is the sequence of its bytes where the code scans bytes,   *)
(* and the sequence of its tagged fields where it matches whole fields.    *)
(***************************************************************************)
EXTENDS GuestMemory, FiniteSets, SequencesExt

CONSTANTS
    HeapPfn,    \* task->heap_pfn
    Ids,        \* object ids commands use
    Functions,  \* ids whose slot has type LAGFX_APV_TYPE_FUNCTION
    Bodies,     \* lengths of info command bodies
    Offsets,    \* reply offsets
    Objects,    \* what the slot of an object and its data can hold
    Descs,      \* descriptors, as bytes
    Attrs,      \* descriptors, as attribute entries [fmt, off, buf]
    Strides,    \* descriptors, as fields [val, tag]
    PairWindow, \* 128: bytes the older lookup of references reads
    MinTotal,   \* 16: shorter descriptor lengths are implausible
    RefCap,     \* 16: room for function references
    AttrCap,    \* 8: room for attributes
    MaxLib      \* 16 MiB: longer metallibs are refused

ASSUME ResolverAssumption ==
    /\ HeapPfn \in Nat /\ Ids \subseteq Nat /\ Functions \subseteq Nat
    /\ Bodies \subseteq Nat /\ Offsets \subseteq Nat
    /\ \A o \in Objects : o.next \in Nat /\ o.len \in Nat
    /\ Descs \subseteq Seq(Nat)
    /\ Attrs \subseteq Seq([fmt : Nat, off : Nat, buf : Nat])
    /\ Strides \subseteq Seq([val : Nat, tag : Nat])
    /\ PairWindow \in Nat /\ MinTotal \in Nat
    /\ RefCap \in Nat /\ RefCap >= 2 /\ AttrCap \in Nat \ {0} /\ MaxLib \in Nat

VARIABLES obj, desc, attrs, strides

resolverVars == <<memVars, obj, desc, attrs, strides>>
inputVars == <<obj, desc, attrs, strides>>

FUNCTION == 6   \* LAGFX_APV_TYPE_FUNCTION
PIPELINE == 7   \* LAGFX_APV_TYPE_PIPELINE

-----------------------------------------------------------------------------

Readable(va) == task_translate(table, va) # None /\ Accepts(task_translate(table, va))

\* lagfx_lookup_function_bytes: slot, the word pair it points at, and the metallib
\* that points at; each address is translated and each read may fail.  The
\* metallib's virtual address is returned because its pages are scattered.
lookup_function_bytes(id, o) ==
    IF /\ HeapPfn # 0
       /\ Readable(PageSize * HeapPfn + SlotWords * id)
       /\ o.type = FUNCTION
       /\ Readable(o.bytes) /\ o.next # 0
       /\ Readable(o.next) /\ o.magic
       /\ o.len > 0 /\ o.len <= MaxLib
    THEN [ok |-> TRUE, va |-> o.next, len |-> o.len, gpa |-> task_translate(table, o.next)]
    ELSE [ok |-> FALSE, va |-> 0, len |-> 0, gpa |-> None]

\* lagfx_resolve_object_data: the type and the data address of any object; data
\* that is not mapped is address 0.
resolve_object_data(id, o) ==
    IF HeapPfn # 0 /\ Readable(PageSize * HeapPfn + SlotWords * id)
    THEN [ok |-> TRUE, type |-> o.type, va |-> o.bytes,
          gpa |-> IF o.bytes # 0 /\ task_translate(table, o.bytes) # None
                  THEN task_translate(table, o.bytes) ELSE 0]
    ELSE [ok |-> FALSE, type |-> 0, va |-> 0, gpa |-> 0]

\* The function references in a descriptor: byte 4 is followed by an object id.
Candidate(d, i) == d[i] = 4 /\ i < Len(d) /\ d[i + 1] # 0 /\ d[i + 1] \in Functions

scan_refs_with_duplicates(d, cap) ==
    LET at == {i \in 1 .. Len(d) : Candidate(d, i)}
    IN  SubSeq([k \in 1 .. Cardinality(at) |-> d[SetToSortSeq(at, <)[k] + 1]],
               1, IF Cardinality(at) < cap THEN Cardinality(at) ELSE cap)

\* lagfx_scan_descriptor_function_refs: distinct references in the order of
\* their first occurrence, until out is full.
TakeRef(d, cap, out, i) ==
    IF Len(out) < cap /\ Candidate(d, i) /\ ~Contains(out, d[i + 1])
    THEN Append(out, d[i + 1]) ELSE out

scan_descriptor_function_refs(d, cap) ==
    LET scan[i \in 0 .. Len(d)] ==
            IF i = 0 THEN <<>> ELSE TakeRef(d, cap, scan[i - 1], i)
    IN  scan[Len(d)]

\* The first reference and the first one that differs from it.
FirstTwo(d) ==
    LET at == {i \in 1 .. Len(d) : Candidate(d, i)}
        v == {i \in at : \A j \in at : i <= j}
        other == {i \in at : \E k \in v : k < i /\ d[i + 1] # d[k + 1]}
        f == {i \in other : \A j \in other : i <= j}
    IN  [vertex |-> IF v = {} THEN 0 ELSE d[(CHOOSE i \in v : TRUE) + 1],
         fragment |-> IF f = {} THEN 0 ELSE d[(CHOOSE i \in f : TRUE) + 1]]

\* lagfx_lookup_pipeline_function_refs: the older lookup, which reads the first 128
\* bytes whatever the length of the descriptor.
lookup_pipeline_function_refs(d) ==
    FirstTwo(SubSeq(d, 1, IF Len(d) < PairWindow THEN Len(d) ELSE PairWindow))

\* How far the list is scanned: the descriptor's second word is its length when that
\* is plausible; all of the 384 bytes read are scanned otherwise.
ScanLimit(d, total) == IF total >= MinTotal /\ total <= Len(d) THEN total ELSE Len(d)

\* lagfx_lookup_pipeline_function_ref_list.
lookup_pipeline_function_ref_list(d, total) ==
    scan_descriptor_function_refs(SubSeq(d, 1, ScanLimit(d, total)), RefCap)

ValidAttr(a) == a.fmt # 0 /\ a.fmt <= 64 /\ a.off <= 240 /\ a.buf <= 30

\* The entries kept: plausible, the first of their offset, while there is room.
TakeAttr(es, out, i) ==
    IF /\ ValidAttr(es[i]) /\ Len(out) < AttrCap
       /\ \A k \in 1 .. Len(out) : out[k].off # es[i].off
    THEN Append(out, es[i]) ELSE out

CollectAttrs(es) ==
    LET scan[i \in 0 .. Len(es)] ==
            IF i = 0 THEN <<>> ELSE TakeAttr(es, scan[i - 1], i)
    IN  scan[Len(es)]

\* Where an insertion sort puts an attribute.
InsertAttr(out, a) ==
    InsertAt(out, Cardinality({j \in 1 .. Len(out) : out[j].off <= a.off}) + 1, a)

\* lagfx_parse_pso_vertex_attrs: the attributes, sorted by offset with an
\* insertion sort.
parse_pso_vertex_attrs(es) ==
    LET as == CollectAttrs(es)
        insert[k \in 0 .. Len(as)] ==
            IF k = 0 THEN <<>> ELSE InsertAttr(insert[k - 1], as[k])
    IN  insert[Len(as)]

\* A field that can be a stride: tag 1 or 2, 8..256, a multiple of 4.
StrideField(f) == f.tag \in {1, 2} /\ f.val >= 8 /\ f.val <= 256 /\ f.val % 4 = 0

Hits(fs, v) == Cardinality({i \in 1 .. Len(fs) : StrideField(fs[i]) /\ fs[i].val = v})

TakeStride(fs, out, i) ==
    IF StrideField(fs[i]) /\ ~Contains(out, fs[i].val) THEN Append(out, fs[i].val) ELSE out

StrideCandidates(fs) ==
    LET cand[i \in 0 .. Len(fs)] == IF i = 0 THEN <<>> ELSE TakeStride(fs, cand[i - 1], i)
    IN  cand[Len(fs)]

\* A candidate replaces the best one so far if it has more hits, or as many and a
\* larger value.
BetterStride(fs, v, b) ==
    LET more == Hits(fs, v) - (IF b = 0 THEN 0 ELSE Hits(fs, b))
    IN  IF more > 0 \/ (more = 0 /\ v > b) THEN v ELSE b

\* lagfx_parse_pso_vertex_stride: candidates are counted in the order they are
\* met.
parse_pso_vertex_stride(fs) ==
    LET c == StrideCandidates(fs)
        best[k \in 0 .. Len(c)] == IF k = 0 THEN 0 ELSE BetterStride(fs, c[k], best[k - 1])
    IN  best[Len(c)]

-----------------------------------------------------------------------------

\* The pipeline command reads the metallib it looked up (op_set_render_pipeline_state).
ReadFunction(id) ==
    /\ lookup_function_bytes(id, obj).ok
    /\ CallReadVirtual(lookup_function_bytes(id, obj).va, lookup_function_bytes(id, obj).len)

MemNext ==
    \/ \E va \in VAs, n \in Lengths, r \in BOOLEAN : CallExec(va, n, r)
    \/ \E va \in VAs, n \in Lengths : CallReadVirtual(va, n)
    \/ ReadVirtual
    \/ ExecRead
    \/ \E id \in Ids : ReadSlot(HeapPfn, id)
    \/ \E id \in Ids : ReadFunction(id)
    \/ \E c \in InfoCommands, b \in Bodies, va \in VAs, n \in Lengths, off \in Offsets :
          InfoDispatch(c, b, [i \in {0} |-> [va |-> va, len |-> n]], 0, off)
    \/ Return

\* Either a task's memory is used by calls, or a descriptor has been read and is
\* decoded, which changes no state.
ResolverInit ==
    \/ /\ MemInit
       /\ obj \in Objects /\ desc = <<>> /\ attrs = <<>> /\ strides = <<>>
    \/ /\ table = [l1 |-> 0, levels |-> 0, node |-> <<>>] /\ known = FALSE
       /\ op = [Idle EXCEPT !.kind = "scan"]
       /\ got = <<>> /\ heapSize = 0 /\ result = "none"
       /\ obj = [type |-> 0, bytes |-> 0, next |-> 0, magic |-> FALSE, len |-> 0]
       /\ \/ desc \in Descs /\ attrs = <<>> /\ strides = <<>>
          \/ desc = <<>> /\ attrs \in Attrs /\ strides = <<>>
          \/ desc = <<>> /\ attrs = <<>> /\ strides \in Strides

ResolverNext == MemNext /\ UNCHANGED inputVars

ResolverSpec == ResolverInit /\ [][ResolverNext]_resolverVars
                 /\ WF_resolverVars((ReadVirtual \/ ExecRead \/ Return) /\ UNCHANGED inputVars)

-----------------------------------------------------------------------------

\* What the radix tree says of a single word, as the set of its addresses (empty
\* or a singleton): the reference the reads are compared with.  A path of nodes
\* leads to the first leaf, or to the last level; a tree without a root, or of a
\* depth that is refused, maps nothing.
Paths(va, k) ==
    {p \in [1 .. k -> DOMAIN table.node] :
        /\ p[1] = table.l1
        /\ \A j \in 1 .. (k - 1) :
              /\ ~EntryOf(table, va, j, p[j]).leaf /\ ~Absent(EntryOf(table, va, j, p[j]))
              /\ EntryOf(table, va, j, p[j]).pfn = p[j + 1]
        /\ ~Absent(EntryOf(table, va, k, p[k]))
        /\ EntryOf(table, va, k, p[k]).leaf \/ k = table.levels}

MappedBy(va, k, p) ==
    PageSize * OrPfn(EntryOf(table, va, k, p[k]).pfn, (va % Span(table, k)) \div PageSize)
        + (va % PageSize)

MapsTo(va) ==
    IF table.l1 = 0 \/ table.levels > MaxLevels THEN {}
    ELSE UNION {{MappedBy(va, k, p) : p \in Paths(va, k)} : k \in 1 .. table.levels}

\* Every word a page-wise read delivers comes from the frame the radix tree
\* gives for that word's own address, over page boundaries and early leaves
\* alike; only a command buffer read falls back to the identity, and only for
\* words the tree does not map (lagfx_task_read_virtual, exec_walk_resource).
ReadsFollowTheTree ==
    op.kind \in {"read", "exec"} =>
        \A i \in 1 .. Len(got) :
            LET va == op.va + i - 1
            IN  \/ got[i] \in MapsTo(va) /\ (op.kind = "exec" => known)
                \/ /\ op.kind = "exec" /\ got[i] = va
                   /\ known => MapsTo(va) = {}

\* A command buffer never overruns the buffer it is read into, whatever sizes
\* earlier ones had and whichever realloc failed; an info reply stays inside the
\* buffer the command names, for offsets whose sum with the reply size does not wrap
\* (exec_walk_resource, lagfx_info_dispatch).
StaysInBuffers ==
    /\ op.kind = "exec" =>
          /\ Len(got) <= op.buf /\ op.size <= op.len
          /\ op.buf = Scratch \/ op.buf = heapSize
    /\ op.kind = "info" /\ result = "ok" /\ op.buf + op.size < Wrap =>
          op.buf + op.size <= op.len

\* The references among the first n bytes.
RefsWithin(n) == {desc[i + 1] : i \in {i \in 1 .. (n - 1) : i < Len(desc) /\ Candidate(desc, i)}}

\* The list of function references has no duplicates, so one function is never taken
\* for two stages of a pipeline, and while there is room it misses none within the
\* descriptor's length.  The older pair, of which "the vertex ref often lives past
\* byte 128", is what the list starts with or less: it lacks a reference only if the
\* first 128 bytes have none to give.  Where the descriptor is shorter than that, it
\* may hold what the bytes behind the descriptor happen to say.
RefLookups ==
    \A total \in 0 .. (Len(desc) + 1) :
        LET list == lookup_pipeline_function_ref_list(desc, total)
            limit == ScanLimit(desc, total)
            pair == lookup_pipeline_function_refs(desc)
        IN  /\ IsInjective(list)
            /\ Len(list) < RefCap =>
                  {list[k] : k \in 1 .. Len(list)} = RefsWithin(limit)
            /\ pair.vertex = 0 <=> RefsWithin(PairWindow) = {}
            /\ pair.fragment = 0 <=> RefsWithin(PairWindow) \subseteq {pair.vertex}
            /\ limit >= PairWindow =>
                  /\ pair.vertex # 0 => Len(list) >= 1 /\ list[1] = pair.vertex
                  /\ pair.fragment # 0 => Len(list) >= 2 /\ list[2] = pair.fragment

\* Attributes come out in strictly increasing order of offset, each the first
\* entry of the descriptor with that offset: vertex inputs are matched with
\* them by position (lagfx_parse_pso_vertex_attrs).
AttrsOrdered ==
    LET out == parse_pso_vertex_attrs(attrs)
    IN  /\ \A k \in 1 .. (Len(out) - 1) : out[k].off < out[k + 1].off
        /\ \A k \in 1 .. Len(out) :
              LET same == {i \in 1 .. Len(attrs) :
                              ValidAttr(attrs[i]) /\ attrs[i].off = out[k].off}
              IN  out[k] = attrs[CHOOSE i \in same : \A j \in same : i <= j]
        /\ Len(out) < AttrCap =>
              {out[k].off : k \in 1 .. Len(out)} =
                  {attrs[i].off : i \in {i \in 1 .. Len(attrs) : ValidAttr(attrs[i])}}

\* The stride is a value no other candidate beats: none has more hits, and none
\* with as many is larger (lagfx_parse_pso_vertex_stride).
StrideIsMode ==
    LET s == parse_pso_vertex_stride(strides)
        c == {strides[i].val : i \in {i \in 1 .. Len(strides) : StrideField(strides[i])}}
    IN  IF c = {} THEN s = 0
        ELSE /\ s \in c
             /\ \A v \in c \ {s} : \/ Hits(strides, v) < Hits(strides, s)
                                   \/ Hits(strides, v) = Hits(strides, s) /\ v < s

\* What the three scans take from a pipeline descriptor, for descriptors a guest may
\* fill with anything (object_resolver.c): see the three parts.
DescriptorScans == RefLookups /\ AttrsOrdered /\ StrideIsMode

=============================================================================
