---------------------------- MODULE GuestMemory ----------------------------
(***************************************************************************)
(* How the device reads and writes the memory of a guest task: the radix   *)
(* walk of exec_cmdbuf.c (lagfx_task_translate), the page-wise reads built *)
(* on it (lagfx_task_read_virtual, the read loop of exec_walk_resource),   *)
(* the flat reads of object slots (object_resolver.c) and the replies of   *)
(* the info commands (info_replies.c).                                     *)
(*                                                                         *)
(* Addresses and lengths count 32-bit words; a page has PageSize of them   *)
(* (1024 in the code), a node of the radix tree has Fanout entries (1024). *)
(* What a word holds is left out: a read delivers the guest-physical       *)
(* addresses its words came from, and that is what the properties compare. *)
(***************************************************************************)
EXTENDS Integers, Sequences

CONSTANTS
    PageSize,   \* words of a page
    Fanout,     \* entries of a node of the radix tree
    MaxLevels,  \* 4: deeper trees are refused
    Tables,     \* radix trees: [l1, levels, node], node[pfn][idx] an entry
    Ram,        \* page frames shell.read_memory and write_memory accept
    VAs,        \* task-virtual addresses commands use
    Lengths,    \* lengths of the buffers they name
    MaxExec,    \* 1 << 22 bytes: longer command buffers are skipped
    Scratch,    \* LAGFX_MAX_RING_READ, the size of scratch_exec
    HeapUnit,   \* 64 KiB, the rounding of scratch_exec_heap
    SlotWords,  \* 3: an object slot is 12 bytes
    Wrap        \* 2^64: reply_offset + reply_size wraps here

ASSUME MemAssumption ==
    /\ PageSize \in Nat \ {0} /\ Fanout \in Nat \ {0} /\ MaxLevels \in Nat
    /\ \A t \in Tables :
          /\ t.l1 \in Nat /\ t.levels \in Nat
          /\ \A n \in DOMAIN t.node, i \in 0 .. (Fanout - 1) :
                t.node[n][i] \in [leaf : BOOLEAN, pfn : Nat]
    /\ Ram \subseteq Nat /\ VAs \subseteq Nat /\ Lengths \subseteq Nat
    /\ MaxExec \in Nat /\ Scratch \in Nat \ {0} /\ HeapUnit \in Nat \ {0}
    /\ SlotWords \in Nat \ {0} /\ Wrap \in Nat \ {0}

VARIABLES
    table,     \* the radix tree of the task (constant during a run)
    known,     \* find_task found the task of the command
    op,        \* the call in progress, or [kind |-> "idle"]
    got,       \* got[i]: the address word i of the buffer was read from
    heapSize,  \* scratch_exec_heap_size
    result     \* of the last call: "none", "ok" or "fail"

memVars == <<table, known, op, got, heapSize, result>>

None == -1
Idle == [kind |-> "idle", va |-> 0, len |-> 0, buf |-> 0, size |-> 0]

\* A radix entry, its bit 31 apart.  The zero word is not present.
Absent(pte) == ~pte.leaf /\ pte.pfn = 0

\* b^n, as a recursive function.
Pow(b, n) ==
    LET pow[i \in 0 .. n] == IF i = 0 THEN 1 ELSE b * pow[i - 1]
    IN  pow[n]

\* data_pfn | index: the code composes the frame number with a bitwise or.
Bits == 16
Bit(x, i) == (x \div Pow(2, i - 1)) % 2
OrPfn(a, b) ==
    LET or[i \in 0 .. Bits] ==
            IF i = 0 THEN 0
            ELSE or[i - 1] + (IF Bit(a, i) + Bit(b, i) > 0 THEN Pow(2, i - 1) ELSE 0)
    IN  or[Bits]

-----------------------------------------------------------------------------

\* The frame an entry maps an address of its span to; above the last level the
\* index bits the walk has not used are or-ed in.
FrameOfEntry(pte, span, va) == pte.pfn

Frame(pte, span, va) == OrPfn(pte.pfn, (va % span) \div PageSize)

\* The words an entry of level k maps, and the entry for an address in a node.
Span(t, k) == PageSize * Pow(Fanout, t.levels - k)
EntryOf(t, va, k, n) == t.node[n][(va \div Span(t, k)) % Fanout]

\* One level of lagfx_task_translate: an entry that is absent or in a page that
\* cannot be read fails the walk.  A leaf above the last level maps everything
\* below it; at the last level the leaf bit is not looked at.
WalkLevel(t, va, k, prev) ==
    LET pte == EntryOf(t, va, k, prev.v)
    IN  IF prev.st # "node" THEN prev
        ELSE IF prev.v \notin DOMAIN t.node \/ Absent(pte)
        THEN [st |-> "fail", v |-> None]
        ELSE IF k = t.levels \/ pte.leaf
        THEN [st |-> "done", v |-> PageSize * Frame(pte, Span(t, k), va) + (va % PageSize)]
        ELSE [st |-> "node", v |-> pte.pfn]

Walk(t, va) ==
    LET walk[k \in 0 .. t.levels] ==
            IF k = 0 THEN [st |-> "node", v |-> t.l1] ELSE WalkLevel(t, va, k, walk[k - 1])
    IN  walk

\* lagfx_task_translate; None stands for the return value false.
task_translate(t, va) ==
    IF t.l1 = 0 \/ t.levels = 0 \/ t.levels > MaxLevels THEN None
    ELSE Walk(t, va)[t.levels].v

\* shell.read_memory and write_memory answer for the frames of guest RAM.
Accepts(gpa) == (gpa \div PageSize) \in Ram

\* The words left in a page at an address, at most n.
ToPageEnd(a, n) ==
    IF PageSize - (a % PageSize) < n THEN PageSize - (a % PageSize) ELSE n

\* n consecutive words of guest-physical memory.
Flat(gpa, n) == [i \in 1 .. n |-> gpa + i - 1]

\* The call returns; what it delivered is the caller's.
Finish(r) == op' = Idle /\ result' = r /\ got' = <<>>

-----------------------------------------------------------------------------

\* One iteration of lagfx_task_read_virtual: the rest of the page, translated on
\* its own.  A page that does not translate or cannot be read fails the call.
ReadVirtual ==
    /\ op.kind = "read"
    /\ LET cur == op.va + Len(got)
           chunk == ToPageEnd(cur, op.len - Len(got))
           gpa == task_translate(table, cur)
       IN  IF Len(got) = op.len THEN Finish("ok")
           ELSE IF gpa = None \/ ~Accepts(gpa) THEN Finish("fail")
           ELSE got' = got \o Flat(gpa, chunk) /\ UNCHANGED <<op, result>>
    /\ UNCHANGED <<table, known, heapSize>>

CallReadVirtual(va, n) ==
    /\ op = Idle
    /\ op' = [Idle EXCEPT !.kind = "read", !.va = va, !.len = n]
    /\ got' = <<>>
    /\ UNCHANGED <<table, known, heapSize, result>>

RoundUp(n, unit) == ((n + unit - 1) \div unit) * unit

\* The buffer a command buffer of n words is read into, given the heap buffer.
ExecBuffer(n, heap) == IF n > Scratch /\ heap >= n THEN heap ELSE Scratch

\* to_read: a buffer that could not grow truncates the command buffer.
ToRead(n, buf) == IF n < buf THEN n ELSE buf

\* exec_walk_resource up to its read loop: the buffer that is read into is the
\* 4 KiB scratch, or a heap buffer that grows and is kept; when realloc fails a
\* heap buffer that is large enough already, or else the scratch, is used.
CallExec(va, n, realloc) ==
    /\ op = Idle /\ n > 0 /\ n <= MaxExec
    /\ LET grow == n > Scratch /\ heapSize < n /\ realloc
           heap == IF grow THEN RoundUp(n, HeapUnit) ELSE heapSize
           buf == ExecBuffer(n, heap)
       IN  /\ heapSize' = heap
           /\ op' = [kind |-> "exec", va |-> va, len |-> n, buf |-> buf,
                     size |-> ToRead(n, buf)]
    /\ got' = <<>>
    /\ UNCHANGED <<table, known, result>>

\* One iteration of that loop.  A page that does not translate is read at the
\* identity address; a failed read ends the loop, and what was read is walked.
ExecRead ==
    /\ op.kind = "exec"
    /\ LET cur == op.va + Len(got)
           t == IF known THEN task_translate(table, cur) ELSE None
           gpa == IF t = None THEN cur ELSE t
           chunk == ToPageEnd(gpa, op.size - Len(got))
       IN  IF Len(got) = op.size THEN Finish("ok")
           ELSE IF ~Accepts(gpa)
           THEN Finish(IF got = <<>> THEN "fail" ELSE "ok")
           ELSE got' = got \o Flat(gpa, chunk) /\ UNCHANGED <<op, result>>
    /\ UNCHANGED <<table, known, heapSize>>

\* read_slot_fields after slot_va_for: the slot's address is translated once and
\* its words are read from consecutive physical addresses.
ReadSlot(heap, id) ==
    /\ op = Idle
    /\ LET va == PageSize * heap + SlotWords * id
           gpa == task_translate(table, va)
       IN  /\ op' = [Idle EXCEPT !.kind = "slot", !.va = va, !.len = SlotWords]
           /\ IF gpa = None \/ ~Accepts(gpa) THEN got' = <<>> /\ result' = "fail"
              ELSE got' = Flat(gpa, SlotWords) /\ result' = "ok"
    /\ UNCHANGED <<table, known, heapSize>>

-----------------------------------------------------------------------------

\* The body an info command needs and the reply it asks for, in words; commands
\* that are not here (0x1c5, 0x1c8 and unknown ones) get no reply.
InfoSizes ==
    [c \in {450, 451, 452, 454, 455} |->
        CASE c = 450 -> [need |-> 4,  reply |-> 7]   \* 0x1c2 ComputePipelineStateInfo
          [] c = 451 -> [need |-> 11, reply |-> 4]   \* 0x1c3 HeapTextureSizeAndAlign
          [] c = 452 -> [need |-> 6,  reply |-> 5]   \* 0x1c4 RasterizationRateMapInfo
          [] OTHER   -> [need |-> 7,  reply |-> 2]]  \* 0x1c6, 0x1c7 map coordinates

InfoSizes2 ==
    [c \in {457, 458, 459, 460, 461, 462, 463, 464} |->
        CASE c = 457 -> [need |-> 4,  reply |-> 3]   \* 0x1c9 RenderPipelineStateInfo
          [] c \in {458, 459} -> [need |-> 10, reply |-> 1]  \* image block lengths
          [] c = 460 -> [need |-> 5,  reply |-> 2]   \* 0x1cc ObjectUniqueIdentifier
          [] c \in {461, 463} -> [need |-> 4, reply |-> 2]   \* buffer, heap info
          [] OTHER -> [need |-> 4, reply |-> 4]]     \* texture, sampler info

InfoCommands == DOMAIN InfoSizes \cup DOMAIN InfoSizes2

InfoShape(c) == IF c \in DOMAIN InfoSizes THEN InfoSizes[c] ELSE InfoSizes2[c]

\* reply_offset + reply_size > buffer_len, in 64 bits.
ReplyStartFits(off, n, len) == off <= len

ReplyFits(off, n, len) == (off + n) % Wrap <= len

\* lagfx_info_dispatch past the decoding: buffer_id indexes the resources of the
\* outer command, the reply has to end inside the buffer (the sum wraps), and is
\* written in one piece at the address its first word translates to.
InfoDispatch(c, body, buffers, id, off) ==
    /\ op = Idle
    /\ c \in InfoCommands /\ body >= InfoShape(c).need
    /\ id \in DOMAIN buffers
    /\ ReplyFits(off, InfoShape(c).reply, buffers[id].len)
    /\ LET target == (buffers[id].va + off) % Wrap
           t == IF known THEN task_translate(table, target) ELSE None
           gpa == IF t = None THEN target ELSE t
       IN  /\ op' = [kind |-> "info", va |-> buffers[id].va, len |-> buffers[id].len,
                     buf |-> off, size |-> InfoShape(c).reply]
           /\ IF Accepts(gpa) THEN got' = Flat(gpa, InfoShape(c).reply) /\ result' = "ok"
              ELSE got' = <<>> /\ result' = "fail"
    /\ UNCHANGED <<table, known, heapSize>>

\* A single read or write has returned.
Return ==
    /\ op.kind \in {"slot", "info"} /\ Finish(result)
    /\ UNCHANGED <<table, known, heapSize>>

MemInit ==
    /\ table \in Tables /\ known \in BOOLEAN
    /\ op = Idle /\ got = <<>> /\ heapSize = 0 /\ result = "none"

=============================================================================
