----------------------------- MODULE AirReader -----------------------------
(***************************************************************************)
(* The AIR bitcode reader (src/air): lagfx_air_module_open walks the       *)
(* LLVM bitstream of one shader and keeps what it decodes in one growing   *)
(* arena; lagfx_air_function_body_open decodes a function's body into a    *)
(* second one.                                                             *)
(*                                                                         *)
(* The stream is what is not known: its length is BufLen units, a header,  *)
(* record or end marker takes one unit, a block's declared end is any      *)
(* place up to one past the buffer, and a read fails whenever it likes     *)
(* (truncation, an undefined abbreviation, an over-long record).  A record *)
(* is known by what its handler does with it.  Two things LLVM's writer    *)
(* guarantees are assumed (FunctionsAdjacent, NoSymtabBlocks) besides that *)
(* there is one MODULE block and that it declares before it defines.       *)
(*                                                                         *)
(* A pointer into an arena is the generation of the arena it was computed  *)
(* from; growing the arena makes a new generation.                         *)
(***************************************************************************)
EXTENDS Integers, Sequences, FiniteSets

CONSTANTS
    BufLen,      \* units in the bitstream
    ArenaCap,    \* capacity the module's arena starts with (16 KiB)
    BodyCap,     \* capacity a body's arena starts with (4 KiB)
    TableLen,    \* MAX_CONSTS, MAX_TYPES, ..., MAX_INSTS: entries of a table
    AbbrevCap    \* LAGFX_ABBREV_MAX_PER_BLOCK

ASSUME ReaderAssumption ==
    /\ BufLen \in Nat \ {0} /\ ArenaCap \in Nat \ {0} /\ BodyCap \in Nat \ {0}
    /\ TableLen \in Nat \ {0} /\ AbbrevCap \in Nat

VARIABLES
    pc,       \* where the reader is
    pos,      \* the bitstream cursor
    mend,     \* end_pos of the MODULE block, 0 before one is entered
    blk,      \* the block being walked inside it: [id, end]
    lt,       \* the table that block's walker builds, and its local pointer to it
    m,        \* lagfx_air_module_t
    arena,    \* its arena
    fn,       \* next_body_fn, later the function whose name is resolved
    body,     \* lagfx_air_function_body_t
    ab,       \* abbreviation tables of the reader, and those of the producer
    met,      \* the FUNCTION_BLOCKs walked so far, in their order
    stale     \* the sites that used a pointer into an earlier generation

readerVars == <<pc, pos, mend, blk, lt, m, arena, fn, body, ab, met, stale>>

-----------------------------------------------------------------------------
(* The arena. *)

arena_init(cap) == [used |-> 1, cap |-> cap, gen |-> 1]

Grows(a, n) == a.used + n > a.cap

\* The reservation starts at a.used.
arena_reserve(a, n) ==
    LET need  == a.used + n
        fits(k) == a.cap * 2^k >= need
        k     == CHOOSE i \in 1..need : fits(i) /\ \A j \in 1..(i - 1) : ~fits(j)
    IN  IF Grows(a, n) THEN [used |-> need, cap |-> a.cap * 2^k, gen |-> a.gen + 1]
        ELSE [a EXCEPT !.used = need]

\* A table: its offset (0 = unset), its entries, the generation of the pointer to it
\* and those of the pointers its entries hold.
NoTable == [off |-> 0, n |-> 0, gen |-> 0, inner |-> {}, strs |-> 0]

NewTable(off, g) == [NoTable EXCEPT !.off = off, !.gen = g]

NoModule == [types |-> NoTable, constants |-> NoTable, groups |-> NoTable,
             symtab |-> NoTable, metadata |-> NoTable, strings |-> 0,
             fns |-> <<>>, foff |-> 0, fgen |-> 0, strtab |-> 0, bits |-> 0]

Rederived(t, g) ==
    IF t.off = 0 THEN t
    ELSE [t EXCEPT !.gen = g, !.inner = IF @ = {} THEN {} ELSE {g}]

\* Mutant: the function table is left out.
DeriveWithoutFunctions(mod, g) ==
    [mod EXCEPT !.types = Rederived(@, g), !.constants = Rederived(@, g),
                !.groups = Rederived(@, g)]

derive_table_ptrs(mod, g) ==
    [mod EXCEPT !.types = Rederived(@, g), !.constants = Rederived(@, g),
                !.groups = Rederived(@, g),
                !.fgen = IF mod.foff = 0 THEN @ ELSE g]

\* Using a pointer of generation g at a site.
Use(site, g, a) == IF g = a.gen THEN {} ELSE {site}

-----------------------------------------------------------------------------
(* The cursor.  A read past the end fails; so does a seek past it, and     *)
(* every walker ignores that and stays where it is.                        *)

lagfx_bs_seek(to, from) == IF to <= BufLen THEN to ELSE from

\* Where a failed decode, and so a failed read of the next record, can leave the cursor.
lagfx_abbrev_decode_record == pos..BufLen
lagfx_block_next_record    == lagfx_abbrev_decode_record

lagfx_bs_read_bits == pos < BufLen

\* The ends an ENTER_SUBBLOCK payload read at the cursor can declare.
read_enter_subblock_payload == (pos + 1)..(BufLen + 1)

lagfx_block_skip(end) == lagfx_bs_seek(end, pos + 1)

-----------------------------------------------------------------------------
(* Abbreviations.  ab.here and ab.mod are the tables of the inner block    *)
(* and of MODULE, ab.info those BLOCKINFO installs for the block ids it    *)
(* targets; the p fields are what the producer of the stream defined, by   *)
(* the bitstream format.  lost: a walker gave up inside BLOCKINFO or could *)
(* not seek to the end of a block, and what follows is not a record.       *)

Targets == {"CONSTANTS", "FUNCTION"}

lagfx_blockinfo_init == [t \in Targets |-> 0]

NoAbbrevs == [here |-> 0, mod |-> 0, info |-> lagfx_blockinfo_init, target |-> "none",
              phere |-> 0, pmod |-> 0, pinfo |-> lagfx_blockinfo_init, lost |-> FALSE]

lagfx_abbrev_table_copy(id, info) == IF id \in Targets THEN info[id] ELSE 0

\* Mutant: a block starts without the abbreviations of BLOCKINFO.
EnterWithoutBlockinfo(id, info) ==
    [ab EXCEPT !.here = 0, !.phere = lagfx_abbrev_table_copy(id, ab.pinfo), !.target = "none"]

\* The tables on entering a block; blockinfo is NULL for BLOCKINFO and at the root.
lagfx_block_enter(id, info) ==
    [ab EXCEPT !.here = lagfx_abbrev_table_copy(id, info),
               !.phere = lagfx_abbrev_table_copy(id, ab.pinfo), !.target = "none"]

lagfx_abbrev_table_define(n) == IF n < AbbrevCap THEN n + 1 ELSE n

\* In BLOCKINFO the definition is moved to the target's table as well, if it has room.
InstallAbbrev(here, info) ==
    IF ab.target \in Targets /\ here > 0 /\ info[ab.target] < AbbrevCap
    THEN [info EXCEPT ![ab.target] = @ + 1] ELSE info

\* What the producer meant by it.
MeantAbbrev(pinfo) ==
    IF ab.target \in Targets THEN [pinfo EXCEPT ![ab.target] = @ + 1] ELSE pinfo

DefineAbbrev ==
    LET h == lagfx_abbrev_table_define(ab.here)
    IN  IF blk.id = "BLOCKINFO"
        THEN [ab EXCEPT !.here = h, !.info = InstallAbbrev(h, @), !.pinfo = MeantAbbrev(@)]
        ELSE [ab EXCEPT !.here = h, !.phere = @ + 1]

-----------------------------------------------------------------------------
NoBody == [fn |-> 0, end |-> 0, arena |-> arena_init(BodyCap), ioff |-> 0, igen |-> 0,
           ops |-> {}, n |-> 0, lcoff |-> 0, lcn |-> 0]

NoBlock == [id |-> "none", end |-> 0]

ReaderInit ==
    /\ pc = "closed" /\ pos = 0 /\ mend = 0 /\ blk = NoBlock /\ lt = NoTable
    /\ m = NoModule /\ arena = arena_init(ArenaCap) /\ fn = 0 /\ body = NoBody
    /\ ab = NoAbbrevs /\ met = <<>> /\ stale = {}

\* The module, its arena and its BLOCKINFO are freed: on every error too.
lagfx_air_module_free ==
    /\ pc' = "closed" /\ pos' = 0 /\ mend' = 0 /\ blk' = NoBlock /\ lt' = NoTable
    /\ m' = NoModule /\ arena' = arena_init(ArenaCap) /\ fn' = 0 /\ body' = NoBody
    /\ ab' = NoAbbrevs /\ met' = <<>> /\ stale' = {}

OutOfMemory(n) == Grows(arena, n) /\ lagfx_air_module_free

\* The wrapper is refused, or the body is copied into the arena and the walk starts.
lagfx_air_module_open ==
    /\ pc = "closed"
    /\ pc' = "root"
    /\ m' = [NoModule EXCEPT !.bits = arena.used]
    /\ arena' = arena_reserve(arena, BufLen)
    /\ UNCHANGED <<pos, mend, blk, lt, fn, body, ab, met, stale>>

-----------------------------------------------------------------------------
(* The root level. *)

\* End of the buffer, a code that opens no block, or a failed read of one.
RootEnds ==
    /\ pc = "root"
    /\ pc' = "names" /\ fn' = 1
    /\ UNCHANGED <<pos, mend, blk, lt, m, arena, body, ab, met, stale>>

\* The block's header cannot be read: the module is refused.
RootRefused == pc = "root" /\ lagfx_bs_read_bits /\ lagfx_air_module_free

RootModule ==
    /\ pc = "root" /\ lagfx_bs_read_bits /\ mend = 0
    /\ \E e \in read_enter_subblock_payload : mend' = e
    /\ pc' = "module" /\ pos' = pos + 1 /\ fn' = 1
    /\ UNCHANGED <<blk, lt, m, arena, body, ab, met, stale>>

RootStrtab ==
    /\ pc = "root" /\ lagfx_bs_read_bits
    /\ \E e \in read_enter_subblock_payload : blk' = [id |-> "STRTAB", end |-> e]
    /\ ab' = lagfx_block_enter("STRTAB", [t \in Targets |-> 0])
    /\ pc' = "inner" /\ pos' = pos + 1
    /\ UNCHANGED <<mend, lt, m, arena, fn, body, met, stale>>

\* IDENTIFICATION and others: past their end, or the root walk stops.
RootOther ==
    /\ pc = "root" /\ lagfx_bs_read_bits
    /\ \E e \in read_enter_subblock_payload :
           /\ pos' = lagfx_bs_seek(e, pos + 1)
           /\ pc' = IF e <= BufLen THEN "root" ELSE "names"
           /\ fn' = IF e <= BufLen THEN fn ELSE 1
    /\ UNCHANGED <<mend, blk, lt, m, arena, body, ab, met, stale>>

-----------------------------------------------------------------------------
(* MODULE: records and sub-blocks until its end. *)

InModule == pc = "module" /\ pos < mend

\* END_BLOCK, or the cursor is at the declared end: the root goes on.
ModuleEnds ==
    /\ pc = "module"
    /\ \/ pos >= mend /\ UNCHANGED pos
       \/ pos < mend /\ lagfx_bs_read_bits /\ pos' = pos + 1
    /\ pc' = "root"
    /\ UNCHANGED <<mend, blk, lt, m, arena, fn, body, ab, met, stale>>

\* A record or block header that cannot be read: what is after it is not looked at.
ModuleStops ==
    /\ InModule
    /\ pos' \in lagfx_block_next_record
    /\ pc' = IF pos' < mend THEN "names" ELSE "root"
    /\ fn' = 1
    /\ UNCHANGED <<mend, blk, lt, m, arena, body, ab, met, stale>>

ModuleDefineAbbrev ==
    /\ InModule /\ lagfx_bs_read_bits /\ ab.mod < AbbrevCap
    /\ ab' = [ab EXCEPT !.mod = lagfx_abbrev_table_define(@), !.pmod = @ + 1]
    /\ pos' = pos + 1
    /\ UNCHANGED <<pc, mend, blk, lt, m, arena, fn, body, met, stale>>

\* TRIPLE, DATALAYOUT and SOURCE_FILENAME are interned.
ModuleString ==
    /\ InModule /\ lagfx_bs_read_bits
    /\ \/ /\ pos' = pos + 1 /\ arena' = arena_reserve(arena, 1)
          /\ UNCHANGED <<pc, mend, blk, lt, m, fn, body, ab, met, stale>>
       \/ OutOfMemory(1)

\* LLVM's writer emits the FUNCTION records one after the other, before any body.
FunctionsAdjacent ==
    /\ met = <<>>
    /\ m.fns # <<>> => arena.used = m.fns[Len(m.fns)].at + 1

\* A FUNCTION record appends a struct to the arena; the first one is the table.  Its
\* name is still an offset into STRTAB.
ModuleFunction ==
    /\ InModule /\ lagfx_bs_read_bits /\ FunctionsAdjacent
    /\ \/ /\ LET a == arena_reserve(arena, 1)
             IN  /\ arena' = a
                 /\ \E proto \in BOOLEAN :
                      m' = [m EXCEPT
                              !.foff = IF m.fns = <<>> THEN arena.used ELSE @,
                              !.fgen = IF m.fns = <<>> THEN a.gen ELSE @,
                              !.fns = Append(@, [at |-> arena.used, proto |-> proto,
                                                 start |-> 0, end |-> 0, name |-> "raw"])]
          /\ pos' = pos + 1
          /\ UNCHANGED <<pc, mend, blk, lt, fn, body, ab, met, stale>>
       \/ OutOfMemory(1)

\* OPERAND_BUNDLE_TAGS and unknown blocks are skipped unread.
ModuleSkips ==
    /\ InModule /\ lagfx_bs_read_bits
    /\ \E e \in read_enter_subblock_payload :
           /\ e <= BufLen
           /\ pos' = lagfx_block_skip(e)
    /\ UNCHANGED <<pc, mend, blk, lt, m, arena, fn, body, ab, met, stale>>

\* Mutant: prototypes are counted.
NextOfAnyKind(i) == i

\* The first function from i on that has a body, Len + 1 if none has.
NextBody(i) ==
    CHOOSE j \in i..(Len(m.fns) + 1) :
        /\ j <= Len(m.fns) => ~m.fns[j].proto
        /\ \A k \in i..(j - 1) : m.fns[k].proto

\* FUNCTION_BLOCK: skipped; its place goes to the next function with a body.
ModuleFunctionBlock ==
    /\ InModule /\ lagfx_bs_read_bits
    /\ \E e \in read_enter_subblock_payload :
         LET d == derive_table_ptrs(m, arena.gen)
             j == NextBody(fn)
         IN  /\ e <= BufLen
             /\ pos' = lagfx_block_skip(e)
             /\ m' = IF j > Len(m.fns) THEN d
                     ELSE [d EXCEPT !.fns[j].start = pos, !.fns[j].end = e]
             /\ fn' = IF j > Len(m.fns) THEN j ELSE j + 1
             /\ stale' = stale \cup (IF m.fns = <<>> THEN {} ELSE Use("bind", d.fgen, arena))
             /\ met' = Append(met, pos)
    /\ UNCHANGED <<pc, mend, blk, lt, arena, body, ab>>

-----------------------------------------------------------------------------
(* Blocks that are walked.  A walker is told by what it does: whether it   *)
(* has a table; whether some records become entries without operands; what *)
(* happens to an entry whose operands find no memory ("error": the module  *)
(* is refused, "bare": the entry goes without), {} if no entry has         *)
(* operands of its own; whether entries hold pointers to their operands;   *)
(* when a record may add nothing ("always", or only with "room" left in    *)
(* the table); whether it stops at the cap; and whether it has records     *)
(* that name the next entry.                                               *)

Walker(table, plain, oom, inner, empty, stops, named) ==
    [table |-> table, plain |-> plain, oom |-> oom, inner |-> inner, empty |-> empty,
     stops |-> stops, named |-> named]

walk_constants == Walker(TRUE, TRUE, {"error", "bare"}, FALSE, "room", TRUE, FALSE)
walk_types     == Walker(TRUE, TRUE, {"error"}, TRUE, "always", TRUE, TRUE)
walk_groups    == Walker(TRUE, FALSE, {"bare"}, TRUE, "never", TRUE, FALSE)
walk_metadata  == Walker(TRUE, TRUE, {"error"}, TRUE, "always", FALSE, TRUE)
walk_symtab    == Walker(TRUE, TRUE, {}, FALSE, "always", TRUE, FALSE)

\* METADATA_KIND, METADATA_ATTACHMENT and PARAMATTR; BLOCKINFO and STRTAB have no table.
walk_dropped   == Walker(FALSE, FALSE, {}, FALSE, "never", FALSE, FALSE)

WalkerOf(id) ==
    CASE id = "CONSTANTS" -> walk_constants
      [] id = "TYPE" -> walk_types
      [] id = "PARAMATTR_GROUP" -> walk_groups
      [] id = "METADATA" -> walk_metadata
      [] id = "VALUE_SYMTAB" -> walk_symtab
      [] OTHER -> walk_dropped

Walked == {"CONSTANTS", "TYPE", "PARAMATTR_GROUP", "METADATA", "VALUE_SYMTAB", "BLOCKINFO",
           "PARAMATTR"}

EnterBlock ==
    /\ InModule /\ lagfx_bs_read_bits
    /\ \/ /\ \E id \in Walked, e \in read_enter_subblock_payload :
               LET a0 == IF id = "METADATA" THEN arena_reserve(arena, TableLen) ELSE arena
                   a  == arena_reserve(a0, TableLen)
               IN  /\ blk' = [id |-> id, end |-> e]
                   /\ ab' = lagfx_block_enter(id, IF id = "BLOCKINFO"
                                                  THEN lagfx_blockinfo_init ELSE ab.info)
                   /\ IF WalkerOf(id).table
                      THEN /\ arena' = a
                           /\ lt' = NewTable(a0.used, a.gen)
                      ELSE UNCHANGED <<arena, lt>>
          /\ pc' = "inner" /\ pos' = pos + 1
          /\ UNCHANGED <<mend, m, fn, body, met, stale>>
       \/ OutOfMemory(TableLen)

\* What the module takes over when the walker leaves.
Committed ==
    CASE blk.id = "CONSTANTS" -> [m EXCEPT !.constants = lt]
      [] blk.id = "TYPE" -> [m EXCEPT !.types = lt]
      [] blk.id = "PARAMATTR_GROUP" -> [m EXCEPT !.groups = lt]
      [] blk.id = "VALUE_SYMTAB" -> [m EXCEPT !.symtab = lt]
      [] blk.id = "METADATA" -> [m EXCEPT !.metadata = [lt EXCEPT !.gen = 0], !.strings = lt.strs]
      [] OTHER -> m

\* Every walker ends by seeking to the declared end; BLOCKINFO's does not.
LeaveBlock(p, broken) ==
    /\ m' = Committed
    /\ pos' = IF blk.id = "BLOCKINFO" THEN p ELSE lagfx_bs_seek(blk.end, p)
    /\ ab' = [ab EXCEPT !.lost = @ \/ (IF blk.id = "BLOCKINFO" THEN broken
                                       ELSE blk.end > BufLen),
                        !.here = 0, !.phere = 0, !.target = "none"]
    /\ pc' = IF blk.id = "STRTAB" THEN "root" ELSE "module"
    /\ blk' = NoBlock /\ lt' = NoTable
    /\ UNCHANGED <<mend, arena, fn, body, met, stale>>

InBlock == pc = "inner" /\ pos < blk.end

\* END_BLOCK, the declared end, or a record that cannot be read.
BlockEnds ==
    /\ pc = "inner"
    /\ \/ pos >= blk.end /\ LeaveBlock(pos, FALSE)
       \/ InBlock /\ lagfx_bs_read_bits /\ LeaveBlock(pos + 1, FALSE)
       \/ InBlock /\ \E p \in lagfx_block_next_record : LeaveBlock(p, TRUE)

\* VALUE_SYMTAB's walker goes on after a block inside it without skipping it, so it
\* would read the same header for ever.
NoSymtabBlocks == blk.id # "VALUE_SYMTAB"

\* A block inside a walked block: the cursor is put back before its header ...
NestedBlock ==
    /\ InBlock /\ lagfx_bs_read_bits /\ NoSymtabBlocks
    /\ pc' = "nested"
    /\ UNCHANGED <<pos, mend, blk, lt, m, arena, fn, body, ab, met, stale>>

\* Mutant: the walker reads on without skipping it, as VALUE_SYMTAB's does.
ReadNestedAgain ==
    /\ pc = "nested"
    /\ pc' = "inner"
    /\ UNCHANGED <<pos, mend, blk, lt, m, arena, fn, body, ab, met, stale>>

\* ... and the walker skips it, whatever comes of that.
SkipNested ==
    /\ pc = "nested"
    /\ \E e \in read_enter_subblock_payload :
           /\ pos' = lagfx_block_skip(e)
           /\ ab' = [ab EXCEPT !.lost = @ \/ e > BufLen]
    /\ pc' = "inner"
    /\ UNCHANGED <<mend, blk, lt, m, arena, fn, body, met, stale>>

\* With a full table the record cannot be read.
BlockDefinesAbbrev ==
    /\ InBlock /\ lagfx_bs_read_bits /\ ab.here < AbbrevCap
    /\ ab' = DefineAbbrev
    /\ pos' = pos + 1
    /\ UNCHANGED <<pc, mend, blk, lt, m, arena, fn, body, met, stale>>

\* SETBID says whose abbreviations follow.
BlockinfoRecord ==
    /\ InBlock /\ lagfx_bs_read_bits /\ blk.id = "BLOCKINFO"
    /\ \E t \in Targets \cup {"other"} : ab' = [ab EXCEPT !.target = t]
    /\ pos' = pos + 1
    /\ UNCHANGED <<pc, mend, blk, lt, m, arena, fn, body, met, stale>>

DroppedRecord ==
    /\ InBlock /\ lagfx_bs_read_bits /\ blk.id \in {"PARAMATTR", "STRTAB"}
    /\ pos' = pos + 1
    /\ UNCHANGED <<pc, mend, blk, lt, m, arena, fn, body, ab, met, stale>>

\* A blob in STRTAB is kept; a second one replaces the first.
StrtabRecord ==
    /\ InBlock /\ lagfx_bs_read_bits /\ blk.id = "STRTAB"
    /\ \/ /\ m' = [m EXCEPT !.strtab = arena.used]
          /\ arena' = arena_reserve(arena, 1)
          /\ pos' = pos + 1
          /\ UNCHANGED <<pc, mend, blk, lt, fn, body, ab, met, stale>>
       \/ OutOfMemory(1)

\* A record that adds nothing to the table: SETTYPE (not at the cap), NUMENTRY, BBENTRY,
\* METADATA_INDEX, a metadata record at the cap or a malformed one.
EmptyRecord ==
    /\ InBlock /\ lagfx_bs_read_bits
    /\ \/ WalkerOf(blk.id).empty = "always"
       \/ WalkerOf(blk.id).empty = "room" /\ lt.n < TableLen
    /\ pos' = pos + 1
    /\ UNCHANGED <<pc, mend, blk, lt, m, arena, fn, body, ab, met, stale>>

\* The other tables stop their walk at the cap.
TableFull ==
    /\ InBlock /\ lagfx_bs_read_bits
    /\ WalkerOf(blk.id).stops /\ lt.n >= TableLen
    /\ LeaveBlock(pos + 1, FALSE)

\* An entry whose operands need no room of their own.
PlainRecord ==
    /\ InBlock /\ lagfx_bs_read_bits
    /\ WalkerOf(blk.id).plain /\ lt.n < TableLen
    /\ lt' = [lt EXCEPT !.n = @ + 1]
    /\ stale' = stale \cup Use(blk.id, lt.gen, arena)
    /\ pos' = pos + 1
    /\ UNCHANGED <<pc, mend, blk, m, arena, fn, body, ab, met>>

\* An entry with interned operands: the local pointer is computed anew before it is
\* used (from the offset), and the entry points at its operands.  Without memory an
\* attribute group or vector constant has none; for the others it is an error.
InternedRecord ==
    /\ InBlock /\ lagfx_bs_read_bits
    /\ WalkerOf(blk.id).oom # {} /\ lt.n < TableLen
    /\ \/ LET a == arena_reserve(arena, 1)
          IN  /\ arena' = a
              /\ lt' = [lt EXCEPT !.n = @ + 1, !.gen = a.gen,
                                  !.inner = IF WalkerOf(blk.id).inner THEN @ \cup {a.gen} ELSE @]
              /\ stale' = stale \cup Use(blk.id, lt'.gen, a)
              /\ pos' = pos + 1
              /\ UNCHANGED <<pc, mend, blk, m, fn, body, ab, met>>
       \/ /\ Grows(arena, 1) /\ "bare" \in WalkerOf(blk.id).oom
          /\ lt' = [lt EXCEPT !.n = @ + 1]
          /\ stale' = stale \cup Use(blk.id, lt.gen, arena)
          /\ pos' = pos + 1
          /\ UNCHANGED <<pc, mend, blk, m, arena, fn, body, ab, met>>
       \/ "error" \in WalkerOf(blk.id).oom /\ OutOfMemory(1)

\* STRUCT_NAME and METADATA_NAME: a string for the entry that follows.
NameRecord ==
    /\ InBlock /\ lagfx_bs_read_bits
    /\ WalkerOf(blk.id).named /\ (WalkerOf(blk.id).stops => lt.n < TableLen)
    /\ \/ LET a == arena_reserve(arena, 1)
          IN  /\ arena' = a
              /\ lt' = [lt EXCEPT !.gen = a.gen]
              /\ stale' = stale \cup Use(blk.id, lt.gen, arena)
              /\ pos' = pos + 1
              /\ UNCHANGED <<pc, mend, blk, m, fn, body, ab, met>>
       \/ OutOfMemory(1)

\* METADATA_STRING adds one string, METADATA_STRINGS a batch, cut off where the size
\* table, the data or the table of strings ends.
StringsRecord ==
    /\ InBlock /\ lagfx_bs_read_bits /\ blk.id = "METADATA"
    /\ \E k \in 1..(TableLen - lt.strs) :
         \/ LET a == arena_reserve(arena, k)
            IN  /\ arena' = a
                /\ lt' = [lt EXCEPT !.gen = a.gen, !.strs = @ + k]
                /\ pos' = pos + 1
                /\ UNCHANGED <<pc, mend, blk, m, fn, body, ab, met, stale>>
         \/ OutOfMemory(k)

\* VALUE_SYMTAB's ENTRY and FNENTRY intern a name and write its offset through a
\* pointer to the entry that was computed before; it is not computed anew.
SymtabRecord ==
    /\ InBlock /\ lagfx_bs_read_bits /\ blk.id = "VALUE_SYMTAB" /\ lt.n < TableLen
    /\ LET a == arena_reserve(arena, 1)
       IN  \/ arena' = a /\ stale' = stale \cup Use("VALUE_SYMTAB", lt.gen, a)
          \/ /\ Grows(arena, 1) /\ UNCHANGED arena
             /\ stale' = stale \cup Use("VALUE_SYMTAB", lt.gen, arena)
    /\ lt' = [lt EXCEPT !.n = @ + 1]
    /\ pos' = pos + 1
    /\ UNCHANGED <<pc, mend, blk, m, fn, body, ab, met>>

WalkBlock ==
    \/ BlockEnds \/ NestedBlock \/ SkipNested \/ BlockDefinesAbbrev \/ BlockinfoRecord \/ DroppedRecord
    \/ StrtabRecord \/ EmptyRecord \/ TableFull \/ PlainRecord \/ InternedRecord
    \/ NameRecord \/ StringsRecord \/ SymtabRecord

-----------------------------------------------------------------------------
(* After the walk: names from STRTAB, then the pointers are materialised.  *)

\* One function's name: its slice is copied into the arena, or is not inside STRTAB.
ResolveName ==
    /\ pc = "names" /\ m.strtab # 0 /\ fn <= Len(m.fns)
    /\ LET d == derive_table_ptrs(m, arena.gen)
           a == arena_reserve(arena, 1)
       IN  \/ /\ m' = [d EXCEPT !.fns[fn].name = "none"]
              /\ stale' = stale \cup Use("names", d.fgen, arena)
              /\ fn' = fn + 1
              /\ UNCHANGED <<pc, pos, mend, blk, lt, arena, body, ab, met>>
           \/ /\ m' = [derive_table_ptrs(m, a.gen) EXCEPT !.fns[fn].name = "arena"]
              /\ stale' = stale \cup Use("names", m'.fgen, a)
              /\ arena' = a
              /\ fn' = fn + 1
              /\ UNCHANGED <<pc, pos, mend, blk, lt, body, ab, met>>
           \/ OutOfMemory(1)

\* No STRTAB was read: the names are cleared through the table pointer as it is.  If
\* that is an old one the writes are lost with the memory they go to, or land.
ClearNames ==
    /\ pc = "names" /\ m.strtab = 0 /\ fn <= Len(m.fns)
    /\ \E lands \in (IF m.fgen = arena.gen THEN {TRUE} ELSE BOOLEAN) :
         m' = IF lands THEN [m EXCEPT !.fns = [i \in DOMAIN @ |-> [@[i] EXCEPT !.name = "none"]]]
              ELSE m
    /\ stale' = stale \cup Use("clear", m.fgen, arena)
    /\ fn' = Len(m.fns) + 1
    /\ UNCHANGED <<pc, pos, mend, blk, lt, arena, body, ab, met>>

\* The strings' pointer array is the last reservation; then every table pointer is
\* derived again and the module is handed out.  The operand pointers of the metadata
\* records are left as they were.
Materialise ==
    /\ pc = "names" /\ fn > Len(m.fns)
    /\ \/ LET a == arena_reserve(arena, m.strings)
              d == derive_table_ptrs(m, a.gen)
          IN  /\ arena' = a
              /\ m' = [d EXCEPT !.metadata.gen = IF m.metadata.n > 0 THEN a.gen ELSE @]
              /\ pc' = "open"
              /\ UNCHANGED <<pos, mend, blk, lt, fn, body, ab, met, stale>>
       \/ OutOfMemory(m.strings)

-----------------------------------------------------------------------------
(* A function's body, decoded from the copy of the stream in the arena.    *)

\* A body that is refused leaves nothing behind.
lagfx_air_function_body_open ==
    /\ pc = "open"
    /\ \E i \in DOMAIN m.fns :
         LET a0 == arena_init(BodyCap)
             a1 == arena_reserve(a0, TableLen)
         IN  /\ ~m.fns[i].proto /\ m.fns[i].start # 0
             /\ body' = [NoBody EXCEPT !.fn = i, !.end = m.fns[i].end, !.arena = a1,
                                       !.ioff = a0.used, !.igen = a1.gen]
             /\ pos' = m.fns[i].start + 1
             /\ stale' = stale \cup Use("body", m.fgen, arena)
    /\ ab' = lagfx_block_enter("FUNCTION", ab.info)
    /\ pc' = "body"
    /\ UNCHANGED <<mend, blk, lt, m, arena, fn, met>>

InBody == pc = "body" /\ pos < body.end /\ lagfx_bs_read_bits

BodyDefinesAbbrev ==
    /\ InBody /\ ab.here < AbbrevCap
    /\ ab' = [ab EXCEPT !.here = lagfx_abbrev_table_define(@), !.phere = @ + 1]
    /\ pos' = pos + 1
    /\ UNCHANGED <<pc, mend, blk, lt, m, arena, fn, body, met, stale>>

\* An instruction, with its operands copied behind the table if it has any.
BodyInstruction ==
    /\ InBody /\ body.n < TableLen
    /\ \E k \in 0..1 :
         LET a == IF k > 0 THEN arena_reserve(body.arena, k) ELSE body.arena
         IN  /\ body' = [body EXCEPT !.arena = a, !.n = @ + 1,
                                     !.igen = IF k > 0 THEN a.gen ELSE @,
                                     !.ops = IF k > 0 THEN @ \cup {a.gen} ELSE @]
             /\ stale' = stale \cup Use("instruction", body'.igen, a)
    /\ pos' = pos + 1
    /\ UNCHANGED <<pc, mend, blk, lt, m, arena, fn, ab, met>>

\* The body's own CONSTANTS block; only its offset is kept.
BodyConstants ==
    /\ InBody
    /\ \E e \in read_enter_subblock_payload :
         LET a == arena_reserve(body.arena, TableLen)
         IN  /\ blk' = [id |-> "local", end |-> e]
             /\ lt' = NewTable(body.arena.used, a.gen)
             /\ body' = [body EXCEPT !.arena = a, !.igen = a.gen]
    /\ pc' = "local" /\ pos' = pos + 1
    /\ UNCHANGED <<mend, m, arena, fn, ab, met, stale>>

LocalConstant ==
    /\ pc = "local" /\ pos < blk.end /\ lagfx_bs_read_bits /\ lt.n < TableLen
    /\ \E k \in 0..1 :
         LET a == IF k > 0 THEN arena_reserve(body.arena, k) ELSE body.arena
         IN  /\ lt' = [lt EXCEPT !.n = @ + 1, !.gen = a.gen]
             /\ body' = [body EXCEPT !.arena = a, !.igen = IF k > 0 THEN a.gen ELSE @]
             /\ stale' = stale \cup Use("local constant", lt'.gen, a)
    /\ pos' = pos + 1
    /\ UNCHANGED <<pc, mend, blk, m, arena, fn, ab, met>>

\* End, failure, SETTYPE at the cap: the block is over.
LocalConstantsEnd ==
    /\ pc = "local"
    /\ \E p \in lagfx_block_next_record : pos' = lagfx_bs_seek(blk.end, p)
    /\ body' = [body EXCEPT !.lcoff = lt.off, !.lcn = lt.n]
    /\ pc' = "body" /\ blk' = NoBlock /\ lt' = NoTable
    /\ UNCHANGED <<mend, m, arena, fn, ab, met, stale>>

BodySkips ==
    /\ InBody
    /\ \E e \in read_enter_subblock_payload : e <= BufLen /\ pos' = lagfx_block_skip(e)
    /\ UNCHANGED <<pc, mend, blk, lt, m, arena, fn, body, ab, met, stale>>

\* The end, a failed read or the cap: what was decoded is kept, and every instruction's
\* operand pointer is computed anew.
BodyEnds ==
    /\ pc = "body"
    /\ body' = [body EXCEPT !.ops = IF @ = {} THEN {} ELSE {body.arena.gen}]
    /\ stale' = stale \cup Use("operands", body.igen, body.arena)
    /\ pc' = "decoded" /\ pos' = 0
    /\ UNCHANGED <<mend, blk, lt, m, arena, fn, ab, met>>

lagfx_air_function_body_free ==
    /\ pc = "decoded"
    /\ body' = NoBody /\ pc' = "open"
    /\ ab' = [ab EXCEPT !.here = 0, !.phere = 0]
    /\ UNCHANGED <<pos, mend, blk, lt, m, arena, fn, met, stale>>

CloseModule == pc = "open" /\ lagfx_air_module_free

-----------------------------------------------------------------------------
Walk ==
    \/ RootEnds \/ RootRefused \/ RootModule \/ RootStrtab \/ RootOther
    \/ ModuleEnds \/ ModuleStops \/ ModuleDefineAbbrev \/ ModuleString \/ ModuleFunction
    \/ ModuleSkips \/ ModuleFunctionBlock \/ EnterBlock \/ WalkBlock
    \/ ResolveName \/ ClearNames \/ Materialise
    \/ BodyDefinesAbbrev \/ BodyInstruction \/ BodyConstants \/ LocalConstant
    \/ LocalConstantsEnd \/ BodySkips \/ BodyEnds

ReaderNext ==
    \/ lagfx_air_module_open \/ Walk
    \/ lagfx_air_function_body_open \/ lagfx_air_function_body_free \/ CloseModule

ReaderSpec == ReaderInit /\ [][ReaderNext]_readerVars /\ WF_readerVars(Walk)

-----------------------------------------------------------------------------
(* Properties. *)

\* How many of the first i functions have a body.
Rank(fns, i) == Cardinality({j \in 1..i : ~fns[j].proto})

\* The function table is read as an array although each struct is reserved on its own
\* (bitcode_reader.c:1562): entry i is the struct of the i-th FUNCTION record.  The k-th
\* FUNCTION_BLOCK is bound to the k-th function that is not a prototype, and what a body
\* is decoded from lies in the buffer.
BodiesBound ==
    \A i \in DOMAIN m.fns :
        /\ m.fns[i].at = m.foff + i - 1
        /\ m.fns[i].start # 0 => m.fns[i].start < m.fns[i].end /\ m.fns[i].end <= BufLen
        /\ m.fns[i].start = IF ~m.fns[i].proto /\ Rank(m.fns, i) \in DOMAIN met
                            THEN met[Rank(m.fns, i)] ELSE 0

Current(t, g) == t.off # 0 => t.gen = g /\ t.inner \subseteq {g}

\* "The raw pointers go stale on realloc" (bitcode_reader.c:222): no table is used
\* through a pointer into an arena that has been reallocated since, a module is handed
\* out with current table pointers, and a body with current operand pointers.  Not so:
\* the entries of VALUE_SYMTAB, the clearing of names without STRTAB and the operand
\* pointers of metadata records.
PointersCurrent ==
    /\ stale \subseteq {"VALUE_SYMTAB", "clear"}
    /\ pc \in {"open", "body", "local", "decoded"} =>
          /\ Current(m.types, arena.gen) /\ Current(m.constants, arena.gen)
          /\ Current(m.groups, arena.gen)
          /\ m.fns # <<>> => m.fgen = arena.gen
          /\ m.metadata.n > 0 => m.metadata.gen = arena.gen
    /\ pc = "decoded" => body.igen = body.arena.gen /\ body.ops \subseteq {body.arena.gen}

\* An abbreviation id means what the producer of the stream meant by it: the tables of
\* MODULE, of the block being read and of the blocks BLOCKINFO names are the producer's,
\* as long as no BLOCKINFO was given up and no block ran past the buffer.  Not so when
\* several BLOCKINFOs define more than AbbrevCap for one block (bitcode_reader.c:660): the
\* rest is dropped, and the block's own abbreviations get the ids of what was dropped.
AbbrevsAgree ==
    ~ab.lost /\ (\A t \in Targets : ab.pinfo[t] <= AbbrevCap)
        => /\ blk.id # "BLOCKINFO" => ab.here = ab.phere
           /\ ab.mod = ab.pmod /\ ab.info = ab.pinfo

=============================================================================
