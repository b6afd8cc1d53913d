----------------------------- MODULE TaskMemory -----------------------------
(***************************************************************************)
(* The address range of a shell task (memory/task.c) under the map and     *)
(* unmap commands (handlers/memory/memory.c).  The range is reserved with  *)
(* PROT_NONE pages; a map makes pages of it alias host memory by munmap    *)
(* and mremap, and falls back to a copy in a memfd when mremap refuses.    *)
(*                                                                         *)
(* Every system call is a step of its own and may fail.  Calls into this   *)
(* code are serialised, but the process has other threads: while a page is *)
(* unmapped, an mmap of theirs may be given its address.                   *)
(*                                                                         *)
(* Lengths and offsets are in pages, relative to the base of the range and *)
(* modulo the 64-bit address space: the page below the base is Wrap - 1.   *)
(* The check of a range adds its offset and length in 64 bits, so a guest  *)
(* can pass it with an offset that lies below the base.  A length near the *)
(* whole address space passes too, but no system call takes it: that is a  *)
(* call whose first system call fails.                                     *)
(***************************************************************************)
EXTENDS Integers, Sequences

CONSTANTS
    Size,      \* reserved_size, in pages
    Half,      \* half of the address space: file offsets from there on are negative
    HostSize,  \* pages of host memory (guest RAM as the emulator maps it)
    Shared,    \* those that are MAP_SHARED, which mremap can duplicate
    Data,      \* page contents; 0 is a zero page
    Offsets,   \* bound: offsets the commands give
    MaxLen,    \* bound: pages per range
    MaxRanges  \* LAGFX_MAP_MAX_RANGES

ASSUME MemoryAssumption ==
    /\ Size \in Nat \ {0} /\ HostSize \in Nat /\ MaxLen \in Nat /\ MaxRanges \in Nat
    /\ Half \in Nat /\ Size + MaxLen <= Half /\ Offsets \subseteq 0 .. (2 * Half - 1)
    /\ Shared \subseteq 0 .. (HostSize - 1)
    /\ 0 \in Data

VARIABLES
    live,      \* the task exists
    at,        \* the pages of its range, and those around it
    memfd,     \* task->memfd >= 0
    file,      \* contents of the memfd
    hostmem,   \* contents of host memory
    pc,        \* the system call a map is at
    call,      \* its range
    todo,      \* further ranges of the command
    ret,       \* what lagfx_task_map_host_memory returned
    punctured  \* history: pages whose reservation a failed call did not restore

memoryVars == <<live, at, memfd, file, hostmem, pc, call, todo, ret, punctured>>

None == -1   \* host_addr == NULL
Wrap == 2 * Half
Space == 0 .. (Wrap - 1)
Pages == 0 .. (Size - 1)
HostPages == 0 .. (HostSize - 1)

Plain(kind) == [kind |-> kind, page |-> 0, rw |-> FALSE]
Free == Plain("free")
Reserved == Plain("reserved")
Other == Plain("other")   \* a mapping of another part of the process

\* A range of a command: pages the caller has, or none at all.
Ranges == {r \in [host : HostPages \cup {None}, len : 0 .. MaxLen] :
              r.host = None \/ r.host + r.len <= HostSize}

Kinds == {"free", "reserved", "other", "alias", "memfd"}

\* The kinds of a page the task has lost: no reservation and no mapping of it.
Gone == {"free", "other"}

Mapping == [kind : Kinds, page : Nat, rw : BOOLEAN]

NoCall == [off |-> 0, host |-> None, len |-> 0, ro |-> FALSE]

MemoryTypeOK ==
    /\ live \in BOOLEAN /\ memfd \in BOOLEAN /\ ret \in BOOLEAN
    /\ at \in [Space -> Mapping]
    /\ \A p \in Space :
          /\ at[p].kind = "alias" => at[p].page \in HostPages
          /\ at[p].kind = "memfd" => at[p].page \in Pages
          /\ at[p].kind \in Gone \cup {"reserved"} => at[p] = Plain(at[p].kind)
    /\ file \in [Pages -> Data]
    /\ hostmem \in [HostPages -> Data]
    /\ pc \in {"idle", "enter", "munmap", "mremap", "mprotect", "restore",
               "memfd", "copy", "done"}
    /\ call \in [off : Space, host : HostPages \cup {None}, len : 0 .. MaxLen,
                 ro : BOOLEAN]
    /\ todo \in Seq(Ranges)
    /\ punctured \subseteq Space

MemoryInit ==
    /\ live = FALSE /\ memfd = FALSE /\ ret = FALSE
    /\ at = [p \in Space |-> Free]
    /\ file = [p \in Pages |-> 0]
    /\ hostmem \in [HostPages -> Data]
    /\ pc = "idle"
    /\ call = NoCall
    /\ todo = <<>>
    /\ punctured = {}

-----------------------------------------------------------------------------

\* The sum of two 64-bit numbers.
u64(sum) == IF sum < Wrap THEN sum ELSE sum - Wrap

\* How far a page is behind an offset, and the len pages from there on.
Index(p, off) == IF p >= off THEN p - off ELSE p + Wrap - off
Run(off, len) == {p \in Space : Index(p, off) < len}

\* The pages of the range being mapped.
Span == Run(call.off, call.len)

\* The table with the pages of S replaced; with the range mapped to consecutive
\* pages of host memory or of the memfd; and with its protection set.
Fill(S, m) == [p \in Space |-> IF p \in S THEN m ELSE at[p]]

Place(kind, first) ==
    [p \in Space |->
        IF p \in Span
        THEN [kind |-> kind, page |-> first + Index(p, call.off), rw |-> TRUE]
        ELSE at[p]]

Protect ==
    [p \in Space |->
        IF p \in Span THEN [at[p] EXCEPT !.rw = ~call.ro] ELSE at[p]]

\* A fresh range of the address space; something else lies around it.
lagfx_task_create ==
    /\ ~live
    /\ \A p \in Pages : at[p].kind = "free"
    /\ live' = TRUE /\ memfd' = FALSE
    /\ at' = [p \in Space |-> IF p \in Pages THEN Reserved ELSE Other]
    /\ file' = [p \in Pages |-> 0]
    /\ punctured' = {}
    /\ UNCHANGED <<hostmem, pc, call, todo, ret>>

\* One munmap of the whole range, whatever is mapped there by now.
lagfx_task_destroy ==
    /\ live /\ pc = "idle"
    /\ live' = FALSE /\ memfd' = FALSE
    /\ at' = Fill(Pages, Free)
    /\ file' = [p \in Pages |-> 0]
    /\ punctured' = {}
    /\ UNCHANGED <<hostmem, pc, call, todo, ret>>

\* vm_offset + len > task->reserved_size || len == 0, the sum in 64 bits.
in_range(off, len) == u64(off + len) <= Size /\ len # 0

\* MAP_FIXED with PROT_NONE, or a failure that changes nothing.
lagfx_task_unmap(off, len) ==
    /\ live /\ pc = "idle"
    /\ in_range(off, len)
    /\ at' = Fill(Run(off, len), Reserved)
    /\ punctured' = punctured \ Run(off, len)
    /\ UNCHANGED <<live, memfd, file, hostmem, pc, call, todo, ret>>

\* CmdUnmapMemory, as the shell passes it on.
UnmapCommand == \E off \in Offsets, len \in 0 .. MaxLen : lagfx_task_unmap(off, len)

\* CmdMapMemory2: the shell maps the ranges one behind the other.
lagfx_memory_map_memory2(off, ranges, ro) ==
    /\ live /\ pc = "idle"
    /\ ranges # <<>> /\ Len(ranges) <= MaxRanges
    /\ pc' = "enter"
    /\ call' = [off |-> off, host |-> Head(ranges).host,
                len |-> Head(ranges).len, ro |-> ro]
    /\ todo' = Tail(ranges)
    /\ UNCHANGED <<live, at, memfd, file, hostmem, ret, punctured>>

Return(b) == pc' = "done" /\ ret' = b
Goto(l) == pc' = l /\ UNCHANGED ret

\* The checks; without a host address the range is backed by the memfd alone.
lagfx_task_map_host_memory ==
    /\ pc = "enter"
    /\ IF ~in_range(call.off, call.len) THEN Return(FALSE)
       ELSE Goto(IF call.host = None THEN "memfd" ELSE "munmap")
    /\ UNCHANGED <<live, at, memfd, file, hostmem, call, todo, punctured>>

\* munmap(target, len): a hole until the next call fills it.
punch_hole ==
    /\ pc = "munmap"
    /\ \/ /\ at' = Fill(Span, Free)
          /\ Goto("mremap")
       \/ Return(FALSE) /\ UNCHANGED at
    /\ UNCHANGED <<live, memfd, file, hostmem, call, todo, punctured>>

\* mremap(host_addr, 0, len, MREMAP_MAYMOVE | MREMAP_FIXED, target).
alias_host ==
    /\ pc = "mremap"
    /\ \/ /\ call.host .. (call.host + call.len - 1) \subseteq Shared
          /\ at' = Place("alias", call.host)
          /\ Goto("mprotect")
          /\ punctured' = punctured \ Span
       \/ Goto("restore") /\ UNCHANGED <<at, punctured>>
    /\ UNCHANGED <<live, memfd, file, hostmem, call, todo>>

\* A failing mprotect leaves the protection of the source; true all the same.
protect_alias ==
    /\ pc = "mprotect"
    /\ \/ at' = Protect
       \/ UNCHANGED at
    /\ Return(TRUE)
    /\ UNCHANGED <<live, memfd, file, hostmem, call, todo, punctured>>

restore_skipped ==
    /\ pc = "restore"
    /\ Goto("memfd")
    /\ UNCHANGED <<live, at, memfd, file, hostmem, call, todo, punctured>>

\* Back to PROT_NONE before the fallback; if that fails the hole stays.
restore_reservation ==
    /\ pc = "restore"
    /\ \/ /\ at' = Fill(Span, Reserved)
          /\ punctured' = punctured \ Span
          /\ Goto("memfd")
       \/ /\ punctured' = punctured \cup Span
          /\ Return(FALSE)
          /\ UNCHANGED at
    /\ UNCHANGED <<live, memfd, file, hostmem, call, todo>>

memfd_offset_zero == 0

\* The file offset of a range in the memfd is its vm_offset.
memfd_offset == call.off

\* One memfd per task, with the size of the reservation; creating it may fail.
task_create_memfd == memfd' \in BOOLEAN /\ (memfd => memfd')

\* task_map_via_copy up to its mmap, which refuses a negative file offset.
map_memfd ==
    /\ pc = "memfd"
    /\ task_create_memfd
    /\ \/ Return(FALSE) /\ UNCHANGED <<at, punctured>>
       \/ /\ memfd' /\ memfd_offset < Half
          /\ at' = Place("memfd", memfd_offset)
          /\ punctured' = punctured \ Span
          /\ Goto("copy")
    /\ UNCHANGED <<live, file, hostmem, call, todo>>

\* The rest of it: memcpy, then mprotect, whose failure is one of the call.
copy_contents ==
    LET source(f) == {p \in Span : at[p].page = f}
    IN  /\ pc = "copy"
        /\ file' = IF call.host = None THEN file
                   ELSE [f \in Pages |->
                           IF source(f) = {} THEN file[f]
                           ELSE LET p == CHOOSE p \in source(f) : TRUE
                                IN  hostmem[call.host + Index(p, call.off)]]
        /\ \/ /\ at' = Protect
              /\ Return(TRUE)
           \/ call.ro /\ UNCHANGED at /\ Return(FALSE)
        /\ UNCHANGED <<live, memfd, hostmem, call, todo, punctured>>

\* External: the shell goes on with the next range, or gives up.
next_range ==
    /\ pc = "done"
    /\ IF ret /\ todo # <<>>
       THEN /\ pc' = "enter"
            /\ call' = [off |-> u64(call.off + call.len), host |-> Head(todo).host,
                        len |-> Head(todo).len, ro |-> call.ro]
            /\ todo' = Tail(todo)
            /\ UNCHANGED ret
       ELSE pc' = "idle" /\ todo' = <<>> /\ call' = NoCall /\ ret' = FALSE
    /\ UNCHANGED <<live, at, memfd, file, hostmem, punctured>>

-----------------------------------------------------------------------------
(* The rest of the process. *)

\* Another thread's mmap is placed in a hole of the range, or goes away; what lies
\* around the range is taken to stay.
OtherMaps(p) ==
    /\ \/ at[p].kind = "free" /\ at' = [at EXCEPT ![p] = Other]
       \/ at[p].kind = "other" /\ at' = [at EXCEPT ![p] = Free]
    /\ UNCHANGED <<live, memfd, file, hostmem, pc, call, todo, ret, punctured>>

\* The guest writes its memory.
HostWrites(h, d) ==
    /\ hostmem' = [hostmem EXCEPT ![h] = d]
    /\ UNCHANGED <<live, at, memfd, file, pc, call, todo, ret, punctured>>

\* The library or the shell writes through the task's range.
TaskWrites(p, d) ==
    /\ pc = "idle" /\ at[p].rw
    /\ \/ /\ at[p].kind = "alias"
          /\ hostmem' = [hostmem EXCEPT ![at[p].page] = d]
          /\ UNCHANGED file
       \/ /\ at[p].kind = "memfd"
          /\ file' = [file EXCEPT ![at[p].page] = d]
          /\ UNCHANGED hostmem
    /\ UNCHANGED <<live, at, memfd, pc, call, todo, ret, punctured>>

MapStep ==
    \/ lagfx_task_map_host_memory
    \/ punch_hole
    \/ alias_host
    \/ protect_alias
    \/ restore_reservation
    \/ map_memfd
    \/ copy_contents
    \/ next_range

MemoryNext ==
    \/ lagfx_task_create
    \/ lagfx_task_destroy
    \/ UnmapCommand
    \/ \E off \in Offsets, n \in 1 .. MaxRanges, ro \in BOOLEAN :
          \E ranges \in [1 .. n -> Ranges] : lagfx_memory_map_memory2(off, ranges, ro)
    \/ MapStep
    \/ \E p \in Pages : OtherMaps(p)
    \/ \E h \in HostPages, d \in Data : HostWrites(h, d)
    \/ \E p \in Pages, d \in Data : TaskWrites(p, d)

MemorySpec == MemoryInit /\ [][MemoryNext]_memoryVars

-----------------------------------------------------------------------------
(* Properties. *)

\* "so the task VA stays intact": between calls every page of a task's range is
\* reserved or mapped by the task, whichever calls failed and whatever other
\* threads mapped meanwhile; the exception is a page whose restoring mmap failed
\* and which no later call has mapped or unmapped.
ReservationHeld ==
    live /\ pc = "idle" =>
        \A p \in Pages : at[p].kind \in Gone => p \in punctured

\* What a page of the range shows: its mapping, and the contents it has beside
\* host memory.
Shown(p) == <<at[p], IF at[p].kind = "memfd" THEN file[at[p].page] ELSE 0>>

\* The check of the call in progress has wrapped around.
Wrapped == call.off + call.len >= Wrap

\* A map call, from its checks to its last mprotect, changes neither the mapping
\* nor the contents of a page outside its range, although copies of all ranges
\* share one memfd; and it touches what lies around the reservation only if the
\* 64-bit sum of its offset and length wrapped, which the check lets pass.
OutsideUntouched ==
    [][\A p \in Space :
          /\ pc \notin {"idle", "done"}
          /\ p \notin Span \/ (p \notin Pages /\ ~Wrapped)
          /\ at[p].kind \notin Gone \/ p \notin Pages
          => Shown(p)' = Shown(p)]_memoryVars

=============================================================================
