------------------------------ MODULE RootRing ------------------------------
(***************************************************************************)
(* The root channel: its MMIO registers (src/doorbell.c), its doorbells    *)
(* (primary_ring_door_dispatcher.c, channel_door_dispatcher.c for channel  *)
(* 0) and its drain (channel_0_dispatcher.c), with stamp slot 0 of module  *)
(* Stamps and the reset of the device (lagfx_device_reset in src/device.c).*)
(*                                                                         *)
(* The root ring is contiguous guest memory.  Its read pointer lives in    *)
(* the host only, wraps at the ring size and is never published: the guest *)
(* reuses ring space when the stamp cell shows a command as completed.     *)
(***************************************************************************)
EXTENDS Stamps, Sequences

CONSTANTS
    RingSize,    \* what the guest writes to BAR0+0x1004
    DefaultSize, \* 0x10000
    PageSize,    \* 0x1000
    Pfn,         \* what the guest writes to BAR0+0x1030
    StartOffset, \* what the guest writes to BAR0+0x1010
    MemSize,     \* bound: the guest memory modelled
    Hdr,         \* LAGFX_CMD_HEADER_BYTES
    MaxCmd,      \* LAGFX_CH0_MAX_CMD_BYTES
    DrainMax,    \* LAGFX_CH0_DRAIN_MAX_CMDS
    Lens,        \* the command lengths the guest uses
    ExecLens,    \* those of CmdExecIndirect2
    MaxCmds,     \* bound: commands per boot of the guest
    Batch,       \* the most commands the guest writes per doorbell
    MaxBoots     \* bound: boots of the guest

ASSUME RootAssumption ==
    /\ 0 \in Slots
    /\ RingSize \in Nat \ {0} /\ DefaultSize \in Nat \ {0}
    /\ PageSize \in Nat \ {0} /\ Pfn \in Nat \ {0} /\ StartOffset \in Nat
    /\ MemSize \in Nat /\ Hdr \in Nat \ {0}
    /\ Pfn * PageSize + StartOffset + RingSize + Hdr <= MemSize
    /\ Lens \subseteq Hdr .. RingSize /\ ExecLens \subseteq Lens
    /\ MaxCmds \in 0 .. MaxStamp

Registers == {"status", "ring_size", "start_offset", "base_pfn"}
NoBell == -1

VARIABLES
    mem,               \* guest memory
    ring_armed,        \* the protocol state behind the registers;
    ring_size,         \* ring_base_pfn # 0 is Stamps' variable base
    ring_start_offset,
    ring_base_gpa,
    read_ptr,
    write_ptr,
    programmed,        \* guest: the registers written since it booted
    unrung,            \* guest: commands written since its last doorbell
    bell,              \* the value of a BAR0+0x1008 write waiting to be handled
    kick,              \* a write of 0 to BAR0+0x1020 waiting to be handled
    dpc,               \* where the drain is
    cmds,              \* commands drained so far
    cmd,               \* the command whose header it read
    twice,             \* history: CmdExecIndirect2 and the drain completed the same stamp
    boots,             \* history: how often the guest booted
    faulty,            \* history: some DMA of a drain failed
    log,               \* history: start and length of the commands of this boot
    executed           \* history: those dispatched, 0 for a torn one

regVars  == <<ring_armed, ring_size, ring_start_offset, ring_base_gpa>>
rootVars == <<mem, regVars, read_ptr, write_ptr, programmed, unrung, bell, kick,
              dpc, cmds, cmd, twice, boots, faulty, log, executed>>
vars == <<stampVars, rootVars>>

Empty == <<0, 0>>
GuestBase == Pfn * PageSize + StartOffset

RootTypeOK ==
    /\ StampsTypeOK
    /\ mem \in [0 .. (MemSize - 1) -> (0 .. MaxCmds) \X (0 .. RingSize)]
    /\ ring_armed \in BOOLEAN
    /\ ring_size \in {0, RingSize, DefaultSize}
    /\ ring_start_offset \in {0, StartOffset}
    /\ ring_base_gpa \in 0 .. GuestBase
    /\ read_ptr \in 0 .. (RingSize - 1)
    /\ write_ptr \in 0 .. (RingSize - 1)
    /\ programmed \subseteq Registers
    /\ unrung \in 0 .. Batch
    /\ bell \in {NoBell} \cup (0 .. (RingSize - 1))
    /\ kick \in BOOLEAN
    /\ dpc \in {"idle", "header", "body", "exec", "complete"}
    /\ cmds \in 0 .. DrainMax
    /\ cmd \in [index : 0 .. MaxCmds, length : 0 .. RingSize]
    /\ twice \in BOOLEAN
    /\ boots \in 1 .. MaxBoots
    /\ faulty \in BOOLEAN
    /\ log \in Seq([start : Nat, len : Lens])
    /\ executed \in Seq(0 .. MaxCmds)

\* lagfx_protocol_new and doorbell_init: everything is zero; the STATUS shadow
\* reads 1, but the ring is not armed until the guest writes 0x1000.
RootInit ==
    /\ StampsInit
    /\ mem = [a \in 0 .. (MemSize - 1) |-> Empty]
    /\ ring_armed = FALSE /\ ring_size = 0
    /\ ring_start_offset = 0 /\ ring_base_gpa = 0
    /\ read_ptr = 0 /\ write_ptr = 0
    /\ programmed = {} /\ unrung = 0 /\ bell = NoBell /\ kick = FALSE
    /\ dpc = "idle" /\ cmds = 0 /\ cmd = [index |-> 0, length |-> 0]
    /\ twice = FALSE /\ boots = 1 /\ faulty = FALSE /\ log = <<>> /\ executed = <<>>

-----------------------------------------------------------------------------
(* doorbell_handle_write, the state registers.  MMIO is serialised with the *)
(* drain by the emulator's lock.                                            *)

Programs(r) ==
    /\ dpc = "idle"
    /\ r \notin programmed
    /\ programmed' = programmed \cup {r}
    /\ UNCHANGED <<cell, pending, irq, pc, slot, stamp, guestVars, history, mem,
                   read_ptr, write_ptr, unrung, bell, kick, dpc, cmds, cmd,
                   twice, boots, faulty, log, executed>>

write_status_control ==
    /\ Programs("status")
    /\ ring_armed' = TRUE
    /\ UNCHANGED <<base, ring_size, ring_start_offset, ring_base_gpa>>

write_ring_size ==
    /\ Programs("ring_size")
    /\ ring_size' = IF RingSize # 0 THEN RingSize ELSE DefaultSize
    /\ UNCHANGED <<base, ring_armed, ring_start_offset, ring_base_gpa>>

\* Once written without recomputing the address.
write_start_offset_only ==
    /\ Programs("start_offset")
    /\ ring_start_offset' = StartOffset
    /\ UNCHANGED <<base, ring_armed, ring_size, ring_base_gpa>>

write_start_offset ==
    /\ Programs("start_offset")
    /\ ring_start_offset' = StartOffset
    /\ ring_base_gpa' = (IF base THEN Pfn * PageSize ELSE 0) + StartOffset
    /\ UNCHANGED <<base, ring_armed, ring_size>>

write_base_pfn ==
    /\ Programs("base_pfn")
    /\ base' = TRUE
    /\ ring_base_gpa' = Pfn * PageSize + ring_start_offset
    /\ ring_size' = IF ring_size = 0 THEN DefaultSize ELSE ring_size
    /\ UNCHANGED <<ring_armed, ring_start_offset>>

-----------------------------------------------------------------------------
(* The guest: the kext's producer on the root ring. *)

End(n) == IF n = 0 THEN 0 ELSE log[n].start + log[n].len

\* The last command the guest knows to be completed: stamps number commands.
Completed == IF seen[0] < Len(log) THEN seen[0] ELSE Len(log)

\* Space is free up to the completed commands; a full ring would look empty.
WriteCommand(len) ==
    LET i == Len(log) + 1
        first == End(Len(log))
        place == [k \in 0 .. (len - 1) |-> GuestBase + ((first + k) % RingSize)]
    IN  /\ programmed = Registers
        /\ i <= MaxCmds
        /\ unrung < Batch
        /\ first + len - End(Completed) < RingSize
        /\ mem' = [a \in DOMAIN mem |->
                      IF \E k \in DOMAIN place : place[k] = a
                      THEN <<i, CHOOSE k \in DOMAIN place : place[k] = a>>
                      ELSE mem[a]]
        /\ log' = Append(log, [start |-> first, len |-> len])
        /\ unrung' = unrung + 1
        /\ UNCHANGED <<stampVars, regVars, read_ptr, write_ptr, programmed,
                       bell, kick, dpc, cmds, cmd, twice, boots, faulty, executed>>

\* BAR0+0x1008 carries the write pointer.
RingDoorbell ==
    /\ programmed = Registers
    /\ bell = NoBell
    /\ unrung > 0
    /\ bell' = End(Len(log)) % RingSize
    /\ unrung' = 0
    /\ UNCHANGED <<stampVars, mem, regVars, read_ptr, write_ptr, programmed,
                   kick, dpc, cmds, cmd, twice, boots, faulty, log, executed>>

\* BAR0+0x1020 with channel 0 drains up to the write pointer already known.
KickChannel0 ==
    /\ ~kick
    /\ programmed = Registers
    /\ kick' = TRUE
    /\ UNCHANGED <<stampVars, mem, regVars, read_ptr, write_ptr, programmed,
                   unrung, bell, dpc, cmds, cmd, twice, boots, faulty, log, executed>>

\* The guest reboots: its memory is fresh and its driver starts over.  The
\* emulator calls lagfx_device_reset, which only logs.
lagfx_device_reset ==
    /\ boots < MaxBoots
    /\ dpc = "idle" /\ bell = NoBell /\ ~kick
    /\ boots' = boots + 1
    /\ mem' = [a \in DOMAIN mem |-> Empty]
    /\ cell' = [s \in Slots |-> 0]
    /\ seen' = [s \in Slots |-> 0]
    /\ done' = [s \in Slots |-> 0]
    /\ replays' = [s \in Slots |-> 0]
    /\ irq' = FALSE /\ isr' = "idle" /\ latched' = {}
    /\ programmed' = {} /\ unrung' = 0
    /\ log' = <<>> /\ executed' = <<>>
    /\ UNCHANGED <<pending, base, pc, slot, stamp, regVars, read_ptr, write_ptr,
                   bell, kick, dpc, cmds, cmd, twice, faulty>>

-----------------------------------------------------------------------------
(* The host: the drain. *)

\* The guards of channel_0_dispatcher_drain.
DrainStarts(wp) ==
    ring_armed /\ ring_size # 0 /\ ring_base_gpa # 0 /\ read_ptr # wp

primary_ring_door_dispatch ==
    /\ dpc = "idle"
    /\ bell # NoBell
    /\ write_ptr' = bell
    /\ bell' = NoBell
    /\ cmds' = 0
    /\ dpc' = IF DrainStarts(bell) THEN "header" ELSE "idle"
    /\ UNCHANGED <<stampVars, mem, regVars, read_ptr, programmed, unrung, kick,
                   cmd, twice, boots, faulty, log, executed>>

channel_door_dispatch_0 ==
    /\ dpc = "idle"
    /\ kick
    /\ kick' = FALSE
    /\ cmds' = 0
    /\ dpc' = IF DrainStarts(write_ptr) THEN "header" ELSE "idle"
    /\ UNCHANGED <<stampVars, mem, regVars, read_ptr, write_ptr, programmed,
                   unrung, bell, cmd, twice, boots, faulty, log, executed>>

\* The assumption the code once made: a header never wraps.
read_ring_unwrapped(offset, len) ==
    [k \in 0 .. (len - 1) |-> mem[ring_base_gpa + offset + k]]

\* One DMA, or two when the range passes the end of the ring.
read_ring(offset, len) ==
    [k \in 0 .. (len - 1) |-> mem[ring_base_gpa + ((offset + k) % ring_size)]]

LengthOK(length) == length >= Hdr /\ length <= MaxCmd /\ length <= ring_size

\* What was read is the beginning of command i, byte for byte.
Intact(bytes, i) == \A k \in DOMAIN bytes : bytes[k] = <<i, k>>

\* The header fields in these bytes: those of the command they begin; a length
\* of 0 in memory never written; anything when they are torn or displaced.
Decoded(bytes) ==
    LET i == bytes[0][1]
    IN  IF i # 0 /\ Intact(bytes, i)
        THEN {[index |-> i, length |-> log[i].len]}
        ELSE IF \A k \in DOMAIN bytes : bytes[k] = Empty
        THEN {[index |-> 0, length |-> 0]}
        ELSE [index : {0}, length : 0 .. RingSize]

\* The loop's tests and the header; every break ends the drain.
read_header ==
    /\ dpc = "header"
    /\ \E ok \in Outcome("ring_read"),
          hdr \in Decoded(read_ring(read_ptr % ring_size, Hdr)) :
         /\ IF cmds < DrainMax /\ read_ptr # write_ptr /\ ok /\ LengthOK(hdr.length)
            THEN /\ cmd' = hdr
                 /\ dpc' = "body"
            ELSE /\ dpc' = "idle"
                 /\ UNCHANGED cmd
         /\ faulty' = (faulty \/ ~ok)
    /\ UNCHANGED <<stampVars, mem, regVars, read_ptr, write_ptr, programmed,
                   unrung, bell, kick, cmds, twice, boots, log, executed>>

\* The whole command goes to scratch_ch0 and its handler; then its stamp, which
\* CmdExecIndirect2 has already completed unless it returned early.
read_body_and_dispatch ==
    /\ dpc = "body"
    /\ \/ /\ "ring_read" \in Faults
          /\ dpc' = "idle"
          /\ faulty' = TRUE
          /\ UNCHANGED <<stampVars, executed>>
       \/ LET bytes == read_ring(read_ptr % ring_size, cmd.length)
          IN  /\ executed' = Append(executed, IF Intact(bytes, cmd.index)
                                              THEN cmd.index ELSE 0)
              /\ lagfx_protocol_complete_stamp_slot(0, cmd.index)
              /\ \/ dpc' = "complete"
                 \/ dpc' = "exec" /\ cmd.length \in ExecLens /\ cmd.index # 0
              /\ UNCHANGED faulty
    /\ UNCHANGED <<mem, regVars, read_ptr, write_ptr, programmed, unrung, bell,
                   kick, cmds, cmd, twice, boots, log>>

complete_after_exec ==
    /\ dpc = "exec"
    /\ lagfx_protocol_complete_stamp_slot(0, cmd.index)
    /\ dpc' = "complete"
    /\ twice' = TRUE
    /\ UNCHANGED <<mem, regVars, read_ptr, write_ptr, programmed, unrung, bell,
                   kick, cmds, cmd, boots, faulty, log, executed>>

AdvanceTo(n) ==
    /\ dpc = "complete"
    /\ pc = "idle"
    /\ read_ptr' = n
    /\ cmds' = cmds + 1
    /\ dpc' = "header"
    /\ UNCHANGED <<stampVars, mem, regVars, write_ptr, programmed, unrung, bell,
                   kick, cmd, twice, boots, faulty, log, executed>>

advance_read_ptr_unwrapped == AdvanceTo((read_ptr % ring_size) + cmd.length)

advance_read_ptr == AdvanceTo(((read_ptr % ring_size) + cmd.length) % ring_size)

-----------------------------------------------------------------------------

Drain == read_header \/ read_body_and_dispatch \/ complete_after_exec \/ advance_read_ptr
Doors == primary_ring_door_dispatch \/ channel_door_dispatch_0
CompleteStamp == HostCompletes /\ UNCHANGED rootVars
HandleInterrupt == GuestHandles /\ UNCHANGED rootVars

RootNext ==
    \/ write_status_control
    \/ write_ring_size
    \/ write_start_offset
    \/ write_base_pfn
    \/ \E len \in Lens : WriteCommand(len)
    \/ RingDoorbell
    \/ KickChannel0
    \/ lagfx_device_reset
    \/ Doors
    \/ Drain
    \/ CompleteStamp
    \/ HandleInterrupt

\* The host finishes its drains and handles waiting doorbells; the guest rings
\* for what it wrote.
RootSpec ==
    /\ RootInit /\ [][RootNext]_vars
    /\ WF_vars(Drain) /\ WF_vars(CompleteStamp) /\ SF_vars(primary_ring_door_dispatch)
    /\ WF_vars(RingDoorbell)

-----------------------------------------------------------------------------
(* Properties. *)

\* Whatever the order in which the guest writes its registers, and whatever an
\* earlier boot left in them, the host ends with the geometry the guest meant.
GeometryAgrees ==
    programmed = Registers =>
        ring_armed /\ base /\ ring_size = RingSize /\ ring_base_gpa = GuestBase

\* During the first boot the n-th dispatch is the n-th command as written,
\* although the guest reuses ring space on the strength of the stamp cell, until
\* a command whose stamp was completed twice has pushed the cell ahead.
RootExactlyOnce ==
    boots = 1 /\ ~twice => \A k \in DOMAIN executed : executed[k] = k

\* During the first boot every command written is dispatched, unless DMA fails,
\* a stamp was completed twice or a command is malformed, when the guest rings
\* once per DrainMax commands.
RootDrained ==
    []<>(\/ Len(executed) = Len(log)
         \/ boots > 1 \/ faulty \/ twice
         \/ \E i \in DOMAIN log : ~LengthOK(log[i].len))

=============================================================================
