---------------------------- MODULE ChannelRings ----------------------------
(***************************************************************************)
(* The secondary command rings: compute channels 1..4 and display pipes    *)
(* 5..15 (src/dispatchers/ring_common.c, channel_compute_dispatcher.c,     *)
(* channel_display_dispatcher.c), with the stamp completion of module      *)
(* Stamps that every drained command performs.                             *)
(*                                                                         *)
(* A ring is guest memory scattered over physical pages named by a PFN     *)
(* array.  Its descriptor holds two absolute uint32_t cursors: write_ptr,  *)
(* owned by the guest, and read_ptr, owned by the host and published only  *)
(* at the end of a drain.  The guest writes a command, moves write_ptr and *)
(* writes the channel number to BAR0+0x1020; the host then drains at most  *)
(* DrainMax commands.  Doorbells are serialised by the emulator's lock, so *)
(* one drain runs at a time, but other virtual CPUs keep filling rings     *)
(* while it runs.                                                          *)
(***************************************************************************)
EXTENDS Stamps, Sequences

CONSTANTS
    Chans,     \* the secondary channels (a channel's stamp slot is its number)
    RingSize,  \* 0x10000 or 0x1000 bytes in the code
    PageSize,  \* 0x1000
    PageMap,   \* the PFN array: ring page index -> physical page
    PhysSize,  \* bound: extent of the physical memory modelled per ring
    Hdr,       \* LAGFX_CMD_HEADER_BYTES
    MaxCmd,    \* LAGFX_*_MAX_CMD_BYTES
    DrainMax,  \* LAGFX_*_DRAIN_MAX_CMDS
    CursorMod, \* 2^32
    FirstByte, \* the cursors of an idle ring when the observation starts
    Lens,      \* the command lengths the guest uses
    ExecLens,  \* those of CmdExecIndirect2
    MaxCmds,   \* bound: commands per channel
    Batch,     \* the most commands the guest publishes per doorbell
    MaxBells,  \* bound: doorbell writes waiting for the lock, per channel
    MaxLost    \* bound: publications of read_ptr that fail

ASSUME RingsAssumption ==
    /\ Chans \subseteq Slots
    /\ RingSize \in Nat \ {0} /\ PageSize \in Nat \ {0}
    /\ RingSize % PageSize = 0 /\ CursorMod % RingSize = 0
    /\ CursorMod \in Nat /\ RingSize < CursorMod /\ FirstByte \in 0 .. (CursorMod - 1)
    /\ Hdr \in Nat \ {0} /\ MaxCmd \in Nat /\ DrainMax \in Nat \ {0}
    /\ Lens \subseteq Hdr .. RingSize /\ ExecLens \subseteq Lens
    /\ MaxCmds \in Nat /\ MaxCmds <= MaxStamp

\* The PFN array names a page of its own for each page of the ring.
ASSUME PagesAssumption ==
    /\ PhysSize \in Nat
    /\ PageMap \in [0 .. (RingSize \div PageSize - 1) -> Nat]
    /\ \A p, q \in DOMAIN PageMap : PageMap[p] = PageMap[q] => p = q
    /\ \A p \in DOMAIN PageMap : (PageMap[p] + 1) * PageSize <= PhysSize

VARIABLES
    mem,      \* guest memory: the data pages of each ring
    desc,     \* guest memory: the FIFORingDescriptor of each channel
    tail,     \* guest: where it writes the next command
    unrung,   \* guest: commands published since its last doorbell
    bells,    \* doorbell writes waiting to be handled
    dpc,      \* where the drain is
    chan,     \* its channel
    write_ptr,\* its copy of the descriptor's write_ptr
    rp,       \* its local read pointer
    cmds,     \* commands drained so far
    cmd,      \* the command whose header it read (its index, and its length)
    lost,     \* history: publications that failed
    faulty,   \* history: some DMA of a drain failed
    log,      \* history: start and length of every command written
    executed  \* history: the commands dispatched, 0 for a torn body

ringVars == <<mem, desc, tail, unrung, bells, dpc, chan, write_ptr, rp,
              cmds, cmd, lost, faulty, log, executed>>
producer == <<mem, tail, log>>
bellVars == <<unrung, bells>>
drainVars == <<chan, write_ptr, rp, cmds, cmd>>
verdicts == <<lost, faulty, executed>>
vars == <<stampVars, ringVars>>

Cursor == 0 .. (CursorMod - 1)
Empty == <<0, 0>>

TypeOK ==
    /\ StampsTypeOK
    /\ mem \in [Chans -> [0 .. (PhysSize - 1) -> (0 .. MaxCmds) \X (0 .. RingSize)]]
    /\ desc \in [Chans -> [wp : Cursor, rp : Cursor]]
    /\ tail \in [Chans -> Cursor]
    /\ unrung \in [Chans -> 0 .. Batch]
    /\ bells \in [Chans -> 0 .. MaxBells]
    /\ dpc \in {"idle", "desc", "header", "body", "exec", "complete", "publish"}
    /\ chan \in Chans
    /\ write_ptr \in Cursor /\ rp \in Cursor
    /\ cmds \in 0 .. DrainMax
    /\ cmd \in [index : 0 .. MaxCmds, length : 0 .. RingSize]
    /\ lost \in 0 .. MaxLost
    /\ faulty \in BOOLEAN
    /\ log \in [Chans -> Seq([start : Nat, len : Lens])]
    /\ executed \in [Chans -> Seq(0 .. MaxCmds)]

Init ==
    /\ StampsInit
    /\ mem = [c \in Chans |-> [a \in 0 .. (PhysSize - 1) |-> Empty]]
    /\ desc = [c \in Chans |-> [wp |-> FirstByte, rp |-> FirstByte]]
    /\ tail = [c \in Chans |-> FirstByte]
    /\ unrung = [c \in Chans |-> 0]
    /\ bells = [c \in Chans |-> 0]
    /\ dpc = "idle"
    /\ chan \in Chans
    /\ write_ptr = 0 /\ rp = 0 /\ cmds = 0
    /\ cmd = [index |-> 0, length |-> 0]
    /\ lost = 0
    /\ faulty = FALSE
    /\ log = [c \in Chans |-> <<>>]
    /\ executed = [c \in Chans |-> <<>>]

-----------------------------------------------------------------------------
(* Addresses. *)

\* The page of the ring from the PFN array, plus the offset in the page.
lagfx_ring_resolve_data_gpa(offset) ==
    LET off_mod == offset % RingSize
    IN  PageMap[off_mod \div PageSize] * PageSize + (off_mod % PageSize)

\* The flat read the code once had: only the first byte is resolved.
ring_read_flat(c, offset, len) ==
    [k \in 0 .. (len - 1) |-> mem[c][lagfx_ring_resolve_data_gpa(offset) + k]]

\* Each 4 KiB chunk is resolved on its own, which amounts to each byte.
lagfx_ring_read_bytes(c, offset, len) ==
    [k \in 0 .. (len - 1) |-> mem[c][lagfx_ring_resolve_data_gpa(offset + k)]]

\* The length checks of the drain loops.
LengthOK(length) == length >= Hdr /\ length <= MaxCmd /\ length <= RingSize

\* What was read is the beginning of command i, byte for byte.
Intact(bytes, i) == \A k \in DOMAIN bytes : bytes[k] = <<i, k>>

\* The header fields in these bytes: those of the command they begin; a length
\* of 0 in memory never written; anything when they are torn or displaced.
Decoded(c, bytes) ==
    LET i == bytes[0][1]
    IN  IF i # 0 /\ Intact(bytes, i)
        THEN {[index |-> i, length |-> log[c][i].len]}
        ELSE IF \A k \in DOMAIN bytes : bytes[k] = Empty
        THEN {[index |-> 0, length |-> 0]}
        ELSE [index : {0}, length : 0 .. RingSize]

-----------------------------------------------------------------------------
(* The guest: the kext's ring producer. *)

\* Write a command where there is room according to the published read_ptr.
WriteCommand(c, len) ==
    LET i == Len(log[c]) + 1
        room == RingSize - ((tail[c] - desc[c].rp) % CursorMod)
        place == [k \in 0 .. (len - 1) |-> lagfx_ring_resolve_data_gpa(tail[c] + k)]
    IN  /\ i <= MaxCmds
        /\ desc[c].wp = tail[c]
        /\ len <= room
        /\ mem' = [mem EXCEPT ![c] =
                      [a \in DOMAIN @ |->
                          IF \E k \in DOMAIN place : place[k] = a
                          THEN <<i, CHOOSE k \in DOMAIN place : place[k] = a>>
                          ELSE @[a]]]
        /\ tail' = [tail EXCEPT ![c] = (@ + len) % CursorMod]
        /\ log' = [log EXCEPT ![c] =
                      Append(@, [start |-> IF i = 1 THEN FirstByte
                                           ELSE @[i - 1].start + @[i - 1].len,
                                 len |-> len])]
        /\ UNCHANGED <<stampVars, desc, bellVars, dpc, drainVars,
                       verdicts>>

PublishCommand(c) ==
    /\ desc[c].wp # tail[c]
    /\ unrung[c] < Batch
    /\ desc' = [desc EXCEPT ![c].wp = tail[c]]
    /\ unrung' = [unrung EXCEPT ![c] = @ + 1]
    /\ UNCHANGED <<stampVars, producer, bells, dpc, drainVars, verdicts>>

\* BAR0+0x1020: for new commands, or again while commands stay unconsumed.
RingDoorbell(c) ==
    /\ desc[c].wp # desc[c].rp
    /\ bells[c] < MaxBells
    /\ bells' = [bells EXCEPT ![c] = @ + 1]
    /\ unrung' = [unrung EXCEPT ![c] = 0]
    /\ UNCHANGED <<stampVars, producer, desc, dpc, drainVars, verdicts>>

-----------------------------------------------------------------------------
(* The host: one drain. *)

DrainGoto(p) == dpc' = p

\* The doorbell write gets the lock and is routed to the channel's drain.
channel_door_dispatch(c) ==
    /\ dpc = "idle"
    /\ bells[c] > 0
    /\ bells' = [bells EXCEPT ![c] = @ - 1]
    /\ chan' = c
    /\ cmds' = 0
    /\ DrainGoto("desc")
    /\ UNCHANGED <<stampVars, producer, desc, unrung, write_ptr, rp, cmd,
                   verdicts>>

\* Copies of both cursors; no drain without work, nor without a descriptor (a
\* failed read, a shared page or a ring_pfn that is not set up yet).
lagfx_ring_fifo_descriptor_read ==
    /\ dpc = "desc"
    /\ \E ok \in Outcome("desc_read") :
         /\ IF ok /\ desc[chan].wp # desc[chan].rp
            THEN /\ write_ptr' = desc[chan].wp
                 /\ rp' = desc[chan].rp
                 /\ DrainGoto("header")
            ELSE /\ DrainGoto("idle")
                 /\ UNCHANGED <<write_ptr, rp>>
         /\ faulty' = (faulty \/ ~ok)
    /\ UNCHANGED <<stampVars, producer, desc, bellVars, chan, cmds, cmd, lost,
                   executed>>

\* The loop's tests and the header: every break leads to the publication.
read_header ==
    /\ dpc = "header"
    /\ \E ok \in Outcome("ring_read"),
          hdr \in Decoded(chan, lagfx_ring_read_bytes(chan, rp, Hdr)) :
         /\ IF cmds < DrainMax /\ rp # write_ptr /\ ok /\ LengthOK(hdr.length)
            THEN /\ cmd' = hdr
                 /\ DrainGoto("body")
            ELSE /\ DrainGoto("publish")
                 /\ UNCHANGED cmd
         /\ faulty' = (faulty \/ ~ok)
    /\ UNCHANGED <<stampVars, producer, desc, bellVars, chan, write_ptr, rp,
                   cmds, lost, executed>>

\* The body lands in the scratch buffer and is dispatched; the stamp of the
\* header is then completed on the channel's slot.  CmdExecIndirect2, unless it
\* returns early, completes the stamp of its command on its own before that.
read_body_and_dispatch ==
    /\ dpc = "body"
    /\ \/ /\ "ring_read" \in Faults
          /\ DrainGoto("publish")
          /\ faulty' = TRUE
          /\ UNCHANGED <<stampVars, executed>>
       \/ LET bytes == lagfx_ring_read_bytes(chan, rp, cmd.length)
          IN  /\ executed' = [executed EXCEPT ![chan] =
                     Append(@, IF Intact(bytes, cmd.index) THEN cmd.index ELSE 0)]
              /\ lagfx_protocol_complete_stamp_slot(chan, cmd.index)
              /\ \/ DrainGoto("complete")
                 \/ /\ cmd.length \in ExecLens /\ cmd.index # 0
                    /\ DrainGoto("exec")
              /\ UNCHANGED faulty
    /\ UNCHANGED <<producer, desc, bellVars, drainVars, lost>>

\* The handler of CmdExecIndirect2 has returned: the drain's own completion.
complete_after_exec ==
    /\ dpc = "exec"
    /\ lagfx_protocol_complete_stamp_slot(chan, cmd.index)
    /\ DrainGoto("complete")
    /\ UNCHANGED <<producer, desc, bellVars, drainVars, verdicts>>

\* complete_stamp_slot has returned: on to the next command, at cursor n.
AdvanceTo(n) ==
    /\ dpc = "complete"
    /\ pc = "idle"
    /\ rp' = n
    /\ cmds' = cmds + 1
    /\ DrainGoto("header")
    /\ UNCHANGED <<stampVars, producer, desc, bellVars, chan, write_ptr, cmd,
                   verdicts>>

advance_read_ptr_unwrapped == AdvanceTo(rp + cmd.length)

\* rp += length, in uint32_t.
advance_read_ptr == AdvanceTo((rp + cmd.length) % CursorMod)

publish_write_ptr ==
    /\ dpc = "publish"
    /\ DrainGoto("idle")
    /\ desc' = [desc EXCEPT ![chan].rp = write_ptr]
    /\ UNCHANGED <<stampVars, producer, bellVars, drainVars, verdicts>>

\* A failed write is only logged: the descriptor keeps the old cursor.
lagfx_ring_publish_read_ptr ==
    /\ dpc = "publish"
    /\ DrainGoto("idle")
    /\ \/ /\ desc' = [desc EXCEPT ![chan].rp = rp]
          /\ UNCHANGED <<lost, faulty>>
       \/ /\ "publish" \in Faults
          /\ lost < MaxLost
          /\ lost' = lost + 1
          /\ faulty' = TRUE
          /\ UNCHANGED desc
    /\ UNCHANGED <<stampVars, producer, bellVars, drainVars, executed>>

-----------------------------------------------------------------------------

Drain ==
    \/ lagfx_ring_fifo_descriptor_read
    \/ read_header
    \/ read_body_and_dispatch
    \/ complete_after_exec
    \/ advance_read_ptr
    \/ lagfx_ring_publish_read_ptr

\* The three host steps of a completion.  The guest's interrupt handler is left
\* to module Stamps: no step here reads what it changes.
CompleteStamp ==
    /\ HostCompletes
    /\ UNCHANGED ringVars

\* BAR0+0x1030 is an MMIO write too: not during a drain.
StampPage ==
    /\ dpc = "idle"
    /\ publish_stamp_page
    /\ UNCHANGED ringVars

Next ==
    \/ \E c \in Chans : \/ \E len \in Lens : WriteCommand(c, len)
                        \/ PublishCommand(c)
                        \/ RingDoorbell(c)
                        \/ channel_door_dispatch(c)
    \/ Drain
    \/ CompleteStamp
    \/ StampPage

Spec == Init /\ [][Next]_vars

\* The host finishes the drain it is in and takes up every waiting doorbell;
\* the guest publishes what it wrote and rings for what it published.
Fairness ==
    /\ WF_vars(Drain)
    /\ WF_vars(CompleteStamp)
    /\ \A c \in Chans : /\ SF_vars(channel_door_dispatch(c))
                        /\ WF_vars(PublishCommand(c))
                        /\ WF_vars(unrung[c] > 0 /\ RingDoorbell(c))

FairSpec == Spec /\ Fairness

-----------------------------------------------------------------------------
(* Properties. *)

\* The commands the guest has made visible by moving write_ptr.
Submitted(c) == Len(log[c]) - (IF desc[c].wp = tail[c] THEN 0 ELSE 1)

Delivered(c) == IF executed[c] = <<>> THEN 0 ELSE executed[c][Len(executed[c])]

End(c, n) == IF n = 0 THEN FirstByte ELSE log[c][n].start + log[c][n].len

\* The command at whose end the published read_ptr stands; -1 if it stands at
\* no command's end.  The ring is smaller than the cursor, so it is the last
\* command whose end is congruent.
Acked(c) ==
    LET at == {n \in 0 .. Len(log[c]) : End(c, n) % CursorMod = desc[c].rp}
    IN  IF at = {} THEN -1 ELSE CHOOSE n \in at : \A m \in at : m <= n

Stream == INSTANCE CommandStream WITH
    submitted <- [c \in Chans |-> Submitted(c)],
    delivered <- [c \in Chans |-> Delivered(c)],
    acked <- [c \in Chans |-> Acked(c)],
    MayRewind <- "publish" \in Faults

\* Every channel is a command stream: in order, nothing skipped, nothing torn
\* or invented, redelivery only after a lost publication and only from the
\* published read_ptr, which always stands at a command boundary.
ImplementsStream == Stream!Spec

\* As long as no publication of read_ptr was lost, the n-th dispatch on a
\* channel is its n-th command, read back exactly as the guest wrote it,
\* whatever reads failed and however the ring and the cursors wrapped.
ExactlyOnce ==
    lost = 0 => \A c \in Chans : \A k \in DOMAIN executed[c] : executed[c][k] = k

\* "`stamp` is the standard per-channel monotonic that the universal complete_stamp
\* path already raises after dispatch": the cell does not reach the stamp of a command
\* that was not dispatched.
RaisedAfterDispatch ==
    lost = 0 => \A c \in Chans : cell[c] <= Len(executed[c])

\* Every command a guest publishes is dispatched (a channel is caught up again
\* and again), unless DMA failed or a command is malformed, when the guest
\* rings at least once per DrainMax commands.
EverythingDrained ==
    \A c \in Chans :
        []<>(\/ Delivered(c) = Submitted(c)
             \/ faulty
             \/ \E i \in DOMAIN log[c] : ~LengthOK(log[c][i].len))

=============================================================================
