------------------------------- MODULE Stamps -------------------------------
(***************************************************************************)
(* Stamp completion: how the host tells the guest that a command is done.  *)
(*                                                                         *)
(* Every channel slot has a 32-bit stamp cell in guest memory.  When a     *)
(* drain loop has dispatched a command it calls                            *)
(* lagfx_protocol_complete_stamp_slot (src/protocol/stamp.c), which        *)
(*   1. moves the slot's cell forward (lagfx_advance_stamp_cell: a DMA     *)
(*      read, a DMA write, either of which may fail),                      *)
(*   2. sets the slot's bit in pending_stamps_bitmask (release fetch-or),  *)
(*   3. raises MSI vector 0.                                               *)
(* The guest's interrupt handler reads BAR0+0x1018, an exchange-and-clear  *)
(* of the mask (doorbell_handle_read), and re-reads the cells it names.    *)
(* The mask is atomic because the drain and the BAR read are allowed to    *)
(* run on different threads (state.h), so the three host steps and the     *)
(* guest's steps interleave here.                                          *)
(***************************************************************************)
EXTENDS Integers

CONSTANTS
    Slots,      \* stamp slots (0 is the root channel, 1..15 the others)
    StampMod,   \* 2^32 in the code: cells and stamps are uint32_t
    MaxStamp,   \* bound: the largest stamp a command carries
    MaxReplay,  \* bound: completions per slot whose stamp is not a new maximum
    Faults      \* which DMA calls of the shell may fail

ASSUME StampsAssumption ==
    /\ StampMod \in Nat /\ StampMod > 1
    /\ MaxStamp \in 0 .. (StampMod - 1)
    /\ MaxReplay \in Nat
    /\ Slots # {}

VARIABLES
    cell,    \* guest memory: stampBases[slot]
    pending, \* pending_stamps_bitmask, as the set of its bits
    base,    \* ring_base_pfn # 0: the guest has published the stamp page
    irq,     \* MSI vector 0 is latched and not yet taken
    pc,      \* where the host is in complete_stamp_slot
    slot,    \* its parameter slot
    stamp,   \* its parameter stamp, kept as last_completed_stamp
    isr,     \* the guest's interrupt handler
    latched, \* the bits the handler got from BAR0+0x1018 and has not served
    seen,    \* the cell value the guest last acted on
    done,    \* history: the largest stamp completed per slot
    replays  \* history: completions with a stamp that was not a new maximum

hostVars  == <<cell, pending, base, pc, slot, stamp>>
guestVars == <<isr, latched, seen>>
history   == <<done, replays>>
stampVars == <<cell, pending, base, irq, pc, slot, stamp, isr, latched, seen,
               done, replays>>

Stamp == 0 .. (StampMod - 1)

StampsTypeOK ==
    /\ cell \in [Slots -> Stamp]
    /\ pending \in SUBSET Slots
    /\ base \in BOOLEAN
    /\ irq \in BOOLEAN
    /\ pc \in {"idle", "cell", "bit", "irq"}
    /\ slot \in Slots
    /\ stamp \in Stamp
    /\ isr \in {"idle", "read", "serve"}
    /\ latched \in SUBSET Slots
    /\ seen \in [Slots -> Stamp]
    /\ done \in [Slots -> Stamp]
    /\ replays \in [Slots -> Nat]

StampsInit ==
    /\ cell = [s \in Slots |-> 0]
    /\ pending = {}
    /\ base = FALSE
    /\ irq = FALSE
    /\ pc = "idle"
    /\ slot \in Slots
    /\ stamp = 0
    /\ isr = "idle"
    /\ latched = {}
    /\ seen = [s \in Slots |-> 0]
    /\ done = [s \in Slots |-> 0]
    /\ replays = [s \in Slots |-> 0]

-----------------------------------------------------------------------------
(* The host. *)

\* Whether a shell DMA call of this kind succeeds: it may always, and may fail
\* when the kind is among the modelled faults.
Outcome(kind) == IF kind \in Faults THEN BOOLEAN ELSE {TRUE}

\* Variants that a slip in this code would produce; each breaks a property.
next_stamp_overwrite(cur, target) == IF target < 1 THEN 1 ELSE target

next_stamp_step(cur, target) == (cur + 1) % StampMod

next_stamp_overshoot(cur, target) ==
    IF target > cur THEN (target + 1) % StampMod ELSE (cur + 1) % StampMod

\* "Write max(target, cur+1), floor of 1", in uint32_t.
next_stamp(cur, target) ==
    LET next == IF target > cur THEN target ELSE (cur + 1) % StampMod
    IN  IF next < 1 THEN 1 ELSE next

\* The drain calls complete_stamp_slot(s, t) for the command it dispatched.
lagfx_protocol_complete_stamp_slot(s, t) ==
    /\ pc = "idle"
    /\ t > done[s] \/ replays[s] < MaxReplay
    /\ pc' = "cell"
    /\ slot' = s
    /\ stamp' = t
    /\ done' = [done EXCEPT ![s] = IF t > @ THEN t ELSE @]
    /\ replays' = [replays EXCEPT ![s] = IF t > done[s] THEN @ ELSE @ + 1]
    /\ UNCHANGED <<cell, pending, base, irq, guestVars>>

\* Step 1.  No write before the guest published the page; a failed read counts
\* as cur = 0; a failed write is only logged.
lagfx_advance_stamp_cell ==
    /\ pc = "cell"
    /\ pc' = "bit"
    /\ \E read \in Outcome("cell_read"), written \in Outcome("cell_write") :
         LET cur == IF read THEN cell[slot] ELSE 0
         IN  cell' = IF base /\ written
                     THEN [cell EXCEPT ![slot] = next_stamp(cur, stamp)]
                     ELSE cell
    /\ UNCHANGED <<pending, base, irq, slot, stamp, guestVars, history>>

set_pending_bit_store ==
    /\ pc = "bit"
    /\ pc' = "irq"
    /\ pending' = {slot}
    /\ UNCHANGED <<cell, base, irq, slot, stamp, guestVars, history>>

\* Step 2: atomic_fetch_or_explicit(..., memory_order_release).
set_pending_bit ==
    /\ pc = "bit"
    /\ pc' = "irq"
    /\ pending' = pending \cup {slot}
    /\ UNCHANGED <<cell, base, irq, slot, stamp, guestVars, history>>

\* Step 3: shell.raise_interrupt(opaque, 0).  An MSI is an edge: raising it
\* again before the guest takes it has no further effect.
raise_interrupt ==
    /\ pc = "irq"
    /\ pc' = "idle"
    /\ irq' = TRUE
    /\ UNCHANGED <<cell, pending, base, slot, stamp, guestVars, history>>

-----------------------------------------------------------------------------
(* The guest. *)

\* BAR0+0x1030 with a non-zero page number.  An MMIO write, so it is never
\* concurrent with a drain (the emulator's lock serialises both).
publish_stamp_page ==
    /\ ~base
    /\ pc = "idle"
    /\ base' = TRUE
    /\ UNCHANGED <<cell, pending, irq, pc, slot, stamp, guestVars, history>>

TakeInterrupt ==
    /\ irq
    /\ isr = "idle"
    /\ irq' = FALSE
    /\ isr' = "read"
    /\ UNCHANGED <<hostVars, latched, seen, history>>

\* BAR0+0x1018: atomic_exchange_explicit(mask, 0, memory_order_acquire).
read_stamp_bitmask ==
    /\ isr = "read"
    /\ isr' = "serve"
    /\ latched' = pending
    /\ pending' = {}
    /\ UNCHANGED <<cell, base, irq, pc, slot, stamp, seen, history>>

\* The handler wakes the slot's waiters, who read the cell.
ServeSlot(s) ==
    /\ isr = "serve"
    /\ s \in latched
    /\ latched' = latched \ {s}
    /\ seen' = [seen EXCEPT ![s] = cell[s]]
    /\ UNCHANGED <<hostVars, irq, isr, history>>

ReturnFromInterrupt ==
    /\ isr = "serve"
    /\ latched = {}
    /\ isr' = "idle"
    /\ UNCHANGED <<hostVars, irq, latched, seen, history>>

-----------------------------------------------------------------------------

\* Once a completion is under way the host takes its remaining steps.
HostCompletes == lagfx_advance_stamp_cell \/ set_pending_bit \/ raise_interrupt

GuestHandles ==
    \/ TakeInterrupt
    \/ read_stamp_bitmask
    \/ \E s \in Slots : ServeSlot(s)
    \/ ReturnFromInterrupt

StampsNext ==
    \/ \E s \in Slots, t \in 0 .. MaxStamp :
          lagfx_protocol_complete_stamp_slot(s, t)
    \/ HostCompletes
    \/ publish_stamp_page
    \/ GuestHandles

StampsSpec == StampsInit /\ [][StampsNext]_stampVars

StampsFairSpec ==
    StampsSpec /\ WF_stampVars(HostCompletes) /\ WF_stampVars(GuestHandles)

-----------------------------------------------------------------------------
(* Properties. *)

\* No lost wakeup (the cross-thread contract of state.h): a cell that moved
\* since the guest last looked has its bit set, or latched by the handler, or
\* about to be set; and a set bit has an interrupt that will make the handler
\* read the mask.
NoLostWakeup ==
    /\ \A s \in Slots :
          cell[s] # seen[s] =>
              s \in pending \/ s \in latched \/ (pc = "bit" /\ slot = s)
    /\ pending # {} => irq \/ isr = "read" \/ pc = "irq"

\* The guest is never told of a stamp that was not completed, except by one
\* step for every completion whose stamp was not new: a cell exceeds the
\* largest completed stamp by at most the number of such replays.
CellBound == \A s \in Slots : cell[s] <= done[s] + replays[s]

\* "Monotonic stamp-cell advance - never regresses" (stamp.c:13).
StampNeverRegresses == [][\A s \in Slots : cell'[s] >= cell[s]]_stampVars

\* A completion that starts with the stamp page published and no failing DMA
\* is seen by the guest: some later interrupt shows it a cell at or past the
\* stamp.
CompletionReachesGuest ==
    \A s \in Slots, t \in 0 .. MaxStamp :
        (pc = "cell" /\ slot = s /\ stamp = t /\ base) ~> (seen[s] >= t)

=============================================================================
