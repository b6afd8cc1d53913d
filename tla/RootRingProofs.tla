--------------------------- MODULE RootRingProofs ---------------------------
(***************************************************************************)
(* Proofs about stamp completion (module Stamps), for every set of slots,  *)
(* every word size and every set of failing DMA calls, and about the root  *)
(* ring built on it, for every geometry, all lengths and all faults.       *)
(*                                                                         *)
(* The root ring has no shared read pointer: the guest reuses space when   *)
(* the stamp cell shows a command as completed.  So the argument ties the  *)
(* cell to the drain: it never shows more than has been dispatched, what   *)
(* is behind it lies intact in memory, and the drain stands behind a       *)
(* command of that window.                                                 *)
(***************************************************************************)
EXTENDS RootRing, TLAPS

-----------------------------------------------------------------------------
(* Stamps. *)

\* The handler holds latched bits only between reading the mask and returning.
LatchedOnlyServing == latched # {} => isr = "serve"

\* While a completion is under way its stamp is accounted for, and a cell that
\* is going to be pushed one past its value has room for it in the bound.
CompletionAccounted ==
    pc = "cell" =>
        /\ stamp <= done[slot]
        /\ done[slot] + replays[slot] >= 1
        /\ cell[slot] >= stamp => cell[slot] < done[slot] + replays[slot]

\* The history variables stay within the bounds of the guards.
HistoryBounded ==
    /\ \A s \in Slots : done[s] <= MaxStamp
    /\ \A s \in Slots : replays[s] <= MaxReplay

WakeupInv == StampsTypeOK /\ LatchedOnlyServing /\ NoLostWakeup

CellInv == StampsTypeOK /\ CompletionAccounted /\ CellBound

\* Type correctness: no step of the host or the guest leaves the types; in
\* particular next_stamp stays a uint32_t.
LEMMA NextStampType ==
    ASSUME NEW cur \in Stamp, NEW target \in Stamp
    PROVE  next_stamp(cur, target) \in Stamp
<1>1. (cur + 1) % StampMod \in Stamp
  BY StampsAssumption DEF Stamp
<1> QED
  BY <1>1, StampsAssumption DEF next_stamp, Stamp

\* One step preserves the types.
LEMMA StampsTypeStep ==
    StampsTypeOK /\ [StampsNext]_stampVars => StampsTypeOK'
<1> SUFFICES ASSUME StampsTypeOK, [StampsNext]_stampVars
             PROVE  StampsTypeOK'
  OBVIOUS
<1> USE DEF StampsTypeOK
<1>1. ASSUME NEW s \in Slots, NEW t \in 0 .. MaxStamp,
             lagfx_protocol_complete_stamp_slot(s, t)
      PROVE  StampsTypeOK'
  <2>1. t \in Stamp
    BY StampsAssumption DEF Stamp
  <2>2. done' \in [Slots -> Stamp] /\ replays' \in [Slots -> Nat]
    BY <1>1, <2>1 DEF lagfx_protocol_complete_stamp_slot
  <2> QED
    BY <1>1, <2>1, <2>2 DEF lagfx_protocol_complete_stamp_slot, guestVars
<1>2. CASE lagfx_advance_stamp_cell
  <2>1. PICK read \in Outcome("cell_read"), written \in Outcome("cell_write") :
          LET cur == IF read THEN cell[slot] ELSE 0
          IN  cell' = IF base /\ written
                      THEN [cell EXCEPT ![slot] = next_stamp(cur, stamp)]
                      ELSE cell
    BY <1>2 DEF lagfx_advance_stamp_cell
  <2>2. 0 \in Stamp
    BY StampsAssumption DEF Stamp
  <2>3. cell' \in [Slots -> Stamp]
    BY <2>1, <2>2, NextStampType
  <2> QED
    BY <1>2, <2>3 DEF lagfx_advance_stamp_cell, guestVars, history
<1>3. CASE set_pending_bit
  BY <1>3 DEF set_pending_bit, guestVars, history
<1>4. CASE raise_interrupt
  BY <1>4 DEF raise_interrupt, guestVars, history
<1>5. CASE publish_stamp_page
  BY <1>5 DEF publish_stamp_page, guestVars, history
<1>6. CASE TakeInterrupt
  BY <1>6 DEF TakeInterrupt, hostVars, history
<1>7. CASE read_stamp_bitmask
  BY <1>7 DEF read_stamp_bitmask, history
<1>8. ASSUME NEW s \in Slots, ServeSlot(s)
      PROVE  StampsTypeOK'
  BY <1>8 DEF ServeSlot, hostVars, history
<1>9. CASE ReturnFromInterrupt
  BY <1>9 DEF ReturnFromInterrupt, hostVars, history
<1>10. CASE UNCHANGED stampVars
  BY <1>10 DEF stampVars
<1> QED
  BY <1>1, <1>2, <1>3, <1>4, <1>5, <1>6, <1>7, <1>8, <1>9, <1>10
     DEF StampsNext, HostCompletes, GuestHandles

\* Initial states have the types.
LEMMA StampsTypeInit == StampsInit => StampsTypeOK
<1>1. 0 \in Stamp
  BY StampsAssumption DEF Stamp
<1> SUFFICES ASSUME StampsInit PROVE StampsTypeOK
  OBVIOUS
<1>2. /\ cell \in [Slots -> Stamp]
      /\ seen \in [Slots -> Stamp]
      /\ done \in [Slots -> Stamp]
      /\ replays \in [Slots -> Nat]
  BY <1>1 DEF StampsInit
<1> QED
  BY <1>1, <1>2 DEF StampsInit, StampsTypeOK

\* Every state of the stamp protocol has its type, for any word size.
THEOREM StampsTypeCorrect == StampsSpec => []StampsTypeOK
BY StampsTypeInit, StampsTypeStep, PTL DEF StampsSpec

-----------------------------------------------------------------------------
(* No lost wakeup. *)

\* One step preserves the invariant behind NoLostWakeup: the bit is set after
\* the cell moved and before the interrupt is raised, and the exchange of
\* BAR0+0x1018 hands every bit it clears to the handler.
LEMMA WakeupStep == WakeupInv /\ [StampsNext]_stampVars => WakeupInv'
<1> SUFFICES ASSUME WakeupInv, [StampsNext]_stampVars
             PROVE  WakeupInv'
  OBVIOUS
<1>0. StampsTypeOK'
  BY StampsTypeStep DEF WakeupInv
<1> USE DEF WakeupInv, LatchedOnlyServing, NoLostWakeup
<1>1. ASSUME NEW s \in Slots, NEW t \in 0 .. MaxStamp,
             lagfx_protocol_complete_stamp_slot(s, t)
      PROVE  WakeupInv'
  BY <1>0, <1>1 DEF lagfx_protocol_complete_stamp_slot, guestVars
<1>2. CASE lagfx_advance_stamp_cell
  <2>1. \A s \in Slots : s # slot => cell'[s] = cell[s]
    BY <1>2 DEF lagfx_advance_stamp_cell, WakeupInv, StampsTypeOK
  <2>2. pc = "cell" /\ pc' = "bit" /\ slot' = slot
    BY <1>2 DEF lagfx_advance_stamp_cell
  <2>3. UNCHANGED <<pending, irq, isr, latched, seen>>
    BY <1>2 DEF lagfx_advance_stamp_cell, guestVars
  <2> QED
    BY <1>0, <2>1, <2>2, <2>3
<1>3. CASE set_pending_bit
  BY <1>0, <1>3 DEF set_pending_bit, guestVars, history
<1>4. CASE raise_interrupt
  BY <1>0, <1>4 DEF raise_interrupt, guestVars, history
<1>5. CASE publish_stamp_page
  BY <1>0, <1>5 DEF publish_stamp_page, guestVars, history
<1>6. CASE TakeInterrupt
  BY <1>0, <1>6 DEF TakeInterrupt, hostVars, history
<1>7. CASE read_stamp_bitmask
  <2>1. latched = {}
    BY <1>7 DEF read_stamp_bitmask
  <2> QED
    BY <1>0, <1>7, <2>1 DEF read_stamp_bitmask, history
<1>8. ASSUME NEW s \in Slots, ServeSlot(s)
      PROVE  WakeupInv'
  <2>1. seen'[s] = cell[s] /\ \A r \in Slots \ {s} : seen'[r] = seen[r]
    BY <1>8 DEF ServeSlot, StampsTypeOK
  <2> QED
    BY <1>0, <1>8, <2>1 DEF ServeSlot, hostVars, history
<1>9. CASE ReturnFromInterrupt
  BY <1>0, <1>9 DEF ReturnFromInterrupt, hostVars, history
<1>10. CASE UNCHANGED stampVars
  BY <1>0, <1>10 DEF stampVars
<1> QED
  BY <1>1, <1>2, <1>3, <1>4, <1>5, <1>6, <1>7, <1>8, <1>9, <1>10
     DEF StampsNext, HostCompletes, GuestHandles

\* The host's three steps and the guest's handler never lose a wakeup, in any
\* interleaving, for any number of slots and whatever DMA fails.
THEOREM NoLostWakeupHolds == StampsSpec => []NoLostWakeup
<1>1. StampsInit => WakeupInv
  BY StampsTypeInit DEF StampsInit, WakeupInv, LatchedOnlyServing, NoLostWakeup
<1>2. WakeupInv => NoLostWakeup
  BY DEF WakeupInv
<1> QED
  BY <1>1, <1>2, WakeupStep, PTL DEF StampsSpec

-----------------------------------------------------------------------------
(* How far a cell can run ahead. *)

\* What the completion in progress may write stays within the bound, with or
\* without a failed read of the cell.
LEMMA NextStampBound ==
    ASSUME NEW cur \in Stamp, NEW target \in Stamp, NEW bound \in Nat,
           target <= bound, bound >= 1, cur >= target => cur < bound
    PROVE  next_stamp(cur, target) <= bound
<1>1. CASE target > cur
  BY <1>1 DEF next_stamp, Stamp
<1>2. CASE ~(target > cur)
  <2>1. cur \in Nat /\ cur + 1 <= bound
    BY <1>2 DEF Stamp
  <2>2. (cur + 1) % StampMod <= cur + 1
    <3>1. cur + 1 = StampMod \/ cur + 1 < StampMod
      BY StampsAssumption DEF Stamp
    <3> QED
      BY <2>1, <3>1, StampsAssumption
  <2>3. (cur + 1) % StampMod \in Nat
    BY <2>1, StampsAssumption
  <2> QED
    BY <1>2, <2>1, <2>2, <2>3, StampsAssumption DEF next_stamp, Stamp
<1> QED
  BY <1>1, <1>2

\* One step preserves the invariant behind CellBound.
LEMMA CellStep == CellInv /\ [StampsNext]_stampVars => CellInv'
<1> SUFFICES ASSUME CellInv, [StampsNext]_stampVars
             PROVE  CellInv'
  OBVIOUS
<1>0. StampsTypeOK'
  BY StampsTypeStep DEF CellInv
<1>T. StampsTypeOK
  BY DEF CellInv
<1> USE DEF CellInv, CompletionAccounted, CellBound
<1>1. ASSUME NEW s \in Slots, NEW t \in 0 .. MaxStamp,
             lagfx_protocol_complete_stamp_slot(s, t)
      PROVE  CellInv'
  <2>1. /\ done' = [done EXCEPT ![s] = IF t > @ THEN t ELSE @]
        /\ replays' = [replays EXCEPT ![s] = IF t > done[s] THEN @ ELSE @ + 1]
        /\ cell' = cell /\ slot' = s /\ stamp' = t
    BY <1>1 DEF lagfx_protocol_complete_stamp_slot
  <2>2. \A r \in Slots : /\ cell[r] \in Nat /\ done[r] \in Nat
                         /\ replays[r] \in Nat
    BY <1>T, StampsAssumption DEF StampsTypeOK, Stamp
  <2>3. /\ done'[s] = IF t > done[s] THEN t ELSE done[s]
        /\ replays'[s] = IF t > done[s] THEN replays[s] ELSE replays[s] + 1
        /\ \A r \in Slots \ {s} : done'[r] = done[r] /\ replays'[r] = replays[r]
    BY <1>T, <2>1 DEF StampsTypeOK
  <2>4. t \in Nat
    BY StampsAssumption
  <2>5. CompletionAccounted'
    BY <2>1, <2>2, <2>3, <2>4
  <2>6. CellBound'
    BY <2>1, <2>2, <2>3, <2>4
  <2> QED
    BY <1>0, <2>5, <2>6
<1>2. CASE lagfx_advance_stamp_cell
  <2>1. PICK read \in Outcome("cell_read"), written \in Outcome("cell_write") :
          LET cur == IF read THEN cell[slot] ELSE 0
          IN  cell' = IF base /\ written
                      THEN [cell EXCEPT ![slot] = next_stamp(cur, stamp)]
                      ELSE cell
    BY <1>2 DEF lagfx_advance_stamp_cell
  <2>2. pc = "cell" /\ pc' = "bit" /\ UNCHANGED <<slot, stamp, done, replays>>
    BY <1>2 DEF lagfx_advance_stamp_cell, history
  <2> DEFINE cur == IF read THEN cell[slot] ELSE 0
             bound == done[slot] + replays[slot]
  <2>3. bound \in Nat /\ cur \in Stamp /\ stamp \in Stamp
    BY <1>T, StampsAssumption DEF StampsTypeOK, Stamp
  <2>4. stamp <= bound /\ bound >= 1 /\ (cur >= stamp => cur < bound)
    BY <1>T, <2>2, StampsAssumption DEF StampsTypeOK, Stamp
  <2>5. next_stamp(cur, stamp) <= bound
    <3> HIDE DEF cur, bound
    <3> QED
      BY <2>3, <2>4, NextStampBound
  <2>6. \A s \in Slots : cell'[s] = cell[s] \/
                         (s = slot /\ cell'[s] = next_stamp(cur, stamp))
    BY <1>T, <2>1 DEF StampsTypeOK
  <2> QED
    BY <1>0, <2>2, <2>5, <2>6
<1>3. CASE set_pending_bit
  BY <1>0, <1>3 DEF set_pending_bit, guestVars, history
<1>4. CASE raise_interrupt
  BY <1>0, <1>4 DEF raise_interrupt, guestVars, history
<1>5. CASE publish_stamp_page
  BY <1>0, <1>5 DEF publish_stamp_page, guestVars, history
<1>6. CASE TakeInterrupt
  BY <1>0, <1>6 DEF TakeInterrupt, hostVars, history
<1>7. CASE read_stamp_bitmask
  BY <1>0, <1>7 DEF read_stamp_bitmask, history
<1>8. ASSUME NEW s \in Slots, ServeSlot(s)
      PROVE  CellInv'
  BY <1>0, <1>8 DEF ServeSlot, hostVars, history
<1>9. CASE ReturnFromInterrupt
  BY <1>0, <1>9 DEF ReturnFromInterrupt, hostVars, history
<1>10. CASE UNCHANGED stampVars
  BY <1>0, <1>10 DEF stampVars
<1> QED
  BY <1>1, <1>2, <1>3, <1>4, <1>5, <1>6, <1>7, <1>8, <1>9, <1>10
     DEF StampsNext, HostCompletes, GuestHandles

\* A cell never runs ahead of what was completed by more than one per replayed
\* stamp - not even when the read of the cell fails or the word wraps.
THEOREM CellBoundHolds == StampsSpec => []CellBound
<1>1. StampsInit => CellInv
  BY StampsTypeInit DEF StampsInit, CellInv, CompletionAccounted, CellBound
<1>2. CellInv => CellBound
  BY DEF CellInv
<1> QED
  BY <1>1, <1>2, CellStep, PTL DEF StampsSpec

-----------------------------------------------------------------------------
(* When a cell never regresses. *)

\* The history variables stay within the bounds of the guards.
LEMMA HistoryStep ==
    StampsTypeOK /\ HistoryBounded /\ [StampsNext]_stampVars => HistoryBounded'
<1> SUFFICES ASSUME StampsTypeOK, HistoryBounded, [StampsNext]_stampVars
             PROVE  HistoryBounded'
  OBVIOUS
<1> USE DEF HistoryBounded
<1>1. ASSUME NEW s \in Slots, NEW t \in 0 .. MaxStamp,
             lagfx_protocol_complete_stamp_slot(s, t)
      PROVE  HistoryBounded'
  <2>1. /\ done' = [done EXCEPT ![s] = IF t > @ THEN t ELSE @]
        /\ replays' = [replays EXCEPT ![s] = IF t > done[s] THEN @ ELSE @ + 1]
        /\ t > done[s] \/ replays[s] < MaxReplay
    BY <1>1 DEF lagfx_protocol_complete_stamp_slot
  <2>2. \A r \in Slots : done[r] \in Nat /\ replays[r] \in Nat
    BY StampsAssumption DEF StampsTypeOK, Stamp
  <2>3. /\ done'[s] = IF t > done[s] THEN t ELSE done[s]
        /\ replays'[s] = IF t > done[s] THEN replays[s] ELSE replays[s] + 1
        /\ \A r \in Slots \ {s} : done'[r] = done[r] /\ replays'[r] = replays[r]
    BY <2>1 DEF StampsTypeOK
  <2> QED
    BY <2>1, <2>2, <2>3, StampsAssumption
<1>2. ASSUME UNCHANGED <<done, replays>>
      PROVE  HistoryBounded'
  BY <1>2
<1> QED
  BY <1>1, <1>2 DEF StampsNext, HostCompletes, GuestHandles, stampVars, history,
     lagfx_advance_stamp_cell, set_pending_bit, raise_interrupt,
     publish_stamp_page, TakeInterrupt, read_stamp_bitmask, ServeSlot,
     ReturnFromInterrupt

\* Only the advance changes a cell; with a cell that was read, and below the
\* top of the word, it moves forward.
LEMMA AdvanceMovesForward ==
    ASSUME "cell_read" \notin Faults, MaxStamp + MaxReplay < StampMod,
           CellInv, HistoryBounded, [StampsNext]_stampVars,
           NEW s \in Slots
    PROVE  cell'[s] >= cell[s]
<1>T. /\ cell \in [Slots -> Stamp] /\ slot \in Slots /\ stamp \in Stamp
      /\ \A r \in Slots : /\ cell[r] \in Nat /\ done[r] \in Nat
                          /\ replays[r] \in Nat
  BY StampsAssumption DEF CellInv, StampsTypeOK, Stamp
<1>1. CASE lagfx_advance_stamp_cell
  <2>1. PICK read \in Outcome("cell_read"), written \in Outcome("cell_write") :
          LET cur == IF read THEN cell[slot] ELSE 0
          IN  cell' = IF base /\ written
                      THEN [cell EXCEPT ![slot] = next_stamp(cur, stamp)]
                      ELSE cell
    BY <1>1 DEF lagfx_advance_stamp_cell
  <2>2. read = TRUE
    BY DEF Outcome
  <2>3. cell'[s] = cell[s] \/ (s = slot /\ cell'[s] = next_stamp(cell[slot], stamp))
    BY <1>T, <2>1, <2>2
  <2>4. stamp \in Nat /\ cell[slot] \in Nat
    BY <1>T, StampsAssumption DEF Stamp
  <2>5. CASE stamp > cell[slot]
    BY <1>T, <2>3, <2>4, <2>5 DEF next_stamp
  <2>6. CASE ~(stamp > cell[slot])
    <3>1. cell[slot] < done[slot] + replays[slot]
      BY <1>1, <2>4, <2>6
         DEF CellInv, CompletionAccounted, lagfx_advance_stamp_cell
    <3>2. cell[slot] + 1 < StampMod
      BY <1>T, <3>1, StampsAssumption DEF HistoryBounded
    <3>3. (cell[slot] + 1) % StampMod = cell[slot] + 1
      BY <2>4, <3>2, StampsAssumption
    <3> QED
      BY <1>T, <2>3, <2>4, <2>6, <3>3 DEF next_stamp
  <2> QED
    BY <2>5, <2>6
<1>2. CASE cell' = cell
  BY <1>T, <1>2
<1> QED
  BY <1>1, <1>2 DEF StampsNext, HostCompletes, GuestHandles, stampVars,
     lagfx_protocol_complete_stamp_slot, set_pending_bit, raise_interrupt,
     publish_stamp_page, TakeInterrupt, read_stamp_bitmask, ServeSlot,
     ReturnFromInterrupt, hostVars

\* "Never regresses" (stamp.c:13) holds when the shell's reads of the cell
\* succeed and no slot gets near the end of its 32-bit stamp space.
THEOREM StampMonotone ==
    ASSUME "cell_read" \notin Faults, MaxStamp + MaxReplay < StampMod
    PROVE  StampsSpec => StampNeverRegresses
<1>1. StampsInit => CellInv /\ HistoryBounded
  BY StampsTypeInit, StampsAssumption
     DEF StampsInit, CellInv, CompletionAccounted, CellBound, HistoryBounded
<1>2. /\ CellInv /\ HistoryBounded /\ [StampsNext]_stampVars
      => CellInv' /\ HistoryBounded'
  BY CellStep, HistoryStep DEF CellInv
<1>3. CellInv /\ HistoryBounded /\ [StampsNext]_stampVars
      => [\A s \in Slots : cell'[s] >= cell[s]]_stampVars
  BY AdvanceMovesForward
<1> QED
  BY <1>1, <1>2, <1>3, PTL DEF StampsSpec, StampNeverRegresses

-----------------------------------------------------------------------------
(* The registers of the root ring. *)

\* What each register means once written, in any order, and the address the two of
\* them give together whenever the page number is known.
GeometryInv ==
    /\ "status" \in programmed => ring_armed = TRUE
    /\ "ring_size" \in programmed => ring_size = RingSize
    /\ "start_offset" \in programmed => ring_start_offset = StartOffset
    /\ "base_pfn" \in programmed => base = TRUE
    /\ base = TRUE => ring_base_gpa = Pfn * PageSize + ring_start_offset

\* The steps that write no register keep them; a reboot forgets what was programmed.
LEMMA RegistersKept ==
    ASSUME GeometryInv, UNCHANGED <<base, regVars>>, programmed' = programmed \/ programmed' = {}
    PROVE  GeometryInv'
BY DEF GeometryInv, regVars

LEMMA GeometryStep == GeometryInv /\ [RootNext]_vars => GeometryInv'
<1> SUFFICES ASSUME GeometryInv, [RootNext]_vars PROVE GeometryInv'
  OBVIOUS
<1>1. CASE write_status_control
  BY <1>1 DEF write_status_control, Programs, GeometryInv
<1>2. CASE write_ring_size
  BY <1>2, RootAssumption DEF write_ring_size, Programs, GeometryInv
<1>3. CASE write_start_offset
  <2>1. /\ programmed' = programmed \cup {"start_offset"} /\ ring_start_offset' = StartOffset
        /\ ring_base_gpa' = (IF base THEN Pfn * PageSize ELSE 0) + StartOffset
        /\ UNCHANGED <<base, ring_armed, ring_size>>
    BY <1>3 DEF write_start_offset, Programs
  <2> QED  BY <2>1 DEF GeometryInv
<1>4. CASE write_base_pfn
  <2>1. /\ programmed' = programmed \cup {"base_pfn"} /\ base' = TRUE
        /\ ring_base_gpa' = Pfn * PageSize + ring_start_offset
        /\ ring_size' = IF ring_size = 0 THEN DefaultSize ELSE ring_size
        /\ UNCHANGED <<ring_armed, ring_start_offset>>
    BY <1>4 DEF write_base_pfn, Programs
  <2> QED  BY <2>1, RootAssumption DEF GeometryInv
<1>5. ASSUME UNCHANGED <<base, regVars, programmed>> PROVE GeometryInv'
  BY <1>5, RegistersKept
<1>6. ASSUME NEW len \in Lens, WriteCommand(len) PROVE GeometryInv'
  BY <1>5, <1>6 DEF WriteCommand, stampVars
<1>7. CASE RingDoorbell \/ KickChannel0 \/ Doors
  BY <1>5, <1>7 DEF RingDoorbell, KickChannel0, Doors, primary_ring_door_dispatch,
                    channel_door_dispatch_0, stampVars
<1>8. CASE lagfx_device_reset
  BY <1>8, RegistersKept DEF lagfx_device_reset
<1>9. CASE Drain
  BY <1>5, <1>9 DEF Drain, read_header, read_body_and_dispatch, complete_after_exec,
                    advance_read_ptr, AdvanceTo, lagfx_protocol_complete_stamp_slot, stampVars
<1>10. CASE CompleteStamp
  BY <1>5, <1>10 DEF CompleteStamp, HostCompletes, lagfx_advance_stamp_cell, set_pending_bit,
                     raise_interrupt, rootVars
<1>11. CASE HandleInterrupt
  BY <1>5, <1>11 DEF HandleInterrupt, GuestHandles, TakeInterrupt, read_stamp_bitmask, ServeSlot,
                     ReturnFromInterrupt, hostVars, rootVars
<1>12. CASE UNCHANGED vars
  BY <1>5, <1>12 DEF vars, stampVars, rootVars
<1> QED
  BY <1>1, <1>2, <1>3, <1>4, <1>6, <1>7, <1>8, <1>9, <1>10, <1>11, <1>12 DEF RootNext

LEMMA GeometryInit == RootInit => GeometryInv
BY DEF RootInit, StampsInit, GeometryInv

\* Whatever the order of the register writes and whatever an earlier boot left, a guest
\* that has written all four finds the host with its geometry (doorbell.c).
THEOREM GeometryAgreesAlways == RootSpec => []GeometryAgrees
<1>1. GeometryInv => GeometryAgrees
  BY DEF GeometryInv, GeometryAgrees, Registers, GuestBase
<1> QED  BY <1>1, GeometryInit, GeometryStep, PTL DEF RootSpec

-----------------------------------------------------------------------------
(* Remainders. *)

LEMMA Division ==
    ASSUME NEW a \in Int, NEW m \in Nat \ {0}
    PROVE  /\ a % m \in 0 .. (m - 1) /\ a \div m \in Int
           /\ a = m * (a \div m) + (a % m)
OBVIOUS

LEMMA Multiple ==
    ASSUME NEW d \in Int, NEW m \in Nat, d >= 1 PROVE d * m >= m
OBVIOUS

\* Quotient and remainder are determined.
LEMMA DivisionUnique ==
    ASSUME NEW m \in Nat \ {0}, NEW p \in Int, NEW q \in Int,
           NEW x \in 0 .. (m - 1), NEW y \in 0 .. (m - 1), p * m + x = q * m + y
    PROVE  p = q /\ x = y
<1> DEFINE e == p - q
<1>1. e \in Int /\ e * m = y - x
  OBVIOUS
<1>2. CASE e >= 1
  <2>1. e * m >= m
    BY <1>1, <1>2, Multiple
  <2> HIDE DEF e
  <2> QED  BY <1>1, <2>1
<1>3. CASE e <= -1
  <2>1. (0 - e) * m >= m
    BY <1>1, <1>3, Multiple
  <2>2. (0 - e) * m = x - y
    BY <1>1
  <2> HIDE DEF e
  <2> QED  BY <2>1, <2>2
<1>4. CASE e = 0
  BY <1>1, <1>4
<1> QED  BY <1>1, <1>2, <1>3, <1>4

LEMMA Remainder ==
    ASSUME NEW m \in Nat \ {0}, NEW a \in Int, NEW q \in Int, NEW x \in 0 .. (m - 1),
           a = q * m + x
    PROVE  a % m = x
<1> DEFINE d == a \div m
           y == a % m
<1>1. y \in 0 .. (m - 1) /\ d \in Int /\ a = m * d + y
  BY Division
<1> HIDE DEF d, y
<1>2. q * m + x = d * m + y
  BY <1>1
<1>3. x = y
  BY <1>1, <1>2, DivisionUnique, ZenonT(30)
<1> QED  BY <1>3 DEF y

\* Numbers less than a modulus apart are told apart by their remainders.
LEMMA SameRemainder ==
    ASSUME NEW m \in Nat \ {0}, NEW a \in Int, NEW b \in Int, a <= b, b - a < m,
           a % m = b % m
    PROVE  a = b
<1> DEFINE q == a \div m
           x == a % m
<1>1. x \in 0 .. (m - 1) /\ q \in Int /\ a = q * m + x
  BY Division
<1>2. (b - a) % m = 0
  <2> DEFINE r == b \div m
  <2>1. r \in Int /\ b = r * m + x
    BY Division
  <2> HIDE DEF q, r, x
  <2>2. b - a = (r - q) * m + 0
    BY <1>1, <2>1
  <2> QED  BY <1>1, <2>1, <2>2, Remainder
<1>3. (b - a) % m = b - a
  <2>1. b - a = 0 * m + (b - a)
    OBVIOUS
  <2> QED  BY <2>1, Remainder
<1> QED  BY <1>2, <1>3

\* The remainder of a sum or difference, from the remainder of one part.
LEMMA SumRemainder ==
    ASSUME NEW m \in Nat \ {0}, NEW a \in Int, NEW k \in Int
    PROVE  ((a % m) + k) % m = (a + k) % m
<1> DEFINE q == a \div m
           x == a % m
           z == x + k
           d == z \div m
           y == z % m
<1>1. x \in 0 .. (m - 1) /\ q \in Int /\ a = q * m + x
  BY Division
<1>2. z \in Int /\ z = x + k
  BY <1>1
<1> HIDE DEF z
<1>3. y \in 0 .. (m - 1) /\ d \in Int /\ z = d * m + y
  BY <1>2, Division
<1> HIDE DEF q, x, d, y
<1>4. a + k = (q + d) * m + y /\ a + k \in Int /\ q + d \in Int
  BY <1>1, <1>2, <1>3
<1>5. (a + k) % m = y
  BY <1>3, <1>4, Remainder
<1> QED  BY <1>5 DEF y, x, z

-----------------------------------------------------------------------------
(* The log and the ring's memory. *)

\* The position behind command n.
Pos(lg, n) == IF n = 0 THEN 0 ELSE lg[n].start + lg[n].len

Entry == [start : Nat, len : Lens]
LogOK(lg) ==
    /\ lg \in Seq(Entry)
    /\ \A n \in 1 .. Len(lg) : lg[n].start = Pos(lg, n - 1)
    /\ \A m, n \in 0 .. Len(lg) : m < n => Pos(lg, m) < Pos(lg, n)

\* Where the guest puts position x.
Byte(x) == GuestBase + (x % RingSize)

\* The commands behind n lie in memory as they were written.
Stored(m, lg, n) ==
    \A i \in (n + 1) .. Len(lg) : \A k \in 0 .. (lg[i].len - 1) :
        m[Byte(lg[i].start + k)] = <<i, k>>

MemShape(m) == m = [x \in 0 .. (MemSize - 1) |-> m[x]]

\* The log and the memory after a command of length len was written.
Grown(lg, len) == Append(lg, [start |-> Pos(lg, Len(lg)), len |-> len])
Place(lg, len) == [k \in 0 .. (len - 1) |-> Byte(Pos(lg, Len(lg)) + k)]
Filled(m, lg, len) ==
    [x \in DOMAIN m |->
        IF \E k \in DOMAIN Place(lg, len) : Place(lg, len)[k] = x
        THEN <<Len(lg) + 1, CHOOSE k \in DOMAIN Place(lg, len) : Place(lg, len)[k] = x>>
        ELSE m[x]]

\* What is behind command a fits in the ring and lies there intact.
RingOK(lg, m, a) ==
    /\ LogOK(lg) /\ MemShape(m) /\ a \in 0 .. Len(lg)
    /\ Pos(lg, Len(lg)) - Pos(lg, a) < RingSize
    /\ Stored(m, lg, a)

LEMMA LengthsNat == \A len \in Lens : len \in Nat \ {0} /\ len >= Hdr /\ len <= RingSize
BY RootAssumption

LEMMA GuestBaseNat == GuestBase \in Nat /\ GuestBase + RingSize <= MemSize /\ MemSize \in Nat
<1>1. Pfn * PageSize \in Nat
  BY RootAssumption
<1> QED  BY <1>1, RootAssumption DEF GuestBase

LEMMA ByteInside == ASSUME NEW x \in Nat PROVE Byte(x) \in 0 .. (MemSize - 1)
<1>1. x % RingSize \in 0 .. (RingSize - 1)
  BY RootAssumption, Division
<1> QED  BY <1>1, GuestBaseNat, RootAssumption DEF Byte

\* Positions within one ring do not share a byte.
LEMMA BytesApart ==
    ASSUME NEW x \in Nat, NEW y \in Nat, x <= y, y - x < RingSize, Byte(x) = Byte(y)
    PROVE  x = y
<1>1. x % RingSize \in Int /\ y % RingSize \in Int /\ GuestBase \in Int
  BY GuestBaseNat, RootAssumption
<1>2. x % RingSize = y % RingSize
  BY <1>1 DEF Byte
<1>3. RingSize \in Nat \ {0} /\ x \in Int /\ y \in Int
  BY RootAssumption
<1> QED  BY <1>2, <1>3, SameRemainder, Zenon

LEMMA PosNat ==
    ASSUME NEW lg, LogOK(lg), NEW n \in 0 .. Len(lg)
    PROVE  Pos(lg, n) \in Nat
<1>1. CASE n = 0
  BY <1>1 DEF Pos
<1>2. CASE n # 0
  <2>1. lg[n] \in Entry
    BY <1>2 DEF LogOK
  <2>2. lg[n].start \in Nat /\ lg[n].len \in Nat
    BY <2>1, LengthsNat DEF Entry
  <2> QED  BY <1>2, <2>2 DEF Pos
<1> QED  BY <1>1, <1>2

LEMMA LogGrows ==
    ASSUME NEW lg, LogOK(lg), NEW len \in Lens
    PROVE  /\ LogOK(Grown(lg, len)) /\ Len(Grown(lg, len)) = Len(lg) + 1
           /\ \A n \in 1 .. Len(lg) : Grown(lg, len)[n] = lg[n]
           /\ Grown(lg, len)[Len(lg) + 1] = [start |-> Pos(lg, Len(lg)), len |-> len]
           /\ \A n \in 0 .. Len(lg) : Pos(Grown(lg, len), n) = Pos(lg, n)
           /\ Pos(Grown(lg, len), Len(lg) + 1) = Pos(lg, Len(lg)) + len
<1> DEFINE e == [start |-> Pos(lg, Len(lg)), len |-> len]
           n0 == Len(lg)
           lg2 == Grown(lg, len)
<1>1. n0 \in Nat /\ Pos(lg, n0) \in Nat /\ len \in Nat \ {0}
  BY PosNat, LengthsNat DEF LogOK
<1>2. e \in Entry /\ e.start = Pos(lg, n0) /\ e.len = len
  BY <1>1 DEF Entry
<1> HIDE DEF e
<1>3. /\ lg2 \in Seq(Entry) /\ Len(lg2) = n0 + 1 /\ lg2[n0 + 1] = e
      /\ \A n \in 1 .. n0 : lg2[n] = lg[n]
  BY <1>2 DEF LogOK, e, Grown
<1> HIDE DEF lg2
<1>4. \A n \in 0 .. n0 : Pos(lg2, n) = Pos(lg, n)
  BY <1>1, <1>3 DEF Pos
<1>5. Pos(lg2, n0 + 1) = Pos(lg, n0) + len
  BY <1>1, <1>2, <1>3 DEF Pos
<1>6. \A n \in 1 .. Len(lg2) : lg2[n].start = Pos(lg2, n - 1)
  <2> SUFFICES ASSUME NEW n \in 1 .. Len(lg2) PROVE lg2[n].start = Pos(lg2, n - 1)
    OBVIOUS
  <2>1. CASE n \in 1 .. n0
    BY <1>1, <1>3, <1>4, <2>1 DEF LogOK
  <2>2. CASE n = n0 + 1
    BY <1>1, <1>2, <1>3, <1>4, <2>2
  <2> QED  BY <1>1, <1>3, <2>1, <2>2
<1>7. \A m, n \in 0 .. Len(lg2) : m < n => Pos(lg2, m) < Pos(lg2, n)
  <2> SUFFICES ASSUME NEW m \in 0 .. Len(lg2), NEW n \in 0 .. Len(lg2), m < n
               PROVE  Pos(lg2, m) < Pos(lg2, n)
    OBVIOUS
  <2>1. CASE n \in 0 .. n0
    BY <1>1, <1>3, <1>4, <2>1 DEF LogOK
  <2>2. CASE n = n0 + 1
    <3>1. m \in 0 .. n0 /\ Pos(lg, m) \in Nat
      BY <1>1, <1>3, <2>2, PosNat
    <3>2. Pos(lg, m) <= Pos(lg, n0)
      BY <1>1, <3>1 DEF LogOK
    <3> QED  BY <1>1, <1>4, <1>5, <2>2, <3>1, <3>2
  <2> QED  BY <1>1, <1>3, <2>1, <2>2
<1>8. LogOK(lg2)
  BY <1>3, <1>6, <1>7 DEF LogOK
<1> QED  BY <1>3, <1>4, <1>5, <1>8 DEF e, lg2

\* Where a command of the window lies.
LEMMA CommandInWindow ==
    ASSUME NEW lg, LogOK(lg), NEW a \in 0 .. Len(lg), NEW i \in (a + 1) .. Len(lg)
    PROVE  /\ lg[i].start \in Nat /\ lg[i].len \in Lens /\ lg[i].start = Pos(lg, i - 1)
           /\ Pos(lg, a) <= lg[i].start
           /\ lg[i].start + lg[i].len = Pos(lg, i) /\ Pos(lg, i) <= Pos(lg, Len(lg))
<1>1. /\ Len(lg) \in Nat /\ i - 1 \in 0 .. Len(lg) /\ i \in 0 .. Len(lg) /\ i \in 1 .. Len(lg)
      /\ Len(lg) \in 0 .. Len(lg)
  BY DEF LogOK
<1>2. lg[i] \in Entry /\ lg[i].start = Pos(lg, i - 1)
  BY <1>1 DEF LogOK
<1>3. lg[i].len \in Lens /\ lg[i].start \in Nat
  BY <1>2 DEF Entry
<1>4. Pos(lg, i) = lg[i].start + lg[i].len
  BY <1>1 DEF Pos
<1>5. /\ Pos(lg, i - 1) \in Nat /\ Pos(lg, i) \in Nat
      /\ Pos(lg, a) \in Nat /\ Pos(lg, Len(lg)) \in Nat
  BY <1>1, PosNat
<1>6. Pos(lg, a) <= Pos(lg, i - 1) /\ Pos(lg, i) <= Pos(lg, Len(lg))
  <2>1. (a = i - 1 \/ a < i - 1) /\ (i = Len(lg) \/ i < Len(lg))
    BY <1>1
  <2> QED  BY <1>1, <1>5, <2>1 DEF LogOK
<1> QED  BY <1>2, <1>3, <1>4, <1>6

\* The bytes of a new command are apart from one another and from those of the window.
LEMMA NewBytesApart ==
    ASSUME NEW P \in Nat, NEW B \in Nat, NEW len \in Lens, P + len - B <= RingSize, B <= P,
           NEW h \in 0 .. (len - 1)
    PROVE  /\ \A x \in B .. (P - 1) :
                 Byte(x) # Byte(P + h)
           /\ \A k \in 0 .. (len - 1) :
                 Byte(P + k) = Byte(P + h) => k = h
<1>1. len \in Nat \ {0} /\ RingSize \in Nat /\ len <= RingSize
  BY LengthsNat, RootAssumption
<1>2. ASSUME NEW x \in B .. (P - 1),
             Byte(x) = Byte(P + h)
      PROVE  FALSE
  <2>1. x \in Nat /\ P + h \in Nat /\ x <= P + h /\ P + h - x < RingSize /\ x # P + h
    BY <1>1
  <2> QED  BY <1>2, <2>1, BytesApart
<1>3. ASSUME NEW k \in 0 .. (len - 1),
             Byte(P + k) = Byte(P + h)
      PROVE  k = h
  <2>1. /\ P + k \in Nat /\ P + h \in Nat
        /\ P + k - (P + h) < RingSize /\ P + h - (P + k) < RingSize
    BY <1>1
  <2>2. CASE P + k <= P + h
    <3>1. P + k = P + h
      BY <1>3, <2>1, <2>2, BytesApart
    <3> QED  BY <3>1
  <2>3. CASE P + h <= P + k
    <3>1. P + k = P + h
      BY <1>3, <2>1, <2>3, BytesApart
    <3> QED  BY <3>1
  <2> QED  BY <2>1, <2>2, <2>3
<1> QED  BY <1>2, <1>3

\* What is written behind the log leaves the commands of the window alone.
LEMMA FilledBytes ==
    ASSUME NEW lg, LogOK(lg), NEW a \in 0 .. Len(lg), NEW len \in Lens,
           Pos(lg, Len(lg)) + len - Pos(lg, a) <= RingSize, NEW m, MemShape(m)
    PROVE  /\ \A x \in Pos(lg, a) .. (Pos(lg, Len(lg)) - 1) :
                 Filled(m, lg, len)[Byte(x)]
                     = m[Byte(x)]
           /\ \A k \in 0 .. (len - 1) :
                 Filled(m, lg, len)[Byte(Pos(lg, Len(lg)) + k)]
                     = <<Len(lg) + 1, k>>
           /\ MemShape(Filled(m, lg, len))
<1> DEFINE P == Pos(lg, Len(lg))
           B == Pos(lg, a)
           place == Place(lg, len)
           m2 == Filled(m, lg, len)
<1>1. P \in Nat /\ B \in Nat /\ B <= P
  <2>1. Len(lg) \in 0 .. Len(lg) /\ (a = Len(lg) \/ a < Len(lg))
    BY DEF LogOK
  <2> QED  BY <2>1, PosNat DEF LogOK
<1>2. DOMAIN place = 0 .. (len - 1)
  BY DEF Place
<1>3. \A k \in 0 .. (len - 1) : place[k] = Byte(P + k)
  <2> SUFFICES ASSUME NEW k \in 0 .. (len - 1)
               PROVE  place[k] = Byte(P + k)
    OBVIOUS
  <2> QED  BY DEF Place
<1>4. /\ DOMAIN m2 = 0 .. (MemSize - 1)
      /\ \A x \in 0 .. (MemSize - 1) :
            m2[x] = IF \E k \in DOMAIN place : place[k] = x
                    THEN <<Len(lg) + 1, CHOOSE k \in DOMAIN place : place[k] = x>>
                    ELSE m[x]
  BY DEF Filled, MemShape
<1>5. MemShape(m2)
  BY DEF Filled, MemShape
<1> HIDE DEF P, B, place, m2
<1>6. P + len - B <= RingSize
  BY DEF P, B
<1>7. ASSUME NEW x \in B .. (P - 1)
      PROVE  m2[Byte(x)] = m[Byte(x)]
  <2>1. Byte(x) \in 0 .. (MemSize - 1)
    BY <1>1, ByteInside, SMTT(30)
  <2>2. \A k \in DOMAIN place : place[k] # Byte(x)
    BY <1>1, <1>2, <1>3, <1>6, NewBytesApart
  <2> QED  BY <1>4, <2>1, <2>2
<1>8. ASSUME NEW k \in 0 .. (len - 1)
      PROVE  m2[Byte(P + k)] = <<Len(lg) + 1, k>>
  <2> DEFINE g == Byte(P + k)
  <2>1. g \in 0 .. (MemSize - 1)
    <3>1. P + k \in Nat
      BY <1>1
    <3> QED  BY <3>1, ByteInside
  <2>2. \A h \in DOMAIN place : place[h] = g => h = k
    BY <1>1, <1>2, <1>3, <1>6, NewBytesApart
  <2>3. k \in DOMAIN place /\ place[k] = g
    BY <1>2, <1>3
  <2> HIDE DEF g
  <2>4. (CHOOSE h \in DOMAIN place : place[h] = g) = k
    BY <2>2, <2>3
  <2> QED  BY <1>4, <2>1, <2>3, <2>4 DEF g
<1> QED  BY <1>5, <1>7, <1>8 DEF P, B, m2

LEMMA StoredGrows ==
    ASSUME NEW lg, LogOK(lg), NEW a \in 0 .. Len(lg), NEW len \in Lens,
           Pos(lg, Len(lg)) + len - Pos(lg, a) <= RingSize,
           NEW m, MemShape(m), Stored(m, lg, a)
    PROVE  Stored(Filled(m, lg, len), Grown(lg, len), a)
<1> DEFINE n0 == Len(lg)
           P == Pos(lg, n0)
           m2 == Filled(m, lg, len)
           lg2 == Grown(lg, len)
<1>1. n0 \in Nat /\ len \in Nat
  BY LengthsNat DEF LogOK
<1>2. /\ Len(lg2) = n0 + 1 /\ \A n \in 1 .. n0 : lg2[n] = lg[n]
      /\ lg2[n0 + 1] = [start |-> P, len |-> len]
  BY LogGrows
<1>3. /\ \A x \in Pos(lg, a) .. (P - 1) :
            m2[Byte(x)] = m[Byte(x)]
      /\ \A k \in 0 .. (len - 1) : m2[Byte(P + k)] = <<n0 + 1, k>>
  BY FilledBytes
<1>4. P \in Nat /\ Pos(lg, a) \in Nat
  BY <1>1, PosNat
<1> HIDE DEF m2, lg2, P
<1> SUFFICES ASSUME NEW i \in (a + 1) .. (n0 + 1), NEW k \in 0 .. (lg2[i].len - 1)
             PROVE  m2[Byte(lg2[i].start + k)] = <<i, k>>
  BY <1>2 DEF Stored, m2, lg2
<1>5. CASE i \in (a + 1) .. n0
  <2>1. lg2[i] = lg[i]
    BY <1>1, <1>2, <1>5
  <2>2. /\ lg[i].start \in Nat /\ lg[i].len \in Nat
        /\ Pos(lg, a) <= lg[i].start /\ lg[i].start + lg[i].len <= P
    BY <1>5, CommandInWindow, LengthsNat DEF P
  <2>3. k \in 0 .. (lg[i].len - 1)
    BY <2>1
  <2>4. lg[i].start + k \in Pos(lg, a) .. (P - 1)
    <3> DEFINE x == lg[i].start
               l == lg[i].len
               b == Pos(lg, a)
    <3>1. x \in Nat /\ l \in Nat /\ b \in Nat /\ P \in Nat /\ b <= x /\ x + l <= P
      BY <1>4, <2>2
    <3>2. k \in 0 .. (l - 1)
      BY <2>3
    <3> HIDE DEF x, l, b
    <3>3. x + k \in b .. (P - 1)
      BY <3>1, <3>2
    <3> QED  BY <3>3 DEF x, b
  <2> QED  BY <1>3, <1>5, <2>1, <2>3, <2>4 DEF Stored
<1>6. CASE i = n0 + 1
  BY <1>2, <1>3, <1>6
<1> QED  BY <1>1, <1>5, <1>6

-----------------------------------------------------------------------------
(* The operations on the ring. *)

LEMMA RingGrows ==
    ASSUME NEW lg, NEW m, NEW a, RingOK(lg, m, a), NEW len \in Lens,
           Pos(lg, Len(lg)) + len - Pos(lg, a) < RingSize
    PROVE  RingOK(Grown(lg, len), Filled(m, lg, len), a)
<1>1. LogOK(lg) /\ MemShape(m) /\ a \in 0 .. Len(lg) /\ Stored(m, lg, a)
  BY DEF RingOK
<1>2. Len(lg) \in Nat /\ Len(lg) \in 0 .. Len(lg)
  BY <1>1 DEF LogOK
<1>3. Pos(lg, Len(lg)) \in Nat /\ Pos(lg, a) \in Nat /\ len \in Nat /\ RingSize \in Nat
  BY <1>1, <1>2, PosNat, LengthsNat, RootAssumption
<1>4. Pos(lg, Len(lg)) + len - Pos(lg, a) <= RingSize
  BY <1>3
<1>5. /\ LogOK(Grown(lg, len)) /\ Len(Grown(lg, len)) = Len(lg) + 1
      /\ Pos(Grown(lg, len), a) = Pos(lg, a)
      /\ Pos(Grown(lg, len), Len(lg) + 1) = Pos(lg, Len(lg)) + len
  BY <1>1, LogGrows
<1>6. MemShape(Filled(m, lg, len)) /\ Stored(Filled(m, lg, len), Grown(lg, len), a)
  BY <1>1, <1>4, FilledBytes, StoredGrows
<1>7. a \in 0 .. (Len(lg) + 1)
  BY <1>1, <1>2
<1> QED  BY <1>3, <1>5, <1>6, <1>7 DEF RingOK

\* When the guest sees more commands completed, fewer need to be kept.
LEMMA RingSeen ==
    ASSUME NEW lg, NEW m, NEW a, RingOK(lg, m, a), NEW b \in a .. Len(lg)
    PROVE  RingOK(lg, m, b)
<1>1. LogOK(lg) /\ MemShape(m) /\ a \in 0 .. Len(lg) /\ Stored(m, lg, a)
  BY DEF RingOK
<1>2. Len(lg) \in Nat /\ b \in 0 .. Len(lg) /\ Len(lg) \in 0 .. Len(lg) /\ (a = b \/ a < b)
  BY <1>1 DEF LogOK
<1>3. Pos(lg, Len(lg)) \in Nat /\ Pos(lg, a) \in Nat /\ Pos(lg, b) \in Nat
  BY <1>1, <1>2, PosNat
<1>4. Pos(lg, a) <= Pos(lg, b)
  BY <1>1, <1>2, <1>3 DEF LogOK
<1>5. Pos(lg, Len(lg)) - Pos(lg, a) < RingSize /\ RingSize \in Nat
  BY RootAssumption DEF RingOK
<1>6. Pos(lg, Len(lg)) - Pos(lg, b) < RingSize
  BY <1>3, <1>4, <1>5
<1>7. \A i \in (b + 1) .. Len(lg) : i \in (a + 1) .. Len(lg)
  BY <1>1, <1>2
<1>8. Stored(m, lg, b)
  BY <1>1, <1>7 DEF Stored
<1> QED  BY <1>1, <1>2, <1>6, <1>8 DEF RingOK

\* A pointer reduced twice still stands for its position.
LEMMA Reduced ==
    ASSUME NEW p \in Nat, NEW x, x = p % RingSize, NEW k \in Int
    PROVE  ((x % RingSize) + k) % RingSize = (p + k) % RingSize
<1>1. p \in Int /\ RingSize \in Nat \ {0}
  BY RootAssumption
<1>2. p % RingSize \in 0 .. (RingSize - 1)
  BY <1>1, Division
<1> DEFINE y == p % RingSize
<1>3. y = 0 * RingSize + y /\ y \in Int /\ y \in 0 .. (RingSize - 1) /\ x = y
  BY <1>1, <1>2
<1> HIDE DEF y
<1>4. y % RingSize = y
  BY <1>1, <1>3, Remainder
<1>5. x % RingSize = p % RingSize
  BY <1>3, <1>4 DEF y
<1> QED  BY <1>1, <1>5, SumRemainder

\* Reading at the position behind command n finds the next command.
LEMMA RingRead ==
    ASSUME NEW lg, NEW m, NEW a, RingOK(lg, m, a), NEW n \in a .. Len(lg), n # Len(lg),
           NEW x, x = Pos(lg, n) % RingSize
    PROVE  /\ n + 1 \in 1 .. Len(lg) /\ lg[n + 1].len \in Lens
           /\ \A k \in 0 .. (lg[n + 1].len - 1) :
                 m[GuestBase + (((x % RingSize) + k) % RingSize)] = <<n + 1, k>>
           /\ ((x % RingSize) + lg[n + 1].len) % RingSize = Pos(lg, n + 1) % RingSize
<1> DEFINE l == lg[n + 1].len
           P == Pos(lg, n)
<1>1. LogOK(lg) /\ a \in 0 .. Len(lg) /\ Stored(m, lg, a) /\ Len(lg) \in Nat
  BY DEF RingOK, LogOK
<1>2. n \in 0 .. Len(lg) /\ n + 1 \in (a + 1) .. Len(lg) /\ n + 1 \in 1 .. Len(lg)
      /\ (n + 1) - 1 = n
  BY <1>1
<1>3. lg[n + 1].start = P /\ l \in Lens /\ P + l = Pos(lg, n + 1)
  BY <1>1, <1>2, CommandInWindow
<1>4. P \in Nat /\ l \in Nat /\ RingSize \in Nat \ {0}
  BY <1>1, <1>2, <1>3, PosNat, LengthsNat, RootAssumption
<1> HIDE DEF l, P
<1>7. ASSUME NEW k \in Int PROVE ((x % RingSize) + k) % RingSize = (P + k) % RingSize
  <2>1. x = P % RingSize
    BY DEF P
  <2> QED  BY <1>4, <2>1, Reduced
<1>8. ASSUME NEW k \in 0 .. (l - 1)
      PROVE  m[GuestBase + (((x % RingSize) + k) % RingSize)] = <<n + 1, k>>
  <2>1. k \in Int /\ k \in 0 .. (lg[n + 1].len - 1)
    BY <1>4 DEF l
  <2>2. m[Byte(lg[n + 1].start + k)] = <<n + 1, k>>
    BY <1>1, <1>2, <2>1 DEF Stored
  <2> QED  BY <1>3, <1>7, <2>1, <2>2 DEF Byte
<1>9. ((x % RingSize) + l) % RingSize = Pos(lg, n + 1) % RingSize
  BY <1>3, <1>4, <1>7
<1> QED  BY <1>2, <1>3, <1>8, <1>9 DEF l

-----------------------------------------------------------------------------
(* The first boot, as long as no stamp was completed twice. *)

FirstBoot == boots = 1 /\ twice = FALSE

\* The cell the guest goes by: it shows a dispatched command, and a completion under
\* way is of the last dispatched one and will move it there.
StampInv ==
    /\ cell = [s \in Slots |-> cell[s]] /\ seen = [s \in Slots |-> seen[s]]
    /\ done = [s \in Slots |-> done[s]]
    /\ cell[0] \in Nat /\ seen[0] \in Nat
    /\ seen[0] <= cell[0] /\ cell[0] <= done[0] /\ done[0] = Len(executed)
    /\ pc = "cell" => slot = 0 /\ stamp = done[0] /\ cell[0] < stamp

\* A doorbell and the host's write pointer stand behind commands, n of which have been
\* dispatched and u not been announced.
BellsOK(lg, n, u, b, wp) ==
    /\ u \in 0 .. Len(lg)
    /\ b # NoBell => b = Pos(lg, Len(lg) - u) % RingSize
    /\ \E w \in n .. (Len(lg) - u) : wp = Pos(lg, w) % RingSize

RingInv ==
    /\ RingOK(log, mem, seen[0])
    /\ executed \in Seq(Nat) /\ \A k \in 1 .. Len(executed) : executed[k] = k
    /\ BellsOK(log, Len(executed), unrung, bell, write_ptr)

\* Where a drain with state d, read pointer rp and header c stands.
AtOK(lg, n, d, rp, wp, c) ==
    /\ d \notin {"exec", "complete"} => rp = Pos(lg, n) % RingSize
    /\ d = "body" => /\ rp # wp /\ n + 1 \in 1 .. Len(lg)
                     /\ c = [index |-> n + 1, length |-> lg[n + 1].len]
    /\ d \in {"exec", "complete"} => /\ n \in 1 .. Len(lg) /\ rp = Pos(lg, n - 1) % RingSize
                                     /\ c = [index |-> n, length |-> lg[n].len]

DrainInv ==
    /\ bell # NoBell \/ kick \/ dpc # "idle" => programmed = Registers
    /\ AtOK(log, Len(executed), dpc, read_ptr, write_ptr, cmd)

First == StampInv /\ RingInv /\ DrainInv

RootInv ==
    /\ boots \in Nat \ {0} /\ twice \in BOOLEAN
    /\ GeometryInv
    /\ FirstBoot => First

LEMMA StampKept ==
    ASSUME StampInv, UNCHANGED <<cell, seen, done, executed, pc, slot, stamp>>
    PROVE  StampInv'
BY DEF StampInv

LEMMA RingKept ==
    ASSUME RingInv, UNCHANGED <<log, mem, seen, executed, unrung, bell, write_ptr>>
    PROVE  RingInv'
BY DEF RingInv

LEMMA DrainKept ==
    ASSUME DrainInv, UNCHANGED <<log, executed, bell, kick, dpc, programmed, read_ptr,
                                 write_ptr, cmd>>
    PROVE  DrainInv'
BY DEF DrainInv

LEMMA FirstNumbers ==
    ASSUME First
    PROVE  /\ Len(log) \in Nat /\ Len(executed) \in Nat /\ unrung \in Nat
           /\ seen[0] \in 0 .. Len(executed) /\ cell[0] \in seen[0] .. Len(executed)
           /\ Len(executed) <= Len(log) - unrung /\ Len(executed) <= Len(log)
           /\ seen[0] \in 0 .. Len(log) /\ Len(executed) \in seen[0] .. Len(log)
<1>1. Len(log) \in Nat /\ Len(executed) \in Nat
  BY DEF First, RingInv, RingOK, LogOK
<1>2. unrung \in 0 .. Len(log) /\ \E w \in Len(executed) .. (Len(log) - unrung) : TRUE
  BY DEF First, RingInv, BellsOK
<1>3. /\ cell[0] \in Nat /\ seen[0] \in Nat /\ seen[0] <= cell[0]
      /\ cell[0] <= done[0] /\ done[0] = Len(executed)
  BY DEF First, StampInv
<1> QED  BY <1>1, <1>2, <1>3

-----------------------------------------------------------------------------
(* The steps of the first boot. *)

LEMMA ProgramStep ==
    ASSUME First, NEW r \in Registers, Programs(r)
    PROVE  First'
<1>1. /\ r \notin programmed /\ programmed' = programmed \cup {r}
      /\ UNCHANGED <<cell, seen, done, executed, pc, slot, stamp, log, mem, unrung, bell, write_ptr,
                     kick, dpc, read_ptr, cmd>>
  BY DEF Programs, guestVars, history
<1>2. StampInv' /\ RingInv'
  BY <1>1, StampKept, RingKept DEF First
<1>3. programmed # Registers
  BY <1>1
<1>4. DrainInv'
  BY <1>1, <1>3 DEF First, DrainInv
<1> QED  BY <1>2, <1>4 DEF First

LEMMA WriteStep ==
    ASSUME First, NEW len \in Lens, WriteCommand(len)
    PROVE  First'
<1> DEFINE n0 == Len(log)
           n == Len(executed)
<1>1. /\ n0 \in Nat /\ n \in Nat /\ unrung \in Nat /\ n <= n0 - unrung
      /\ seen[0] \in 0 .. n0 /\ seen[0] \in Nat
  BY FirstNumbers
<1>2. /\ n0 \in 0 .. n0 /\ LogOK(log)
  BY <1>1 DEF First, RingInv, RingOK
<1>3. Completed = seen[0]
  BY <1>1 DEF Completed
<1>4. End(n0) = Pos(log, n0) /\ End(seen[0]) = Pos(log, seen[0])
  BY DEF End, Pos
<1>5. /\ log' = Grown(log, len)
      /\ Pos(log, n0) + len - Pos(log, seen[0]) < RingSize
      /\ unrung' = unrung + 1 /\ programmed = Registers
      /\ UNCHANGED <<cell, seen, done, executed, pc, slot, stamp, bell, write_ptr, kick, dpc,
                     read_ptr, cmd, programmed>>
  BY <1>3, <1>4 DEF WriteCommand, Grown, stampVars
<1>6. mem' = Filled(mem, log, len)
  BY <1>4 DEF WriteCommand, Filled, Place, Byte
<1>7. RingOK(log', mem', seen[0])
  BY <1>5, <1>6, RingGrows DEF First, RingInv
<1>8. /\ Len(log') = n0 + 1 /\ \A i \in 1 .. n0 : log'[i] = log[i]
      /\ \A i \in 0 .. n0 : Pos(log', i) = Pos(log, i)
  BY <1>2, <1>5, LogGrows
<1>9. BellsOK(log', n, unrung', bell, write_ptr)
  <2>1. PICK w \in n .. (n0 - unrung) : write_ptr = Pos(log, w) % RingSize
    BY DEF First, RingInv, BellsOK
  <2>2. /\ w \in 0 .. n0 /\ n0 - unrung \in 0 .. n0 /\ Len(log') - unrung' = n0 - unrung
        /\ unrung' \in 0 .. Len(log')
    BY <1>1, <1>5, <1>8, <2>1
  <2>3. write_ptr = Pos(log', w) % RingSize /\ Pos(log', n0 - unrung) = Pos(log, n0 - unrung)
    BY <1>8, <2>1, <2>2
  <2>4. bell # NoBell => bell = Pos(log, n0 - unrung) % RingSize
    BY DEF First, RingInv, BellsOK
  <2> QED  BY <2>1, <2>2, <2>3, <2>4 DEF BellsOK
<1>10. RingInv'
  BY <1>5, <1>7, <1>9 DEF First, RingInv
<1>11. AtOK(log', n, dpc, read_ptr, write_ptr, cmd)
  <2>1. AtOK(log, n, dpc, read_ptr, write_ptr, cmd)
    BY DEF First, DrainInv
  <2>2. n \in 0 .. n0 /\ Pos(log', n) = Pos(log, n)
    BY <1>1, <1>8
  <2>3. n \in 1 .. n0 => /\ n \in 1 .. Len(log') /\ log'[n] = log[n]
                         /\ Pos(log', n - 1) = Pos(log, n - 1)
    BY <1>1, <1>8
  <2>4. n + 1 \in 1 .. n0 => n + 1 \in 1 .. Len(log') /\ log'[n + 1] = log[n + 1]
    BY <1>1, <1>8
  <2> HIDE DEF n, n0
  <2> QED  BY <2>1, <2>2, <2>3, <2>4 DEF AtOK, n0
<1>12. DrainInv'
  BY <1>5, <1>11 DEF First, DrainInv
<1>13. StampInv'
  BY <1>5, StampKept DEF First
<1> QED  BY <1>10, <1>12, <1>13 DEF First

LEMMA RingDoorbellStep == ASSUME First, RingDoorbell PROVE First'
<1>1. /\ bell' = Pos(log, Len(log)) % RingSize /\ unrung' = 0 /\ programmed = Registers
      /\ UNCHANGED <<cell, seen, done, executed, pc, slot, stamp, log, mem, write_ptr, kick, dpc,
                     read_ptr, cmd, programmed>>
  BY DEF RingDoorbell, End, Pos, stampVars
<1>2. Len(log) \in Nat /\ unrung \in Nat /\ Len(executed) \in Nat
  BY FirstNumbers
<1>3. BellsOK(log, Len(executed), 0, bell', write_ptr)
  <2>1. PICK w \in Len(executed) .. (Len(log) - unrung) : write_ptr = Pos(log, w) % RingSize
    BY DEF First, RingInv, BellsOK
  <2>2. w \in Len(executed) .. (Len(log) - 0) /\ Len(log) - 0 = Len(log) /\ 0 \in 0 .. Len(log)
    BY <1>2, <2>1
  <2> QED  BY <1>1, <2>1, <2>2 DEF BellsOK
<1>4. RingInv'
  BY <1>1, <1>3 DEF First, RingInv
<1>5. DrainInv'
  BY <1>1 DEF First, DrainInv
<1>6. StampInv'
  BY <1>1, StampKept DEF First
<1> QED  BY <1>4, <1>5, <1>6 DEF First

LEMMA KickStep == ASSUME First, KickChannel0 PROVE First'
<1>1. /\ programmed = Registers
      /\ UNCHANGED <<cell, seen, done, executed, pc, slot, stamp, log, mem, unrung, bell, write_ptr,
                     dpc, read_ptr, cmd, programmed>>
  BY DEF KickChannel0, stampVars
<1>2. DrainInv'
  BY <1>1 DEF First, DrainInv
<1> QED  BY <1>1, <1>2, StampKept, RingKept DEF First

LEMMA DoorStep == ASSUME First, primary_ring_door_dispatch PROVE First'
<1>1. /\ dpc = "idle" /\ bell # NoBell /\ write_ptr' = bell /\ bell' = NoBell
      /\ dpc' \in {"header", "idle"}
      /\ UNCHANGED <<cell, seen, done, executed, pc, slot, stamp, log, mem, unrung, kick, read_ptr,
                     cmd, programmed>>
  BY DEF primary_ring_door_dispatch, stampVars
<1>2. Len(log) \in Nat /\ unrung \in Nat /\ Len(executed) \in Nat
      /\ Len(executed) <= Len(log) - unrung
  BY FirstNumbers
<1>3. BellsOK(log, Len(executed), unrung, bell', write_ptr')
  <2>1. Len(log) - unrung \in Len(executed) .. (Len(log) - unrung)
    BY <1>2
  <2>2. unrung \in 0 .. Len(log) /\ bell = Pos(log, Len(log) - unrung) % RingSize
    BY <1>1 DEF First, RingInv, BellsOK
  <2> QED  BY <1>1, <2>1, <2>2 DEF BellsOK
<1>4. RingInv'
  BY <1>1, <1>3 DEF First, RingInv
<1>5. DrainInv'
  BY <1>1 DEF First, DrainInv, AtOK
<1>6. StampInv'
  BY <1>1, StampKept DEF First
<1> QED  BY <1>4, <1>5, <1>6 DEF First

LEMMA KickedStep == ASSUME First, channel_door_dispatch_0 PROVE First'
<1>1. /\ dpc = "idle" /\ kick /\ dpc' \in {"header", "idle"}
      /\ UNCHANGED <<cell, seen, done, executed, pc, slot, stamp, log, mem, unrung, bell, write_ptr,
                     read_ptr, cmd, programmed>>
  BY DEF channel_door_dispatch_0, stampVars
<1>2. DrainInv'
  BY <1>1 DEF First, DrainInv, AtOK
<1> QED  BY <1>1, <1>2, StampKept, RingKept DEF First
\* While the drain runs, the host reads the ring where the guest writes it.
LEMMA RingAgreed ==
    ASSUME GeometryInv, DrainInv, dpc # "idle"
    PROVE  ring_size = RingSize /\ ring_base_gpa = GuestBase
<1>1. programmed = Registers
  BY DEF DrainInv
<1> QED  BY <1>1 DEF GeometryInv, Registers, GuestBase

LEMMA LogEntry ==
    ASSUME First, NEW i \in 1 .. Len(log)
    PROVE  log[i] \in Entry /\ log[i].len \in Nat /\ log[i].len >= Hdr
<1>1. log \in Seq(Entry)
  BY DEF First, RingInv, RingOK, LogOK
<1>2. log[i] \in Entry
  BY <1>1
<1>3. log[i].len \in Lens
  BY <1>2 DEF Entry
<1> QED  BY <1>2, <1>3, LengthsNat

\* The next command while the read pointer is not the write pointer.
LEMMA NextCommand ==
    ASSUME GeometryInv, First, dpc # "idle", read_ptr # write_ptr,
           read_ptr = Pos(log, Len(executed)) % RingSize, NEW len \in Nat,
           Len(executed) + 1 \in 1 .. Len(log) => len <= log[Len(executed) + 1].len
    PROVE  /\ Len(executed) + 1 \in 1 .. Len(log)
           /\ log[Len(executed) + 1].len \in Lens
           /\ Intact(read_ring(read_ptr % ring_size, len), Len(executed) + 1)
           /\ DOMAIN read_ring(read_ptr % ring_size, len) = 0 .. (len - 1)
           /\ \E w \in (Len(executed) + 1) .. (Len(log) - unrung) :
                 write_ptr = Pos(log, w) % RingSize
<1> DEFINE n == Len(executed)
<1>1. /\ n \in Nat /\ Len(log) \in Nat /\ unrung \in Nat /\ n \in seen[0] .. Len(log)
      /\ RingOK(log, mem, seen[0])
  BY FirstNumbers DEF First, RingInv
<1>2. PICK w \in n .. (Len(log) - unrung) : write_ptr = Pos(log, w) % RingSize
  BY DEF First, RingInv, BellsOK
<1>3. w # n
  BY <1>2
<1>4. n # Len(log) /\ w \in (n + 1) .. (Len(log) - unrung)
  BY <1>1, <1>2, <1>3
<1>5. /\ n + 1 \in 1 .. Len(log) /\ log[n + 1].len \in Lens
      /\ \A k \in 0 .. (log[n + 1].len - 1) :
            mem[GuestBase + (((read_ptr % RingSize) + k) % RingSize)] = <<n + 1, k>>
  BY <1>1, <1>4, RingRead
<1>6. log[n + 1].len \in Nat /\ len <= log[n + 1].len
  BY <1>5, LengthsNat
<1>7. ring_size = RingSize /\ ring_base_gpa = GuestBase
  BY RingAgreed DEF First
<1>8. \A k \in 0 .. (len - 1) : k \in 0 .. (log[n + 1].len - 1)
  BY <1>6
<1>9. DOMAIN read_ring(read_ptr % ring_size, len) = 0 .. (len - 1)
  BY DEF read_ring
<1>10. \A k \in 0 .. (len - 1) : read_ring(read_ptr % ring_size, len)[k] = <<n + 1, k>>
  BY <1>5, <1>7, <1>8 DEF read_ring
<1>11. Intact(read_ring(read_ptr % ring_size, len), n + 1)
  BY <1>9, <1>10 DEF Intact
<1> QED  BY <1>2, <1>4, <1>5, <1>9, <1>11

\* The header read is the one of the next command, or the drain ends.
LEMMA HeaderStep == ASSUME GeometryInv, First, read_header PROVE First'
<1> DEFINE n == Len(executed)
           bytes == read_ring(read_ptr % ring_size, Hdr)
<1>1. /\ dpc = "header"
      /\ UNCHANGED <<cell, seen, done, executed, pc, slot, stamp, log, mem, unrung, bell, write_ptr,
                     kick, read_ptr, programmed>>
  BY DEF read_header, stampVars
<1>2. /\ programmed = Registers /\ read_ptr = Pos(log, n) % RingSize
  BY <1>1 DEF First, DrainInv, AtOK
<1>3. PICK hdr \in Decoded(bytes) :
         \/ dpc' = "idle"
         \/ dpc' = "body" /\ read_ptr # write_ptr /\ cmd' = hdr
  BY DEF read_header
<1>4. ASSUME read_ptr # write_ptr
      PROVE  n + 1 \in 1 .. Len(log) /\ hdr = [index |-> n + 1, length |-> log[n + 1].len]
  <2>1. Hdr \in Nat \ {0} /\ n \in Nat
    BY RootAssumption, FirstNumbers
  <2>2. n + 1 \in 1 .. Len(log) => Hdr <= log[n + 1].len
    BY <2>1, LogEntry
  <2>3. n + 1 \in 1 .. Len(log) /\ Intact(bytes, n + 1) /\ DOMAIN bytes = 0 .. (Hdr - 1)
    BY <1>1, <1>2, <1>4, <2>1, <2>2, NextCommand
  <2> HIDE DEF bytes
  <2>4. 0 \in 0 .. (Hdr - 1) /\ n + 1 # 0
    BY <2>1
  <2>5. bytes[0][1] = n + 1
    BY <2>3, <2>4 DEF Intact
  <2>6. Decoded(bytes) = {[index |-> n + 1, length |-> log[n + 1].len]}
    BY <2>3, <2>4, <2>5 DEF Decoded
  <2> QED  BY <2>3, <2>6
<1>5. AtOK(log, n, dpc', read_ptr, write_ptr, cmd')
  BY <1>2, <1>3, <1>4 DEF AtOK
<1>6. DrainInv'
  BY <1>1, <1>2, <1>5 DEF DrainInv
<1> QED  BY <1>1, <1>6, StampKept, RingKept DEF First

\* The body read is the command as written; its stamp is the next one.
LEMMA BodyStep == ASSUME GeometryInv, First, read_body_and_dispatch PROVE First'
<1> DEFINE n == Len(executed)
<1>1. /\ dpc = "body" /\ programmed = Registers /\ read_ptr # write_ptr
      /\ read_ptr = Pos(log, n) % RingSize /\ n + 1 \in 1 .. Len(log)
      /\ cmd.index = n + 1 /\ cmd.length = log[n + 1].len
      /\ cmd = [index |-> n + 1, length |-> log[n + 1].len]
      /\ UNCHANGED <<log, mem, unrung, bell, write_ptr, kick, read_ptr, programmed, cmd>>
  BY DEF read_body_and_dispatch, First, DrainInv, AtOK
<1>2. CASE dpc' = "idle" /\ UNCHANGED <<stampVars, executed>>
  <2>1. UNCHANGED <<cell, seen, done, pc, slot, stamp>> /\ AtOK(log, n, "idle", read_ptr, write_ptr, cmd)
    BY <1>1, <1>2 DEF stampVars, AtOK
  <2>2. DrainInv'
    BY <1>1, <1>2, <2>1 DEF DrainInv
  <2> QED  BY <1>1, <1>2, <2>1, <2>2, StampKept, RingKept DEF First
<1>3. CASE /\ dpc' \in {"complete", "exec"}
           /\ executed' = Append(executed,
                 IF Intact(read_ring(read_ptr % ring_size, cmd.length), cmd.index)
                 THEN cmd.index ELSE 0)
           /\ lagfx_protocol_complete_stamp_slot(0, cmd.index)
  <2>1. /\ n \in Nat /\ unrung \in Nat /\ Len(log) \in Nat
        /\ executed \in Seq(Nat) /\ \A k \in 1 .. n : executed[k] = k
    BY FirstNumbers DEF First, RingInv
  <2>2. log[n + 1].len \in Nat /\ log[n + 1].len <= log[n + 1].len
    BY <1>1, LogEntry
  <2>3. /\ Intact(read_ring(read_ptr % ring_size, cmd.length), cmd.index)
        /\ \E w \in (n + 1) .. (Len(log) - unrung) : write_ptr = Pos(log, w) % RingSize
    BY <1>1, <2>2, NextCommand
  <2>4. executed' = Append(executed, n + 1)
    BY <1>1, <1>3, <2>3
  <2>5. Len(executed') = n + 1 /\ executed' \in Seq(Nat)
        /\ \A k \in 1 .. Len(executed') : executed'[k] = k
    BY <2>1, <2>4
  <2>6. /\ pc' = "cell" /\ slot' = 0 /\ stamp' = n + 1 /\ UNCHANGED <<cell, seen>>
        /\ done' = [done EXCEPT ![0] = IF n + 1 > @ THEN n + 1 ELSE @]
    BY <1>1, <1>3 DEF lagfx_protocol_complete_stamp_slot, guestVars
  <2>7. /\ done = [s \in Slots |-> done[s]] /\ done[0] = n
        /\ cell = [s \in Slots |-> cell[s]] /\ seen = [s \in Slots |-> seen[s]]
        /\ cell[0] \in Nat /\ seen[0] \in Nat /\ seen[0] <= cell[0] /\ cell[0] <= n
    BY DEF First, StampInv
  <2> HIDE DEF n
  <2>8. done' = [s \in Slots |-> done'[s]] /\ done'[0] = n + 1
    <3>1. done[0] \in Nat /\ n + 1 > done[0] /\ 0 \in Slots
      BY <2>1, <2>7, RootAssumption
    <3>2. done' = [done EXCEPT ![0] = n + 1]
      BY <2>6, <3>1
    <3> QED  BY <2>7, <3>1, <3>2
  <2>9. StampInv'
    BY <2>1, <2>5, <2>6, <2>7, <2>8 DEF StampInv
  <2>10. BellsOK(log, n + 1, unrung, bell, write_ptr)
    BY <2>3 DEF First, RingInv, BellsOK
  <2>11. RingInv'
    BY <1>1, <2>5, <2>6, <2>10 DEF First, RingInv
  <2>12. AtOK(log, n + 1, dpc', read_ptr, write_ptr, cmd)
    <3>1. (n + 1) - 1 = n
      BY <2>1
    <3> QED  BY <1>1, <1>3, <3>1 DEF AtOK
  <2>13. DrainInv'
    BY <1>1, <2>5, <2>12 DEF DrainInv
  <2> QED  BY <2>9, <2>11, <2>13 DEF First
<1> QED  BY <1>2, <1>3 DEF read_body_and_dispatch

\* The read pointer moves behind the command dispatched.
LEMMA AdvanceStep == ASSUME GeometryInv, First, advance_read_ptr PROVE First'
<1> DEFINE n == Len(executed)
<1>1. /\ dpc = "complete" /\ dpc' = "header" /\ programmed = Registers
      /\ n \in 1 .. Len(log) /\ read_ptr = Pos(log, n - 1) % RingSize
      /\ cmd.length = log[n].len
      /\ read_ptr' = ((read_ptr % ring_size) + cmd.length) % ring_size
      /\ UNCHANGED <<cell, seen, done, executed, pc, slot, stamp, log, mem, unrung, bell, write_ptr,
                     kick, programmed, cmd>>
  BY DEF advance_read_ptr, AdvanceTo, First, DrainInv, AtOK, stampVars
<1>2. ring_size = RingSize
  BY <1>1, RingAgreed DEF First
<1>3. LogOK(log) /\ Len(log) \in Nat
  BY DEF First, RingInv, RingOK, LogOK
<1>4. n - 1 \in 0 .. Len(log) /\ n # 0
  BY <1>1, <1>3
<1>5. /\ log[n] \in Entry /\ log[n].start = Pos(log, n - 1)
      /\ Pos(log, n) = log[n].start + log[n].len
  <2>1. log[n] \in Entry
    BY <1>1, LogEntry
  <2>2. log[n].start = Pos(log, n - 1)
    BY <1>1, <1>3 DEF LogOK
  <2> QED  BY <1>4, <2>1, <2>2 DEF Pos
<1>6. Pos(log, n - 1) \in Nat /\ log[n].len \in Int
  BY <1>3, <1>4, <1>5, PosNat, LengthsNat DEF Entry
<1>7. ((read_ptr % RingSize) + log[n].len) % RingSize = (Pos(log, n - 1) + log[n].len) % RingSize
  BY <1>1, <1>6, Reduced
<1>8. read_ptr' = Pos(log, n) % RingSize
  BY <1>1, <1>2, <1>5, <1>7
<1>9. DrainInv'
  BY <1>1, <1>8 DEF DrainInv, AtOK
<1> QED  BY <1>1, <1>9, StampKept, RingKept DEF First

\* The cell moves to the stamp of the last command dispatched, or stays.
LEMMA CompleteStampStep == ASSUME First, CompleteStamp PROVE First'
<1>1. /\ UNCHANGED <<log, mem, seen, executed, unrung, bell, write_ptr, kick, dpc, programmed, read_ptr,
                     cmd, slot, stamp, done>>
      /\ pc' # "cell"
  BY DEF CompleteStamp, HostCompletes, rootVars, lagfx_advance_stamp_cell, set_pending_bit,
         raise_interrupt, guestVars, history
<1>2. cell' = cell \/ (pc = "cell" /\ \E cur \in {cell[slot], 0} :
                           cell' = [cell EXCEPT ![slot] = next_stamp(cur, stamp)])
  BY DEF CompleteStamp, HostCompletes, lagfx_advance_stamp_cell, set_pending_bit, raise_interrupt
<1>3. StampInv'
  <2>1. CASE cell' = cell
    BY <1>1, <2>1 DEF First, StampInv
  <2>2. CASE pc = "cell" /\ \E cur \in {cell[slot], 0} :
                                cell' = [cell EXCEPT ![slot] = next_stamp(cur, stamp)]
    <3>1. /\ slot = 0 /\ stamp = done[0] /\ cell[0] < stamp /\ cell[0] \in Nat /\ done[0] \in Nat
          /\ seen[0] \in Nat /\ seen[0] <= cell[0] /\ done[0] = Len(executed)
          /\ cell = [s \in Slots |-> cell[s]]
      BY <2>2, FirstNumbers DEF First, StampInv
    <3>2. PICK cur \in {cell[0], 0} : cell' = [cell EXCEPT ![0] = next_stamp(cur, stamp)]
      BY <2>2, <3>1
    <3>3. next_stamp(cur, stamp) = stamp
      BY <3>1, <3>2 DEF next_stamp
    <3>4. cell' = [s \in Slots |-> cell'[s]] /\ cell'[0] = stamp
      BY <3>1, <3>2, <3>3, RootAssumption
    <3> QED  BY <1>1, <3>1, <3>4 DEF First, StampInv
  <2> QED  BY <1>2, <2>1, <2>2
<1> QED  BY <1>1, <1>3, RingKept, DrainKept DEF First

\* The guest acts on a newer cell: it takes more of the ring to be free.
LEMMA InterruptStep == ASSUME First, HandleInterrupt PROVE First'
<1>1. /\ UNCHANGED <<log, mem, executed, unrung, bell, write_ptr, kick, dpc, programmed, read_ptr,
                     cmd, cell, pc, slot, stamp, done>>
      /\ seen' = seen \/ \E s \in Slots : seen' = [seen EXCEPT ![s] = cell[s]]
  BY DEF HandleInterrupt, GuestHandles, rootVars, TakeInterrupt, read_stamp_bitmask, ServeSlot,
         ReturnFromInterrupt, hostVars, history
<1>2. CASE seen' = seen
  BY <1>1, <1>2, StampKept, RingKept, DrainKept DEF First
<1>3. CASE \E s \in Slots : seen' = [seen EXCEPT ![s] = cell[s]]
  <2>1. seen = [s \in Slots |-> seen[s]]
    BY DEF First, StampInv
  <2>2. seen' = [s \in Slots |-> seen'[s]] /\ (seen'[0] = seen[0] \/ seen'[0] = cell[0])
    BY <1>3, <2>1, RootAssumption
  <2>3. /\ seen[0] \in Nat /\ cell[0] \in seen[0] .. Len(executed) /\ Len(executed) \in Nat
        /\ Len(log) \in Nat /\ Len(executed) <= Len(log)
    BY FirstNumbers
  <2>4. seen'[0] \in seen[0] .. Len(log) /\ seen'[0] \in Nat /\ seen'[0] <= cell[0]
    BY <2>2, <2>3
  <2>5. RingOK(log, mem, seen'[0])
    BY <2>4, RingSeen DEF First, RingInv
  <2>6. RingInv'
    BY <1>1, <2>5 DEF First, RingInv
  <2>7. StampInv'
    BY <1>1, <2>2, <2>4 DEF First, StampInv
  <2> QED  BY <1>1, <2>6, <2>7, DrainKept DEF First
<1> QED  BY <1>1, <1>2, <1>3

-----------------------------------------------------------------------------
(* The theorem. *)

LEMMA RootInitInv == RootInit => RootInv
<1> SUFFICES ASSUME RootInit PROVE RootInv
  OBVIOUS
<1>1. /\ log = <<>> /\ executed = <<>> /\ mem = [x \in 0 .. (MemSize - 1) |-> Empty]
      /\ cell = [s \in Slots |-> 0] /\ seen = [s \in Slots |-> 0] /\ done = [s \in Slots |-> 0]
      /\ pc = "idle" /\ unrung = 0 /\ bell = NoBell /\ kick = FALSE /\ dpc = "idle"
      /\ read_ptr = 0 /\ write_ptr = 0 /\ boots = 1 /\ twice = FALSE
      /\ programmed = {} /\ base = FALSE
  BY DEF RootInit, StampsInit
<1>2. cell[0] = 0 /\ seen[0] = 0 /\ done[0] = 0
  BY <1>1, RootAssumption
<1>3. StampInv
  BY <1>1, <1>2 DEF StampInv
<1>4. LogOK(<<>>) /\ Pos(<<>>, 0) = 0
  BY DEF LogOK, Pos
<1>5. RingOK(<<>>, mem, 0)
  <2>1. MemShape(mem)
    BY <1>1 DEF MemShape
  <2>2. Stored(mem, <<>>, 0)
    BY DEF Stored
  <2> QED  BY <1>4, <2>1, <2>2, RootAssumption DEF RingOK
<1>6. 0 % RingSize = 0
  <2>1. RingSize \in Nat \ {0} /\ 0 \in 0 .. (RingSize - 1) /\ 0 = 0 * RingSize + 0
    BY RootAssumption
  <2> QED  BY <2>1, Remainder
<1>7. RingInv
  BY <1>1, <1>2, <1>4, <1>5, <1>6 DEF RingInv, BellsOK
<1>8. DrainInv
  BY <1>1, <1>4, <1>6 DEF DrainInv, AtOK
<1>9. GeometryInv
  BY GeometryInit
<1>10. boots \in Nat \ {0}
  BY <1>1
<1>11. twice \in BOOLEAN
  BY <1>1, Zenon
<1> QED  BY <1>3, <1>7, <1>8, <1>9, <1>10, <1>11 DEF RootInv, First

\* A step of the first boot that neither reboots the guest nor completes a stamp twice.
LEMMA FirstStep ==
    ASSUME GeometryInv, First, [RootNext]_vars, UNCHANGED <<boots, twice>>, FirstBoot
    PROVE  First'
<1>1. CASE write_status_control \/ write_ring_size \/ write_start_offset \/ write_base_pfn
  BY <1>1, ProgramStep DEF write_status_control, write_ring_size, write_start_offset,
                           write_base_pfn, Registers
<1>2. ASSUME NEW len \in Lens, WriteCommand(len) PROVE First'
  BY <1>2, WriteStep
<1>3. CASE RingDoorbell \/ KickChannel0
  BY <1>3, RingDoorbellStep, KickStep
<1>4. CASE lagfx_device_reset
  BY <1>4 DEF lagfx_device_reset, FirstBoot
<1>5. CASE Doors
  BY <1>5, DoorStep, KickedStep DEF Doors
<1>6. CASE Drain
  <2>1. CASE complete_after_exec
    BY <2>1 DEF complete_after_exec, FirstBoot
  <2> QED  BY <1>6, <2>1, HeaderStep, BodyStep, AdvanceStep DEF Drain
<1>7. CASE CompleteStamp
  BY <1>7, CompleteStampStep
<1>8. CASE HandleInterrupt
  BY <1>8, InterruptStep
<1>9. CASE UNCHANGED vars
  <2>1. UNCHANGED <<cell, seen, done, executed, pc, slot, stamp, log, mem, unrung, bell, write_ptr,
                    kick, dpc, programmed, read_ptr, cmd>>
    BY <1>9 DEF vars, stampVars, rootVars
  <2> QED  BY <2>1, StampKept, RingKept, DrainKept DEF First
<1> QED  BY <1>1, <1>2, <1>3, <1>4, <1>5, <1>6, <1>7, <1>8, <1>9 DEF RootNext

\* Boots only increase, and a stamp completed twice stays so.
LEMMA BootsStep ==
    ASSUME boots \in Nat \ {0}, twice \in BOOLEAN, [RootNext]_vars
    PROVE  /\ boots' \in Nat \ {0} /\ twice' \in BOOLEAN
           /\ UNCHANGED <<boots, twice>> \/ boots' > 1 \/ twice' = TRUE
<1>1. CASE lagfx_device_reset
  <2>1. boots' = boots + 1 /\ twice' = twice
    BY <1>1 DEF lagfx_device_reset
  <2>2. boots' \in Nat \ {0} /\ boots' > 1
    BY <2>1
  <2>3. twice' \in BOOLEAN
    BY <2>1, Zenon
  <2> QED  BY <2>2, <2>3
<1>2. CASE complete_after_exec
  BY <1>2, Zenon DEF complete_after_exec
<1>3. CASE UNCHANGED <<boots, twice>>
  BY <1>3, Zenon
<1>4. \/ lagfx_device_reset \/ complete_after_exec \/ UNCHANGED <<boots, twice>>
  BY DEF RootNext, Doors, Drain, Programs, write_status_control, write_ring_size,
         write_start_offset, write_base_pfn, WriteCommand, RingDoorbell, KickChannel0,
         primary_ring_door_dispatch, channel_door_dispatch_0, read_header,
         read_body_and_dispatch, advance_read_ptr, AdvanceTo, CompleteStamp, HandleInterrupt,
         rootVars, vars
<1> QED  BY <1>1, <1>2, <1>3, <1>4

LEMMA RootStep == RootInv /\ [RootNext]_vars => RootInv'
<1> SUFFICES ASSUME RootInv, [RootNext]_vars PROVE RootInv'
  OBVIOUS
<1>1. /\ boots' \in Nat \ {0} /\ twice' \in BOOLEAN
      /\ UNCHANGED <<boots, twice>> \/ boots' > 1 \/ twice' = TRUE
  BY BootsStep DEF RootInv
<1>2. GeometryInv'
  BY GeometryStep DEF RootInv
<1>3. ASSUME FirstBoot' PROVE First'
  <2>1. UNCHANGED <<boots, twice>>
    BY <1>1, <1>3 DEF FirstBoot
  <2>2. FirstBoot
    BY <1>3, <2>1 DEF FirstBoot
  <2> QED  BY <2>1, <2>2, FirstStep DEF RootInv
<1> QED  BY <1>1, <1>2, <1>3 DEF RootInv

\* RootExactlyOnce for every ring size, page, command length and number of slots, whatever
\* DMA fails: the guest reuses ring space by the stamp cell, which never shows more
\* commands completed than were dispatched, so the n-th dispatch of the first boot is the
\* n-th command as written, until CmdExecIndirect2 completes a stamp a second time.
THEOREM RootExactlyOnceAlways == RootSpec => []RootExactlyOnce
<1>1. RootInv => RootExactlyOnce
  <2> SUFFICES ASSUME RootInv, boots = 1, ~twice, NEW k \in DOMAIN executed
               PROVE  executed[k] = k
    BY DEF RootExactlyOnce
  <2>1. FirstBoot
    BY Zenon DEF RootInv, FirstBoot
  <2>2. executed \in Seq(Nat) /\ \A i \in 1 .. Len(executed) : executed[i] = i
    BY <2>1 DEF RootInv, First, RingInv
  <2>3. k \in 1 .. Len(executed)
    BY <2>2
  <2> QED  BY <2>2, <2>3
<1> QED  BY <1>1, RootInitInv, RootStep, PTL DEF RootSpec

=============================================================================
