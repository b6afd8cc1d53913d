---------------------------- MODULE FrameDelivery ----------------------------
(***************************************************************************)
(* How a frame gets from the draws to the shell: the ring-drain thread     *)
(* draws into the display's target and signals, the display-tick thread    *)
(* polls lagfx_display_read_frame (display.c), and neither waits for the   *)
(* other: new_frame_ready, last_signal_ns and settle_hold_start_ns are     *)
(* plain fields.  The display has a render target.                         *)
(*                                                                         *)
(* Time counts in settle periods (250 ms).  Of the pictures only matters   *)
(* whether they are the newest: a flag that the next draw clears.          *)
(***************************************************************************)
EXTENDS Integers

CONSTANTS
    HoldMax,   \* 8: how many settle periods a frame is held back at most
    MaxLost  \* bound: readbacks that fail

ASSUME DeliveryAssumption == HoldMax \in Nat \ {0} /\ MaxLost \in Nat

None == -1

VARIABLES
    drain,           \* the drain thread: "idle", or "drawn" and about to signal
    reader,          \* the tick thread: "idle", "reading", or "copied" when the GPU is done
    new_frame_ready,
    quiet,           \* a settle period has passed since last_signal_ns
    held,            \* settle periods since settle_hold_start_ns, None before
    copy, shown,     \* whether the copy, the shell's picture, is the newest
    overrun,         \* history: the newest picture was drawn during a readback, or lost with one
    lost             \* readbacks that failed

deliveryVars == <<drain, reader, new_frame_ready, quiet, held, copy, shown, overrun, lost>>

DeliveryInit ==
    /\ drain = "idle" /\ reader = "idle"
    /\ new_frame_ready = FALSE /\ quiet = TRUE /\ held = None
    /\ copy = FALSE /\ shown = TRUE /\ overrun = FALSE /\ lost = 0

-----------------------------------------------------------------------------
(* The drain thread. *)

\* A draw finishes on the GPU, ahead of any readback submitted after it.
Draw ==
    /\ drain = "idle" /\ drain' = "drawn"
    /\ copy' = FALSE /\ shown' = FALSE
    /\ overrun' = (reader # "idle")
    /\ UNCHANGED <<reader, new_frame_ready, quiet, held, lost>>

lagfx_display_signal_frame_ready ==
    /\ drain = "drawn" /\ drain' = "idle"
    /\ quiet' = FALSE /\ new_frame_ready' = TRUE
    /\ UNCHANGED <<reader, held, copy, shown, overrun, lost>>

-----------------------------------------------------------------------------
(* The tick thread. *)

\* settle_hold_start_ns at a poll during a burst.
HoldRestarted == 0

HoldStarted == IF held = None THEN 0 ELSE held

HeldForgetsFrame == FALSE

\* Returning NO_FRAME from the hold leaves the flag as it is.
HeldFlag == new_frame_ready

Polling == reader = "idle" /\ new_frame_ready

\* since_sig < settle, and the hold has not lasted for HoldMax periods.
HoldBack ==
    /\ Polling /\ ~quiet /\ HoldStarted < HoldMax
    /\ held' = HoldStarted /\ new_frame_ready' = HeldFlag
    /\ UNCHANGED <<drain, reader, quiet, copy, shown, overrun, lost>>

ReadFrame ==
    /\ Polling /\ (quiet \/ HoldStarted >= HoldMax)
    /\ held' = None /\ reader' = "reading"
    /\ UNCHANGED <<drain, new_frame_ready, quiet, copy, shown, overrun, lost>>

\* The GPU copies the picture while the drain thread may go on drawing.
Copied ==
    /\ reader = "reading" /\ reader' = "copied"
    /\ copy' = TRUE
    /\ UNCHANGED <<drain, new_frame_ready, quiet, held, shown, overrun, lost>>

\* The frame is delivered or the readback failed; the flag is cleared either way.
ReadDone ==
    /\ reader = "copied" /\ reader' = "idle"
    /\ new_frame_ready' = FALSE
    /\ \/ shown' = copy /\ UNCHANGED <<overrun, lost>>
       \/ /\ lost < MaxLost /\ lost' = lost + 1
          /\ overrun' = TRUE /\ UNCHANGED shown
    /\ UNCHANGED <<drain, quiet, held, copy>>

Time ==
    /\ quiet' = TRUE
    /\ held' = IF held \in {None, HoldMax} THEN held ELSE held + 1
    /\ UNCHANGED <<drain, reader, new_frame_ready, copy, shown, overrun, lost>>

Tick == HoldBack \/ ReadFrame \/ Copied \/ ReadDone

DeliveryNext == Draw \/ lagfx_display_signal_frame_ready \/ Tick \/ Time

\* The shell polls on every display refresh; a draw that was made is signalled; time
\* passes.  Nothing makes the guest draw, or stop drawing.
DeliverySpec ==
    /\ DeliveryInit /\ [][DeliveryNext]_deliveryVars
    /\ WF_deliveryVars(Tick) /\ WF_deliveryVars(lagfx_display_signal_frame_ready)
    /\ WF_deliveryVars(Time)

-----------------------------------------------------------------------------

\* "Max hold is 8x settle so a continuously-animating guest still presents": a frame
\* that is signalled is read in the end, however the draws that keep arriving fall
\* between the polls.
StillPresents == new_frame_ready ~> reader # "idle"

\* When the guest stops drawing the shell ends up with the last picture, whatever the
\* hold, the polls and the signals did to each other - except for a picture drawn while
\* an earlier one was read back (ReadDone clears the flag its signal had set) or whose
\* readback failed: those stay unseen until the next draw.
LastFrameShown == <>[](drain = "idle" /\ ~shown) => <>[]overrun
=============================================================================
