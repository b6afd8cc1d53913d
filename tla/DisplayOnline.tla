---------------------------- MODULE DisplayOnline ----------------------------
(***************************************************************************)
(* How the guest learns that a display is online.  The guest passes the    *)
(* page of a display's shared state (handlers/display/display.c); the      *)
(* host's vblank timer polls the enable word of every installed page and,  *)
(* the first time it reads 0xC, sets the pending word; after the last      *)
(* display it raises vector 0 once if it set any (timer/timer.c).          *)
(*                                                                         *)
(* Three threads share this state without a lock: the tick, the drain      *)
(* thread that runs the setup handler, and the guest's own processors,     *)
(* which write the page whenever they like.  A tick is one step per access *)
(* it makes, and so is the setup; the others run in between.               *)
(*                                                                         *)
(* Each guest memory access of the host may fail.  A tick that cannot read *)
(* a page tries again; a tick whose write fails marks the display as       *)
(* announced all the same, and nothing ever clears the mark.               *)
(***************************************************************************)
EXTENDS Integers, FiniteSets

CONSTANTS
    Displays,      \* display indices the guest uses
    TimerDisplays, \* 8: LAGFX_MAX_DISPLAYS of timer.c
    SetupDisplays, \* 16: the size of display_ss_gpa
    Pages,         \* guest page frame numbers, 0 is none
    MaxFaults      \* bound: failing guest memory accesses

ASSUME OnlineAssumption ==
    /\ Displays \subseteq Nat /\ TimerDisplays \in Nat /\ SetupDisplays \in Nat
    /\ TimerDisplays <= SetupDisplays
    /\ Pages \subseteq Nat \ {0}
    /\ MaxFaults \in Nat

VARIABLES
    display_ss_gpa,       \* per display, 0 before the first setup
    display_ss_installed, \* bit masks, as sets of displays
    display_ss_enabled,
    page,                 \* guest memory: the words at +0x100 and +0x104
    setup,                \* the page the setup handler is about to write, 0 when none
    loop,                 \* the tick: its display, what it does next, its ss_gpa
    posted,               \* per display, the page this tick found enabled and answered;
                          \* irq_raised says that there is one
    faults,               \* failures so far
    touched,              \* history: posted displays whose page the guest wrote since
    irqs,                 \* history: online events announced per display
    missed                \* history: displays whose announcement was lost

onlineVars == <<display_ss_gpa, display_ss_installed, display_ss_enabled,
                page, setup, loop, posted, faults, touched, irqs, missed>>

Words == [pending : {0, 4}, enable : {0, 12}]

Loops == [i : 0 .. TimerDisplays, pc : {"load", "read", "write"}, gpa : Pages \cup {0}]

OnlineTypeOK ==
    /\ display_ss_gpa \in [Displays -> Pages \cup {0}]
    /\ display_ss_installed \subseteq {i \in Displays : display_ss_gpa[i] # 0}
    /\ display_ss_enabled \subseteq Displays
    /\ page \in [Pages -> Words]
    /\ setup \in Pages \cup {0}
    /\ loop \in Loops
    /\ posted \in [Displays -> Pages \cup {0}]
    /\ faults \in 0 .. MaxFaults
    /\ touched \subseteq Displays
    /\ irqs \in [Displays -> Nat]
    /\ missed \subseteq Displays

Zeroed == [pending |-> 0, enable |-> 0]

Online == [pending |-> 4, enable |-> 12]

Nowhere == [i \in Displays |-> 0]

TickStart == [i |-> 0, pc |-> "load", gpa |-> 0]

OnlineInit ==
    /\ display_ss_gpa = Nowhere
    /\ display_ss_installed = {}
    /\ display_ss_enabled = {}
    /\ page = [g \in Pages |-> Zeroed]
    /\ setup = 0
    /\ loop = TickStart
    /\ posted = Nowhere
    /\ faults = 0
    /\ touched = {}
    /\ irqs = [i \in Displays |-> 0]
    /\ missed = {}

-----------------------------------------------------------------------------
(* The drain thread: vchan 0x01. *)

MemoryFault == faults < MaxFaults /\ faults' = faults + 1

\* The table and the mask; an index the table has no room for is ignored.
install(i, g) ==
    /\ setup = 0 /\ setup' = g
    /\ IF i < SetupDisplays
       THEN /\ display_ss_gpa' = [display_ss_gpa EXCEPT ![i] = g]
            /\ display_ss_installed' = display_ss_installed \cup {i}
       ELSE UNCHANGED <<display_ss_gpa, display_ss_installed>>
    /\ UNCHANGED <<display_ss_enabled, page, loop, posted, faults, touched, irqs, missed>>

\* The page is written after it was installed, and even when it was not.
publish ==
    /\ setup # 0 /\ setup' = 0
    /\ \/ page' = [page EXCEPT ![setup] = Online] /\ UNCHANGED faults
       \/ MemoryFault /\ UNCHANGED page
    /\ UNCHANGED <<display_ss_gpa, display_ss_installed, display_ss_enabled,
                   loop, posted, touched, irqs, missed>>

lagfx_display_vchan_setup_shared_state ==
    (\E i \in Displays, g \in Pages : install(i, g)) \/ publish

-----------------------------------------------------------------------------
(* The timer. *)

\* The displays whose enable word a tick reads.
Polled == {i \in display_ss_installed : display_ss_gpa[i] # 0}

NextDisplay_break == [i |-> TimerDisplays, pc |-> "load", gpa |-> 0]

\* Both "continue" and the end of the loop's body.
NextDisplay == [i |-> loop.i + 1, pc |-> "load", gpa |-> 0]

JustEnabled_relatched == page[loop.gpa].enable = 12

\* if (enabled_mask == 0xC && !(display_ss_enabled & (1 << i)))
JustEnabled == page[loop.gpa].enable = 12 /\ loop.i \notin display_ss_enabled

\* display_ss_enabled once the write was tried: set whether it worked or not.
latch(written) == display_ss_enabled \cup {written}

\* uint64_t ss_gpa = dev->display_ss_gpa[i], or on to the next display.
tick_load ==
    /\ loop.pc = "load" /\ loop.i < TimerDisplays
    /\ loop' = IF loop.i \in Polled
               THEN [loop EXCEPT !.pc = "read", !.gpa = display_ss_gpa[loop.i]]
               ELSE NextDisplay
    /\ UNCHANGED <<display_ss_gpa, display_ss_installed, display_ss_enabled,
                   page, setup, posted, faults, touched, irqs, missed>>

\* The enable word at the address loaded before.
tick_read ==
    /\ loop.pc = "read"
    /\ \/ /\ JustEnabled /\ loop' = [loop EXCEPT !.pc = "write"]
          /\ touched' = touched \ {loop.i} /\ UNCHANGED faults
       \/ ~JustEnabled /\ loop' = NextDisplay /\ UNCHANGED <<faults, touched>>
       \/ MemoryFault /\ loop' = NextDisplay /\ UNCHANGED touched
    /\ UNCHANGED <<display_ss_gpa, display_ss_installed, display_ss_enabled,
                   page, setup, posted, irqs, missed>>

ss_gpa_reread == display_ss_gpa[loop.i]

\* The address both accesses use, whatever the table says by now.
ss_gpa == loop.gpa

\* The pending word, then the latch, which only the tick reads.
tick_write ==
    /\ loop.pc = "write" /\ loop' = NextDisplay
    /\ display_ss_enabled' = latch(loop.i)
    /\ \/ /\ page' = [page EXCEPT ![ss_gpa].pending = 4]
          /\ posted' = [posted EXCEPT ![loop.i] = loop.gpa] /\ UNCHANGED <<faults, missed>>
       \/ /\ MemoryFault /\ missed' = missed \cup {loop.i}
          /\ UNCHANGED <<page, posted>>
    /\ UNCHANGED <<display_ss_gpa, display_ss_installed, setup, touched, irqs>>

\* One interrupt for all displays of this tick.
tick_raise ==
    /\ loop.pc = "load" /\ loop.i = TimerDisplays
    /\ loop' = TickStart /\ posted' = Nowhere /\ touched' = {}
    /\ irqs' = [i \in Displays |-> IF posted[i] # 0 THEN irqs[i] + 1 ELSE irqs[i]]
    /\ UNCHANGED <<display_ss_gpa, display_ss_installed, display_ss_enabled,
                   page, setup, faults, missed>>

lagfx_timer_tick_vblank == tick_load \/ tick_read \/ tick_write \/ tick_raise

-----------------------------------------------------------------------------

\* The displays whose page g this tick has read as enabled.
ReadFrom(g) ==
    {i \in Displays : posted[i] = g \/ (loop.i = i /\ loop.pc = "write" /\ loop.gpa = g)}

\* External: what the guest driver does to the page.
GuestWrites(g) ==
    /\ \/ page' = [page EXCEPT ![g] = Zeroed]
       \/ page' = [page EXCEPT ![g].pending = 0]
       \/ \E w \in {0, 12} : page' = [page EXCEPT ![g].enable = w]
    /\ touched' = touched \cup ReadFrom(g)
    /\ UNCHANGED <<display_ss_gpa, display_ss_installed, display_ss_enabled,
                   setup, loop, posted, faults, irqs, missed>>

OnlineNext ==
    \/ lagfx_display_vchan_setup_shared_state
    \/ lagfx_timer_tick_vblank
    \/ \E g \in Pages : GuestWrites(g)

\* The shell calls the tick from a 60 Hz timer for as long as the device runs, and
\* a tick ends.
OnlineSpec ==
    OnlineInit /\ [][OnlineNext]_onlineVars /\ WF_onlineVars(lagfx_timer_tick_vblank)

-----------------------------------------------------------------------------

\* "avoid repeated IRQ raises": over any sequence of setups, page moves and
\* disables, in the middle of a tick too, a display is announced, about to be
\* announced or missed at most once, and the latch says which displays that
\* happened to.
AnnouncedOnce ==
    /\ \A i \in Displays :
          irqs[i] + (IF i \in missed THEN 1 ELSE 0) + (IF posted[i] # 0 THEN 1 ELSE 0) <= 1
    /\ display_ss_enabled = missed \cup {i \in Displays : irqs[i] = 1 \/ posted[i] # 0}

\* An online interrupt is never spurious: for every display it announces, the tick
\* set the pending word of a page that it had read as enabled, and at the interrupt
\* both words are still there unless the guest itself has written that page since
\* the read.  A setup that moves the display or writes the page in between, a write
\* that fails and an alias of two displays do not count as excuses.
InterruptFindsEvent ==
    [][\A i \in Displays : irqs'[i] # irqs[i] =>
          posted[i] \in Pages /\ (i \in touched \/ page[posted[i]] = Online)]_onlineVars

\* Every display below the timer's limit that keeps a page which stays enabled is
\* announced, however often the page could not be read, unless the one write failed.
EnabledIsAnnounced ==
    \A i \in Displays, g \in Pages :
        i < TimerDisplays =>
            (<>[](i \in display_ss_installed /\ display_ss_gpa[i] = g /\ page[g].enable = 12)
                => <>(irqs[i] = 1 \/ i \in missed))

=============================================================================
