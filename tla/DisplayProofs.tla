--------------------------- MODULE DisplayProofs ---------------------------
(***************************************************************************)
(* Five theorems about displays.                                           *)
(*                                                                         *)
(* For any number of displays and pages, any pattern of failing accesses   *)
(* and any guest writes in the middle of a tick, a display is announced at *)
(* most once and never without an event to find.  The invariant says what  *)
(* the tick has latched and what the guest has left of what it wrote.      *)
(*                                                                         *)
(* For a GPU of any depth and any delay, and calls that fail anywhere,     *)
(* nothing is freed or reset while a submission uses it.  Most of the 34   *)
(* scripts cannot touch what the property watches, and are shown plain     *)
(* step by step; the two draws, the ring and the two frames are followed   *)
(* by position.                                                            *)
(*                                                                         *)
(* And nothing leaks: 25 scripts free every temporary they make, on every  *)
(* path out of them; the nine that build or destroy what outlives a call   *)
(* are followed by position.                                               *)
(*                                                                         *)
(* And the layout a display's target is said to have is the one its image  *)
(* has, two threads sharing it: 8 scripts change it, each bringing the     *)
(* image to the layout it leaves tracked, and the invariant follows where  *)
(* each thread is in its own.                                              *)
(***************************************************************************)
EXTENDS DisplayOnline, DisplayFrames, RtLayout, TLAPS

-----------------------------------------------------------------------------
(* The online event. *)

\* What the proof needs of the types; the fault counter is left out.
Tables ==
    /\ display_ss_gpa \in [Displays -> Pages \cup {0}]
    /\ display_ss_installed \subseteq Displays
    /\ display_ss_enabled \subseteq Displays
    /\ page \in [Pages -> Words]
    /\ setup \in Pages \cup {0}
    /\ loop \in Loops
    /\ posted \in [Displays -> Pages \cup {0}]
    /\ touched \subseteq Displays
    /\ irqs \in [Displays -> Nat]
    /\ missed \subseteq Displays

\* Past its first access a tick looks at a page of a display, and it writes only what
\* is not latched yet.
Looking ==
    /\ loop.pc # "load" => /\ loop.i \in Displays /\ loop.gpa \in Pages
                           /\ loop.i # TimerDisplays
    /\ loop.pc = "write" => loop.i \notin display_ss_enabled

\* AnnouncedOnce without the sum: the latched displays are the announced, the posted
\* and the missed ones, and no display is two of these.
Latched ==
    /\ display_ss_enabled = missed \cup {i \in Displays : irqs[i] = 1 \/ posted[i] # 0}
    /\ \A i \in Displays : irqs[i] \in {0, 1}
    /\ \A i \in missed : irqs[i] = 0 /\ posted[i] = 0
    /\ \A i \in Displays : posted[i] # 0 => irqs[i] = 0

\* What a page still shows of what the tick read and wrote there.
Found ==
    /\ \A i \in Displays : posted[i] # 0 => i \in touched \/ page[posted[i]] = Online
    /\ loop.pc = "write" => loop.i \in touched \/ page[loop.gpa].enable = 12

OnlineInv == Tables /\ Looking /\ Latched /\ Found

LEMMA LatchedIsOnce ==
    Tables /\ Latched => AnnouncedOnce
<1> SUFFICES ASSUME Tables, Latched PROVE AnnouncedOnce
  OBVIOUS
<1>1. ASSUME NEW i \in Displays
      PROVE  irqs[i] + (IF i \in missed THEN 1 ELSE 0) + (IF posted[i] # 0 THEN 1 ELSE 0) <= 1
  BY DEF Tables, Latched
<1> QED  BY <1>1 DEF Latched, AnnouncedOnce

LEMMA InstallStep ==
    ASSUME OnlineInv, NEW i \in Displays, NEW g \in Pages, install(i, g)
    PROVE  OnlineInv'
<1>1. /\ UNCHANGED <<display_ss_enabled, page, loop, posted, touched, irqs, missed>>
      /\ setup' = g
  BY DEF install
<1>2. /\ display_ss_gpa' \in [Displays -> Pages \cup {0}]
      /\ display_ss_installed' \subseteq Displays
  BY DEF install, OnlineInv, Tables
<1>3. Tables'
  BY <1>1, <1>2 DEF OnlineInv, Tables
<1>4. Looking' /\ Latched' /\ Found'
  BY <1>1 DEF OnlineInv, Looking, Latched, Found
<1> QED  BY <1>3, <1>4 DEF OnlineInv

\* A setup writes what the tick would find and would write.
LEMMA PublishStep ==
    ASSUME OnlineInv, publish
    PROVE  OnlineInv'
<1>1. /\ UNCHANGED <<display_ss_gpa, display_ss_installed, display_ss_enabled,
                     loop, posted, touched, irqs, missed>>
      /\ setup \in Pages /\ setup' = 0
      /\ page' = [page EXCEPT ![setup] = Online] \/ page' = page
  BY DEF publish, OnlineInv, Tables
<1>2. Online \in Words /\ Online.enable = 12
  BY DEF Online, Words
<1>3. page' \in [Pages -> Words]
  BY <1>1, <1>2 DEF OnlineInv, Tables
<1>4. \A g \in Pages : page'[g] = page[g] \/ page'[g] = Online
  BY <1>1 DEF OnlineInv, Tables
<1>5. Tables'
  BY <1>1, <1>3 DEF OnlineInv, Tables
<1>6. Looking' /\ Latched'
  BY <1>1 DEF OnlineInv, Looking, Latched
<1>7. \A i \in Displays : posted[i] # 0 => posted[i] \in Pages
  BY DEF OnlineInv, Tables
<1>8. Found'
  BY <1>1, <1>2, <1>4, <1>7 DEF OnlineInv, Found, Looking
<1> QED  BY <1>5, <1>6, <1>8 DEF OnlineInv

LEMMA LoadStep ==
    ASSUME OnlineInv, tick_load
    PROVE  OnlineInv'
<1>1. /\ UNCHANGED <<display_ss_gpa, display_ss_installed, display_ss_enabled,
                     page, setup, posted, touched, irqs, missed>>
      /\ loop.pc = "load" /\ loop.i < TimerDisplays /\ loop.i \in 0 .. TimerDisplays
      /\ loop' = IF loop.i \in Polled
                 THEN [loop EXCEPT !.pc = "read", !.gpa = display_ss_gpa[loop.i]]
                 ELSE NextDisplay
  BY DEF tick_load, OnlineInv, Tables, Loops
<1>2. CASE loop.i \in Polled
  <2>1. loop.i \in Displays /\ display_ss_gpa[loop.i] \in Pages
    BY <1>2 DEF Polled, OnlineInv, Tables
  <2>2. loop' = [loop EXCEPT !.pc = "read", !.gpa = display_ss_gpa[loop.i]]
    BY <1>1, <1>2
  <2>3. /\ loop' \in Loops /\ loop'.pc = "read"
        /\ loop'.i = loop.i /\ loop'.gpa = display_ss_gpa[loop.i]
    BY <2>1, <2>2 DEF OnlineInv, Tables, Loops
  <2> QED  BY <1>1, <2>1, <2>3 DEF OnlineInv, Tables, Looking, Latched, Found
<1>3. CASE loop.i \notin Polled
  <2>1. loop' = NextDisplay
    BY <1>1, <1>3
  <2>2. loop.i < TimerDisplays /\ loop.i \in 0 .. TimerDisplays
    BY <1>1
  <2>3. loop' \in Loops /\ loop'.pc = "load"
    BY <2>1, <2>2, OnlineAssumption DEF NextDisplay, Loops
  <2> QED  BY <1>1, <2>3 DEF OnlineInv, Tables, Looking, Latched, Found
<1> QED  BY <1>2, <1>3

LEMMA ReadStep ==
    ASSUME OnlineInv, tick_read
    PROVE  OnlineInv'
<1>1. /\ UNCHANGED <<display_ss_gpa, display_ss_installed, display_ss_enabled,
                     page, setup, posted, irqs, missed>>
      /\ loop.pc = "read" /\ loop \in Loops /\ loop.i \in Displays /\ loop.gpa \in Pages
  BY DEF tick_read, OnlineInv, Tables, Looking
<1>2. CASE JustEnabled /\ loop' = [loop EXCEPT !.pc = "write"] /\ touched' = touched \ {loop.i}
  <2>1. loop' \in Loops /\ loop'.pc = "write" /\ loop'.i = loop.i /\ loop'.gpa = loop.gpa
    BY <1>1, <1>2 DEF Loops
  <2>2. page[loop.gpa].enable = 12 /\ loop.i \notin display_ss_enabled
    BY <1>2 DEF JustEnabled
  <2>3. posted[loop.i] = 0
    BY <1>1, <2>2 DEF OnlineInv, Latched
  <2>4. Tables'
    BY <1>1, <1>2, <2>1 DEF OnlineInv, Tables
  <2>5. Looking' /\ Latched'
    BY <1>1, <2>1, <2>2 DEF OnlineInv, Looking, Latched
  <2>6. Found'
    BY <1>1, <1>2, <2>1, <2>2, <2>3 DEF OnlineInv, Found
  <2> QED  BY <2>4, <2>5, <2>6 DEF OnlineInv
<1>3. CASE loop' = NextDisplay /\ touched' = touched
  <2>1. loop.i \in 0 .. TimerDisplays /\ loop.i # TimerDisplays
    BY <1>1 DEF Loops, OnlineInv, Looking
  <2>2. loop' \in Loops /\ loop'.pc = "load"
    BY <1>1, <1>3, <2>1, OnlineAssumption DEF NextDisplay, Loops
  <2> QED  BY <1>1, <1>3, <2>2 DEF OnlineInv, Tables, Looking, Latched, Found
<1> QED  BY <1>2, <1>3 DEF tick_read

LEMMA WriteStep ==
    ASSUME OnlineInv, tick_write
    PROVE  OnlineInv'
<1>1. /\ UNCHANGED <<display_ss_gpa, display_ss_installed, setup, touched, irqs>>
      /\ loop.pc = "write" /\ loop \in Loops /\ loop.i \in Displays /\ loop.gpa \in Pages
      /\ loop.i \notin display_ss_enabled
      /\ display_ss_enabled' = display_ss_enabled \cup {loop.i}
      /\ loop' = NextDisplay
  BY DEF tick_write, OnlineInv, Tables, Looking, latch
<1>2. loop.i \in 0 .. TimerDisplays /\ loop.i # TimerDisplays
  BY <1>1 DEF Loops, OnlineInv, Looking
<1>3. loop' \in Loops /\ loop'.pc = "load"
  BY <1>1, <1>2, OnlineAssumption DEF NextDisplay, Loops
<1>4. irqs[loop.i] = 0 /\ posted[loop.i] = 0 /\ loop.i \notin missed
  BY <1>1 DEF OnlineInv, Latched
<1>5. CASE /\ page' = [page EXCEPT ![loop.gpa].pending = 4]
           /\ posted' = [posted EXCEPT ![loop.i] = loop.gpa] /\ missed' = missed
  <2>1. posted' = [posted EXCEPT ![loop.i] = loop.gpa]
    BY <1>5
  <2>2. page[loop.gpa] \in Words
    BY <1>1 DEF OnlineInv, Tables
  <2>3. /\ page'[loop.gpa] \in Words
        /\ page'[loop.gpa].enable = page[loop.gpa].enable
        /\ page'[loop.gpa].enable = 12 => page'[loop.gpa] = Online
    BY <1>1, <1>5, <2>2 DEF Words, Online, OnlineInv, Tables
  <2>4. \A g \in Pages : g # loop.gpa => page'[g] = page[g]
    BY <1>5 DEF OnlineInv, Tables
  <2>5. page' \in [Pages -> Words]
    BY <1>5, <2>3, <2>4 DEF OnlineInv, Tables
  <2>6. posted' \in [Displays -> Pages \cup {0}]
    BY <1>1, <2>1 DEF OnlineInv, Tables
  <2>7. \A i \in Displays : posted'[i] = IF i = loop.i THEN loop.gpa ELSE posted[i]
    BY <2>1 DEF OnlineInv, Tables
  <2>8. loop.gpa # 0
    BY <1>1, OnlineAssumption
  <2>9. Tables' /\ Looking'
    BY <1>1, <1>3, <1>5, <2>5, <2>6 DEF OnlineInv, Tables, Looking
  <2>10. Latched'
    <3>1. display_ss_enabled'
            = missed' \cup {i \in Displays : irqs'[i] = 1 \/ posted'[i] # 0}
      BY <1>1, <1>4, <1>5, <2>7, <2>8 DEF OnlineInv, Latched
    <3>2. missed \subseteq Displays /\ loop.i \in Displays /\ loop.i \notin missed
      BY <1>1, <1>4 DEF OnlineInv, Tables
    <3>3. \A i \in missed' : irqs'[i] = 0 /\ posted'[i] = 0
      BY <1>1, <1>5, <2>7, <3>2 DEF OnlineInv, Latched
    <3>4. \A i \in Displays : posted'[i] # 0 => irqs'[i] = 0
      BY <1>1, <1>4, <2>7 DEF OnlineInv, Latched
    <3> QED  BY <1>1, <3>1, <3>3, <3>4 DEF OnlineInv, Latched
  <2>11. \A i \in Displays : posted[i] # 0 => posted[i] \in Pages
    BY DEF OnlineInv, Tables
  <2>12. page[loop.gpa] = Online => page'[loop.gpa] = Online
    BY <2>3 DEF Online
  <2>13. ASSUME NEW i \in Displays, posted'[i] # 0, i \notin touched
         PROVE  page'[posted'[i]] = Online
    <3>1. CASE i = loop.i
      BY <1>1, <2>3, <2>7, <2>13, <3>1 DEF OnlineInv, Found
    <3>2. CASE i # loop.i
      BY <2>4, <2>7, <2>11, <2>12, <2>13, <3>2 DEF OnlineInv, Found
    <3> QED  BY <3>1, <3>2
  <2>14. Found'
    BY <1>1, <1>3, <2>13 DEF Found
  <2> QED  BY <2>9, <2>10, <2>14 DEF OnlineInv
<1>6. CASE page' = page /\ posted' = posted /\ missed' = missed \cup {loop.i}
  BY <1>1, <1>3, <1>4, <1>6 DEF OnlineInv, Tables, Looking, Latched, Found
<1> QED  BY <1>5, <1>6 DEF tick_write, ss_gpa

LEMMA RaiseStep ==
    ASSUME OnlineInv, tick_raise
    PROVE  OnlineInv'
<1>1. /\ UNCHANGED <<display_ss_gpa, display_ss_installed, display_ss_enabled,
                     page, setup, missed>>
      /\ loop' = TickStart /\ posted' = Nowhere /\ touched' = {}
      /\ irqs' = [i \in Displays |-> IF posted[i] # 0 THEN irqs[i] + 1 ELSE irqs[i]]
  BY DEF tick_raise
<1>2. loop' \in Loops /\ loop'.pc = "load"
  BY <1>1, OnlineAssumption DEF TickStart, Loops
<1>3. posted' \in [Displays -> Pages \cup {0}] /\ \A i \in Displays : posted'[i] = 0
  BY <1>1 DEF Nowhere
<1>4. \A i \in Displays : irqs'[i] = IF posted[i] # 0 THEN 1 ELSE irqs[i]
  BY <1>1 DEF OnlineInv, Latched
<1>5. Tables'
  BY <1>1, <1>2, <1>3 DEF OnlineInv, Tables
<1>6. Latched'
  BY <1>1, <1>3, <1>4 DEF OnlineInv, Latched, Tables
<1> QED  BY <1>2, <1>3, <1>5, <1>6 DEF OnlineInv, Looking, Found

LEMMA GuestStep ==
    ASSUME OnlineInv, NEW g \in Pages, GuestWrites(g)
    PROVE  OnlineInv'
<1>1. /\ UNCHANGED <<display_ss_gpa, display_ss_installed, display_ss_enabled,
                     setup, loop, posted, irqs, missed>>
      /\ touched' = touched \cup ReadFrom(g)
  BY DEF GuestWrites
<1>2. page[g] \in Words
  BY DEF OnlineInv, Tables
<1>3. PICK w \in Words : page' = [page EXCEPT ![g] = w]
  <2>1. CASE page' = [page EXCEPT ![g] = Zeroed]
    BY <2>1 DEF Zeroed, Words
  <2>2. CASE page' = [page EXCEPT ![g].pending = 0]
    <3>1. [page[g] EXCEPT !.pending = 0] \in Words
      BY <1>2 DEF Words
    <3> QED  BY <2>2, <3>1
  <2>3. CASE \E w \in {0, 12} : page' = [page EXCEPT ![g].enable = w]
    <3>1. \A w \in {0, 12} : [page[g] EXCEPT !.enable = w] \in Words
      BY <1>2 DEF Words
    <3> QED  BY <2>3, <3>1
  <2> QED  BY <2>1, <2>2, <2>3 DEF GuestWrites
<1>4. page' \in [Pages -> Words] /\ \A h \in Pages : h # g => page'[h] = page[h]
  BY <1>3 DEF OnlineInv, Tables
<1>5. Tables' /\ Looking' /\ Latched'
  BY <1>1, <1>4 DEF OnlineInv, Tables, Looking, Latched, ReadFrom
<1>6. \A i \in Displays : posted[i] # 0 => posted[i] \in Pages
  BY DEF OnlineInv, Tables
<1>7. ASSUME NEW i \in Displays, posted[i] # 0
      PROVE  i \in touched' \/ page'[posted[i]] = Online
  <2>1. CASE posted[i] = g
    BY <1>1, <2>1 DEF ReadFrom
  <2>2. CASE posted[i] # g
    BY <1>1, <1>4, <1>6, <1>7, <2>2 DEF OnlineInv, Found
  <2> QED  BY <2>1, <2>2
<1>8. ASSUME loop.pc = "write"
      PROVE  loop.i \in touched' \/ page'[loop.gpa].enable = 12
  <2>1. loop.i \in Displays /\ loop.gpa \in Pages
    BY <1>8 DEF OnlineInv, Looking
  <2>2. CASE loop.gpa = g
    BY <1>1, <1>8, <2>1, <2>2 DEF ReadFrom
  <2>3. CASE loop.gpa # g
    BY <1>1, <1>4, <1>8, <2>1, <2>3 DEF OnlineInv, Found
  <2> QED  BY <2>2, <2>3
<1>9. Found'
  BY <1>1, <1>7, <1>8 DEF Found
<1> QED  BY <1>5, <1>9 DEF OnlineInv

\* The invariant that both theorems rest on.
LEMMA OnlineInvAlways ==
    OnlineSpec => []OnlineInv
<1>1. OnlineInit => OnlineInv
  <2> SUFFICES ASSUME OnlineInit PROVE OnlineInv
    OBVIOUS
  <2>1. Zeroed \in Words /\ TickStart \in Loops /\ TickStart.pc = "load"
    BY OnlineAssumption DEF Zeroed, Words, TickStart, Loops
  <2> QED  BY <2>1 DEF OnlineInit, Nowhere, OnlineInv, Tables, Looking, Latched, Found
<1>2. OnlineInv /\ [OnlineNext]_onlineVars => OnlineInv'
  <2> SUFFICES ASSUME OnlineInv, [OnlineNext]_onlineVars PROVE OnlineInv'
    OBVIOUS
  <2>1. CASE lagfx_display_vchan_setup_shared_state
    BY <2>1, InstallStep, PublishStep DEF lagfx_display_vchan_setup_shared_state
  <2>2. CASE lagfx_timer_tick_vblank
    BY <2>2, LoadStep, ReadStep, WriteStep, RaiseStep DEF lagfx_timer_tick_vblank
  <2>3. CASE \E g \in Pages : GuestWrites(g)
    BY <2>3, GuestStep
  <2>4. CASE UNCHANGED onlineVars
    BY <2>4 DEF onlineVars, OnlineInv, Tables, Looking, Latched, Found
  <2> QED  BY <2>1, <2>2, <2>3, <2>4 DEF OnlineNext
<1> QED  BY <1>1, <1>2, PTL DEF OnlineSpec

-----------------------------------------------------------------------------

\* timer.c never announces a display twice, whatever the guest does with its
\* shared-state pages, in the middle of a tick too, and whichever accesses fail.
THEOREM OnlineOnce ==
    OnlineSpec => []AnnouncedOnce
<1>1. OnlineInv => AnnouncedOnce
  BY LatchedIsOnce DEF OnlineInv
<1> QED  BY <1>1, OnlineInvAlways, PTL

\* The interrupt of timer.c is never spurious: the tick read as enabled and set the
\* pending word of a page of every display it announces, and only the guest can have
\* taken either away since.
THEOREM OnlineNotSpurious ==
    OnlineSpec => InterruptFindsEvent
<1>1. OnlineInv /\ [OnlineNext]_onlineVars
        => [\A i \in Displays : irqs'[i] # irqs[i] =>
               posted[i] \in Pages /\ (i \in touched \/ page[posted[i]] = Online)]_onlineVars
  <2> SUFFICES ASSUME OnlineInv, OnlineNext, NEW i \in Displays, irqs'[i] # irqs[i]
               PROVE  posted[i] \in Pages /\ (i \in touched \/ page[posted[i]] = Online)
    OBVIOUS
  <2>1. tick_raise
    BY DEF OnlineNext, lagfx_display_vchan_setup_shared_state, install, publish,
           lagfx_timer_tick_vblank, tick_load, tick_read, tick_write, GuestWrites
  <2>2. posted[i] # 0
    BY <2>1 DEF tick_raise
  <2> QED  BY <2>2 DEF OnlineInv, Tables, Found
<1> QED  BY <1>1, OnlineInvAlways, PTL DEF OnlineSpec, InterruptFindsEvent

-----------------------------------------------------------------------------
(* Scripts. *)

\* The functions the argument follows step by step; what the others do does not touch
\* a draw or the ring.
Ordered == {"draw_rt", "draw_surface", "staging_ring_ensure", "send_frame1", "send_frame2"}
Fences == {"slot1.fence", "slot2.fence"}
SlotWatch == {"slot1.fence", "slot2.fence", "slot1.busy", "slot2.busy"}

\* A step that neither resets nor submits what the property watches, does not set the
\* ring's flag, and frees its fences and flags together with that flag or not at all.
Plain(st) ==
    /\ st.do # "reset"
    /\ st.do = "make" => st.obj # "ring"
    /\ st.do = "set" => "ring" \notin st.objs
    /\ st.do = "submit" => st.uses \cap (DrawTemporaries \cup Fences) = {}
    /\ st.do = "free" =>
          (st.objs \cap SlotWatch # {} => SlotWatch \cup {"ring"} \subseteq st.objs)
    /\ st.do = "undo" => st.objs \cap SlotWatch = {}

AllPlain(s) ==
    /\ s.skips \in Nat /\ s.undo \cap SlotWatch = {}
    /\ \A k \in 1 .. Len(s.steps) : Plain(s.steps[k])

\* The steps the scripts are made of.
LEMMA PlainSteps ==
    /\ \A o : o # "ring" => Plain(Make(o)) /\ Plain(MakeOpt(o))
    /\ Plain(Try)
    /\ \A m, t : Plain(Record(m, t))
    /\ \A t : Plain(Track(t))
    /\ \A f, l : Plain(Wait(f, l))
    /\ \A f, U : (U \cup {f}) \cap (DrawTemporaries \cup Fences) = {}
          => Plain(Submit(f, U)) /\ Plain(SubmitOpt(f, U))
    /\ \A S : S \cap SlotWatch = {} => Plain(Free(S)) /\ Plain(Undo(S))
    /\ \A S : "ring" \notin S => Plain(Set(S))
    /\ \A o, B, n : Plain([do |-> "if", obj |-> o, is |-> B, n |-> n])
BY DEF Plain, Make, MakeOpt, Try, Record, Track, Wait, Submit, SubmitOpt, Free, Undo,
   Set

\* Every script outside Ordered is plain.
LEMMA PlainScripts ==
    \A s \in DOMAIN Sites \ Ordered : AllPlain(Sites[s])
<1>1. AllPlain(vk_init)
  BY PlainSteps DEF AllPlain, DrawTemporaries, Fences, SlotWatch, Site, All, vk_init,
     create_instance, create_messenger, pick_physical_device, create_device
<1>2. AllPlain(create_pipeline_layout)
  BY PlainSteps DEF AllPlain, DrawTemporaries, Fences, SlotWatch, Site, All,
     create_pipeline_layout
<1>3. AllPlain(create_passthrough_pipeline)
  BY PlainSteps DEF AllPlain, DrawTemporaries, Fences, SlotWatch, Site, All,
     create_passthrough_pipeline
<1>4. AllPlain(create_frame_image)
  BY PlainSteps DEF AllPlain, DrawTemporaries, Fences, SlotWatch, Site, All,
     create_frame_image
<1>5. AllPlain(create_dummy_vb)
  BY PlainSteps DEF AllPlain, DrawTemporaries, Fences, SlotWatch, Site, All,
     create_dummy_vb, HostBuffer
<1>6. AllPlain(create_fallback_ds)
  BY PlainSteps DEF AllPlain, DrawTemporaries, Fences, SlotWatch, Site, All,
     create_fallback_ds, fallback_set, draw_pool_and_samplers, HostBuffer
<1>7. AllPlain(create_cursor_pipeline_layout)
  BY PlainSteps DEF AllPlain, DrawTemporaries, Fences, SlotWatch, Site, All,
     create_cursor_pipeline_layout
<1>8. AllPlain(create_cursor_pipeline)
  BY PlainSteps DEF AllPlain, DrawTemporaries, Fences, SlotWatch, Site, All,
     create_cursor_pipeline
<1>9. AllPlain(create_cursor_resources)
  BY PlainSteps DEF AllPlain, DrawTemporaries, Fences, SlotWatch, Site, All,
     create_cursor_resources, cursor_set, cursor_glyph, HostBuffer
<1>10. AllPlain(empty_layout)
  BY PlainSteps DEF AllPlain, DrawTemporaries, Fences, SlotWatch, Site, All,
     empty_layout
<1>11. AllPlain(vk_shutdown)
  BY PlainSteps DEF AllPlain, DrawTemporaries, Fences, SlotWatch, Site, All,
     vk_shutdown, CompositeObjects, PipelineShutdown, PipelineShutdownForgets,
     DestroyFrameImage, DestroyDummyVb, DestroyFallbackDs, DestroyCursor
<1>12. AllPlain(submit_empty)
  BY PlainSteps DEF AllPlain, DrawTemporaries, Fences, SlotWatch, Site, All,
     submit_empty, CommandBuffer
<1>13. AllPlain(render_target_create)
  BY PlainSteps DEF AllPlain, DrawTemporaries, Fences, SlotWatch, Site, All,
     render_target_create
<1>14. AllPlain(render_target_wrap)
  BY PlainSteps DEF AllPlain, DrawTemporaries, Fences, SlotWatch, Site, All,
     render_target_wrap
<1>15. AllPlain(rt_tint)
  BY PlainSteps DEF AllPlain, DrawTemporaries, Fences, SlotWatch, Site, All, rt_tint,
     RenderClear, CommandBuffer
<1>16. AllPlain(readback)
  BY PlainSteps DEF AllPlain, DrawTemporaries, Fences, SlotWatch, Site, All, readback,
     readback_record, ReadbackTracks, HostBuffer, CommandBuffer
<1>17. AllPlain(iosurface_create)
  BY PlainSteps DEF AllPlain, DrawTemporaries, Fences, SlotWatch, Site, All,
     iosurface_create
<1>18. AllPlain(iosurface_clear)
  BY PlainSteps DEF AllPlain, DrawTemporaries, Fences, SlotWatch, Site, All,
     iosurface_clear, CommandBuffer
<1>19. AllPlain(upload_pixels)
  BY PlainSteps DEF AllPlain, DrawTemporaries, Fences, SlotWatch, Site, All,
     upload_pixels, HostBuffer, CommandBuffer
<1>20. AllPlain(iosurface_destroy)
  BY PlainSteps DEF AllPlain, DrawTemporaries, Fences, SlotWatch, Site, All,
     iosurface_destroy
<1>21. AllPlain(composite_ensure)
  BY PlainSteps DEF AllPlain, DrawTemporaries, Fences, SlotWatch, Site, All,
     composite_ensure, IfNot, CompositeObjects
<1>22. AllPlain(composite_over)
  BY PlainSteps DEF AllPlain, DrawTemporaries, Fences, SlotWatch, Site, All,
     composite_over, CommandBuffer
<1>23. AllPlain(clear_image)
  BY PlainSteps DEF AllPlain, DrawTemporaries, Fences, SlotWatch, Site, All,
     clear_image, CommandBuffer
<1>24. AllPlain(present_surface)
  BY PlainSteps DEF AllPlain, DrawTemporaries, Fences, SlotWatch, Site, All,
     present_surface, present_staging, present_record, Maybe, HostBuffer, CommandBuffer
<1>25. AllPlain(fill_texture_color)
  BY PlainSteps DEF AllPlain, DrawTemporaries, Fences, SlotWatch, Site, All,
     fill_texture_color, BlitSite, FillRecord, CommandBuffer
<1>26. AllPlain(copy_texture_to_texture)
  BY PlainSteps DEF AllPlain, DrawTemporaries, Fences, SlotWatch, Site, All,
     copy_texture_to_texture, BlitSite, CopyRecord, CommandBuffer
<1>27. AllPlain(submit_clear_color)
  BY PlainSteps DEF AllPlain, DrawTemporaries, Fences, SlotWatch, Site, All,
     submit_clear_color, clear_commands, RenderClear, CommandBuffer
<1>28. AllPlain(keep_pixels)
  BY PlainSteps DEF AllPlain, DrawTemporaries, Fences, SlotWatch, Site, All, keep_pixels
<1>29. AllPlain(display_free)
  BY PlainSteps DEF AllPlain, DrawTemporaries, Fences, SlotWatch, Site, All,
     display_free, If, SlotObjects, SlotNames, RenderTarget, Plain, Free, Wait
<1> QED  BY <1>1, <1>2, <1>3, <1>4, <1>5, <1>6, <1>7, <1>8, <1>9, <1>10, <1>11, <1>12,
  <1>13, <1>14, <1>15, <1>16, <1>17, <1>18, <1>19, <1>20, <1>21, <1>22, <1>23, <1>24,
  <1>25, <1>26, <1>27, <1>28, <1>29 DEF Sites, Ordered

-----------------------------------------------------------------------------
(* The invariant. *)

\* Whatever a submission can name.
GpuNames ==
    UNION {Sites[s].steps[k].uses : s \in DOMAIN Sites, k \in Nat}

\* The names of a slot, the function that sends it, and the wait of each draw.
Fence(i) == IF i = 1 THEN "slot1.fence" ELSE "slot2.fence"
Busy(i) == IF i = 1 THEN "slot1.busy" ELSE "slot2.busy"
SendOf(i) == IF i = 1 THEN "send_frame1" ELSE "send_frame2"
DrawWait == [draw_rt |-> 10, draw_surface |-> 11]
In(s) == ~Idle /\ queue[1] = s

Shape ==
    /\ queue \in Seq(DOMAIN Sites)
    /\ gpu \in Seq(SUBSET GpuNames)
    /\ "undo" \in DOMAIN cur

\* A draw waits for what it submitted before anything else happens, so its objects are
\* in flight only at that wait, and with them its fence.
DrawHeld ==
    /\ \A k \in 1 .. Len(gpu) : gpu[k] \cap DrawTemporaries # {} => "draw.fence" \in gpu[k]
    /\ \A o \in DrawTemporaries : InFlight(o) => \E s \in DOMAIN DrawWait : In(s) /\ at = DrawWait[s]
    /\ \A s \in DOMAIN DrawWait :
          In(s) /\ at \in {DrawWait[s] - 1, DrawWait[s]} => "draw.fence" \in alive

\* A built ring has its fences, and one that is in flight has its busy flag set - but for
\* the step between the submission and the flag.  Once send_frame is past its wait for
\* the slot, the fence is idle until it is submitted.
SlotHeld(i) ==
    /\ "ring" \in alive => Fence(i) \in alive
    /\ InFlight(Fence(i)) => Busy(i) \in alive \/ (In(SendOf(i)) /\ at = 14)
    /\ In(SendOf(i)) /\ at # 0 => "ring" \in alive
    /\ In(SendOf(i)) /\ at \in (4 .. 13) \cup {16} => ~InFlight(Fence(i))

\* The ring is not there while it is being built, its fences are by the time it is.
RingBuilt ==
    In("staging_ring_ensure") =>
       /\ at \in 2 .. 12 => "ring" \notin alive
       /\ at \in 6 .. 12 => "slot1.fence" \in alive
       /\ at \in 11 .. 12 => "slot2.fence" \in alive

\* A failing call frees no fence of the ring, unless it was building the ring.
UndoOK ==
    ~Idle => \/ cur.undo \cap SlotWatch = {}
             \/ queue[1] = "staging_ring_ensure" /\ SlotWatch \subseteq cur.undo

FrameInv ==
    Shape /\ DrawHeld /\ SlotHeld(1) /\ SlotHeld(2) /\ RingBuilt /\ UndoOK /\ early = {}

LEMMA SiteNames ==
    /\ Ordered \subseteq DOMAIN Sites
    /\ Sites["draw_rt"] = draw_rt /\ Sites["draw_surface"] = draw_surface
    /\ Sites["staging_ring_ensure"] = staging_ring_ensure
    /\ Sites["send_frame1"] = send_frame(1) /\ Sites["send_frame2"] = send_frame(2)
BY DEF Sites, Ordered

\* What a call from outside runs are functions of the model.
LEMMA HandlersTyped ==
    \A h \in Handlers : h \in Seq(DOMAIN Sites) /\ h # <<>>
<1> DEFINE D == DOMAIN Sites
<1>1. D = {"vk_init", "create_pipeline_layout", "create_passthrough_pipeline",
           "create_frame_image", "create_dummy_vb", "create_fallback_ds",
           "create_cursor_pipeline_layout", "create_cursor_pipeline", "create_cursor_resources",
           "empty_layout", "vk_shutdown", "submit_empty", "render_target_create",
           "render_target_wrap", "rt_tint", "readback", "draw_rt", "draw_surface",
           "iosurface_create", "iosurface_clear", "upload_pixels", "iosurface_destroy",
           "composite_ensure", "composite_over", "clear_image", "present_surface", "fill", "copy",
           "submit_clear_color", "staging_ring_ensure", "send_frame1", "send_frame2",
           "keep_pixels", "display_free"}
  BY DEF Sites
<1> HIDE DEF D
<1>0. \A a \in D, b \in D : /\ <<a>> \in Seq(D) /\ <<a, b>> \in Seq(D)
                           /\ <<a>> # <<>> /\ <<a, b>> # <<>>
  OBVIOUS
<1>2. SendFrame \in Seq(D) /\ SendFrame # <<>>
  BY <1>1 DEF SendFrame
<1>3. DeviceParts \in Seq(D) /\ DeviceParts # <<>>
  BY <1>1 DEF DeviceParts
<1>4. ASSUME NEW h \in EmitSurface PROVE h \in Seq(D) /\ h # <<>>
  <2>1. PICK show \in {<<"composite_ensure", "composite_over">>, <<"present_surface">>,
                  <<"clear_image", "present_surface">>} : h = <<"draw_surface">> \o show \o SendFrame
    BY DEF EmitSurface
  <2>2. show \in Seq(D)
    <3>1. \/ show = <<"composite_ensure", "composite_over">> \/ show = <<"present_surface">>
          \/ show = <<"clear_image", "present_surface">>
      BY <2>1
    <3>2. \E a \in D, b \in D : show = <<a>> \/ show = <<a, b>>
      BY <1>1, <3>1
    <3> QED  BY <1>0, <3>2
  <2>3. <<"draw_surface">> \in Seq(D)
    BY <1>1
  <2>4. h \in Seq(D)
    BY <1>2, <2>1, <2>2, <2>3
  <2>5. Len(h) = 1 + Len(show) + Len(SendFrame)
    BY <1>2, <2>1, <2>2, <2>3
  <2> QED  BY <1>2, <2>2, <2>4, <2>5
<1>5. ASSUME NEW h \in Handlers, h \notin EmitSurface PROVE h \in Seq(D) /\ h # <<>>
  <2>1. h \in {DeviceParts, SendFrame} \/ \E a, b \in D : h = <<a>> \/ h = <<a, b>>
    BY <1>1, <1>5 DEF Handlers
  <2> QED  BY <1>0, <1>2, <1>3, <2>1
<1> QED  BY <1>4, <1>5 DEF D

\* What freeing does to the queue of the GPU.
LEMMA Freed ==
    ASSUME Shape, NEW S, FreeNow(S)
    PROVE  /\ gpu' \in Seq(SUBSET GpuNames) /\ Len(gpu') = Len(gpu)
           /\ \A k \in 1 .. Len(gpu) : gpu'[k] = gpu[k] \ S
           /\ \A o : InFlight(o)' <=> InFlight(o) /\ o \notin S
           /\ alive' = alive \ S
           /\ early' = early \cup {o \in S \cap alive \cap DrawTemporaries : InFlight(o)}
<1>1. gpu \in Seq(SUBSET GpuNames) /\ gpu' = [k \in 1 .. Len(gpu) |-> gpu[k] \ S]
  BY DEF Shape, FreeNow
<1>2. \A k \in 1 .. Len(gpu) : gpu[k] \ S \in SUBSET GpuNames
  BY <1>1
<1>3. gpu' \in Seq(SUBSET GpuNames) /\ Len(gpu') = Len(gpu)
  BY <1>1, <1>2
<1> QED  BY <1>1, <1>3 DEF FreeNow, InFlight

\* Submitting adds to what is in flight.
LEMMA Submitted ==
    ASSUME Shape, NEW U, U \subseteq GpuNames, gpu' = Append(gpu, U)
    PROVE  /\ gpu' \in Seq(SUBSET GpuNames)
           /\ \A k \in 1 .. Len(gpu') : gpu'[k] = U \/ (k \in 1 .. Len(gpu) /\ gpu'[k] = gpu[k])
           /\ \A o : InFlight(o)' <=> InFlight(o) \/ o \in U
<1>1. /\ gpu' \in Seq(SUBSET GpuNames) /\ Len(gpu') = Len(gpu) + 1 /\ Len(gpu) \in Nat
      /\ \A k \in 1 .. Len(gpu) : gpu'[k] = gpu[k]
      /\ gpu'[Len(gpu) + 1] = U
  BY DEF Shape
<1> QED  BY <1>1 DEF InFlight

\* A function returns: nothing is claimed of the next one before it is entered.
LEMMA Returned ==
    ASSUME Shape, ~Idle, NEW n \in Nat, Return(n)
    PROVE  /\ queue' \in Seq(DOMAIN Sites) /\ at' = 0
           /\ cur'.undo = {} /\ "undo" \in DOMAIN cur'
<1>1. queue \in Seq(DOMAIN Sites) /\ Len(queue) \in Nat
  BY DEF Shape
<1>2. queue' = SubSeq(queue, 2 + n, Len(queue))
  BY DEF Return
<1>3. queue' \in Seq(DOMAIN Sites)
  BY <1>1, <1>2
<1> QED  BY <1>3 DEF Return, NoCur

\* What a failure of each function skips and undoes.
LEMMA OrderedSkips ==
    /\ \A s \in Ordered : Sites[s].skips \in Nat
    /\ \A s \in Ordered \ {"staging_ring_ensure"} : Sites[s].undo \cap SlotWatch = {}
    /\ SlotWatch \subseteq Sites["staging_ring_ensure"].undo
<1>1. draw_rt.skips \in Nat /\ draw_rt.undo \cap SlotWatch = {}
  BY DEF draw_rt, Site, DrawTemporaries, SlotWatch
<1>2. draw_surface.skips \in Nat /\ draw_surface.undo \cap SlotWatch = {}
  BY DEF draw_surface, Site, All, DrawTemporaries, SlotWatch
<1>3. \A i \in {1, 2} : send_frame(i).skips \in Nat /\ send_frame(i).undo \cap SlotWatch = {}
  BY DEF send_frame, Site, SlotWatch
<1>4. staging_ring_ensure.skips \in Nat /\ SlotWatch \subseteq staging_ring_ensure.undo
  BY DEF staging_ring_ensure, Site, SlotObjects, SlotNames, SlotWatch
<1> QED  BY <1>1, <1>2, <1>3, <1>4, SiteNames DEF Ordered

LEMMA SiteSkips ==
    \A s \in DOMAIN Sites : Sites[s].skips \in Nat
BY OrderedSkips, PlainScripts DEF AllPlain

\* A function that returns or fails keeps the invariant, unless a draw or a frame is
\* between its submission and what holds it.
LEMMA Returns ==
    ASSUME FrameInv, ~Idle, NEW n \in Nat, Return(n),
           UNCHANGED <<alive, gpu, early>> \/ Fail,
           \A s \in DOMAIN DrawWait : ~(In(s) /\ at = DrawWait[s]) \/ gpu = <<>>,
           \A i \in {1, 2} : ~(In(SendOf(i)) /\ at = 14),
           In("staging_ring_ensure") => at \in 2 .. 12 \/ UNCHANGED <<alive, gpu, early>>
    PROVE  FrameInv'
<1>1. /\ queue' \in Seq(DOMAIN Sites) /\ at' = 0
      /\ cur'.undo = {} /\ "undo" \in DOMAIN cur'
  BY Returned DEF FrameInv
<1>2. \A o \in DrawTemporaries : ~InFlight(o)
  BY DEF FrameInv, DrawHeld, InFlight
<1>3. CASE UNCHANGED <<alive, gpu, early>>
  BY <1>1, <1>2, <1>3 DEF FrameInv, Shape, DrawHeld, SlotHeld, RingBuilt, UndoOK,
     InFlight, In, Idle, DrawWait
<1>4. CASE Fail
  <2> DEFINE S == cur.undo
  <2>1. /\ gpu' \in Seq(SUBSET GpuNames) /\ Len(gpu') = Len(gpu)
        /\ \A k \in 1 .. Len(gpu) : gpu'[k] = gpu[k] \ S
        /\ \A o : InFlight(o)' <=> InFlight(o) /\ o \notin S
        /\ alive' = alive \ S
        /\ early' = early \cup {o \in S \cap alive \cap DrawTemporaries : InFlight(o)}
    BY <1>4, Freed DEF Fail, FrameInv
  <2>2. early' = {}
    BY <2>1, <1>2 DEF FrameInv
  <2>3. \A o \in DrawTemporaries : ~InFlight(o)'
    BY <2>1, <1>2
  <2>4. DrawHeld'
    BY <2>1, <2>3, <1>1 DEF DrawHeld, DrawWait, InFlight
  <2>5. ASSUME NEW i \in {1, 2} PROVE SlotHeld(i)'
    <3> DEFINE f == Fence(i)
               b == Busy(i)
    <3>0. f \in SlotWatch /\ b \in SlotWatch
      BY DEF SlotWatch, Fence, Busy
    <3>1. /\ "ring" \in alive => f \in alive
          /\ InFlight(f) => b \in alive
      BY DEF FrameInv, SlotHeld
    <3>2. CASE S \cap SlotWatch = {}
      BY <1>1, <2>1, <3>0, <3>1, <3>2 DEF SlotHeld
    <3>3. CASE S \cap SlotWatch # {}
      <4>1. "ring" \notin alive \/ UNCHANGED <<alive, gpu, early>>
        BY <3>3 DEF FrameInv, UndoOK, RingBuilt, In
      <4>2. SlotWatch \subseteq S
        BY <3>3 DEF FrameInv, UndoOK
      <4> QED  BY <1>1, <2>1, <3>0, <3>1, <4>1, <4>2 DEF SlotHeld
    <3> QED  BY <3>2, <3>3
  <2> QED  BY <1>1, <2>1, <2>2, <2>4, <2>5 DEF FrameInv, Shape, RingBuilt, UndoOK
<1> QED  BY <1>3, <1>4

\* Nothing of a draw is in flight, and a slot whose fence is has its flag set.
Calm ==
    /\ \A o \in DrawTemporaries : ~InFlight(o)
    /\ \A i \in {1, 2} : InFlight(Fence(i)) => Busy(i) \in alive

\* What a plain step does when the function goes on.
Went ==
    /\ queue' = queue /\ Shape' /\ Calm' /\ early' = {}
    /\ cur'.undo = cur.undo \/ cur'.undo \cap SlotWatch = {}
    /\ \A o \in Fences : InFlight(o)' => InFlight(o)
    /\ "ring" \in alive' => "ring" \in alive /\ Fence(1) \in alive' /\ Fence(2) \in alive'
    /\ alive' = IF Step.do = "free" THEN alive \ Step.objs
                ELSE alive \cup (alive' \ alive)
    /\ Step.do = "make" /\ Step.must => Step.obj \in alive'
    /\ Step.do = "wait" /\ Step.late # "ignore" => ~InFlight(Step.fence) \/ Step.fence \notin alive
    /\ IF Step.do = "if"
       THEN \E b \in BOOLEAN : /\ Step.is # {} => b = ((Step.obj \in alive) \in Step.is)
                               /\ at' = IF b THEN at + 1 ELSE at + 1 + Step.n
       ELSE at' = at + 1

\* Nothing keeps the function in progress from failing.
MayFail ==
    /\ \A s \in DOMAIN DrawWait : In(s) => at # DrawWait[s]
    /\ \A i \in {1, 2} : In(SendOf(i)) => at # 14
    /\ In("staging_ring_ensure") => at \in 2 .. 12

\* Failing there keeps the invariant.
LEMMA FailStep ==
    ASSUME FrameInv, ~Idle, MayFail, Fail
    PROVE  FrameInv'
<1>1. Sites[queue[1]].skips \in Nat
  BY SiteSkips DEF FrameInv, Shape, Idle
<1> QED  BY <1>1, Returns DEF Fail, MayFail

\* The end of a draw's script: the fence, the submission, a wait that no timeout ends.
LEMMA DrawSteps ==
    \A s \in DOMAIN DrawWait :
        LET W == DrawWait[s]
            step == Sites[s].steps
        IN  /\ W \in {10, 11} /\ Len(step) = W + 3
            /\ step[W - 2] = Make("draw.fence")
            /\ step[W - 1] = Submit("draw.fence", {"draw.cb", "draw.buf"})
            /\ step[W] = Wait("draw.fence", "idle")
            /\ \A k \in 1 .. (W + 3) : k # W - 1 => Plain(step[k]) /\ step[k].do # "if"
<1> DEFINE OK(st) == Plain(st) /\ st.do # "if"
<1>1. /\ \A o : o # "ring" => OK(Make(o))
      /\ OK(Try)
      /\ \A m, tr : OK(Record(m, tr))
      /\ \A tr : OK(Track(tr))
      /\ \A f, l : OK(Wait(f, l))
      /\ \A S : S \cap SlotWatch = {} => OK(Free(S))
      /\ \A S : "ring" \notin S => OK(Set(S))
  BY PlainSteps DEF Make, Try, Record, Track, Wait, Free, Set
<1> HIDE DEF OK
<1>2. /\ Len(draw_rt.steps) = 13
      /\ draw_rt.steps[8] = Make("draw.fence")
      /\ draw_rt.steps[9] = Submit("draw.fence", {"draw.cb", "draw.buf"})
      /\ draw_rt.steps[10] = Wait("draw.fence", "idle")
      /\ \A k \in 1 .. 13 : k # 9 => OK(draw_rt.steps[k])
  BY <1>1 DEF SlotWatch, draw_rt, Site, HostBuffer, DrawRecord, DrawCommands,
     CommandBuffer
<1>3. /\ Len(draw_surface.steps) = 14
      /\ draw_surface.steps[9] = Make("draw.fence")
      /\ draw_surface.steps[10] = Submit("draw.fence", {"draw.cb", "draw.buf"})
      /\ draw_surface.steps[11] = Wait("draw.fence", "idle")
      /\ \A k \in 1 .. 14 : k # 10 => OK(draw_surface.steps[k])
  BY <1>1 DEF SlotWatch, draw_surface, Site, HostBuffer, DrawRecord, DrawCommands,
     CommandBuffer
<1>4. DOMAIN DrawWait = {"draw_rt", "draw_surface"}
      /\ DrawWait["draw_rt"] = 10 /\ DrawWait["draw_surface"] = 11
  BY DEF DrawWait
<1>5. ASSUME NEW s \in DOMAIN DrawWait
      PROVE  LET W == DrawWait[s]
                 step == Sites[s].steps
             IN  /\ W \in {10, 11} /\ Len(step) = W + 3
                 /\ step[W - 2] = Make("draw.fence")
                 /\ step[W - 1] = Submit("draw.fence", {"draw.cb", "draw.buf"})
                 /\ step[W] = Wait("draw.fence", "idle")
                 /\ \A k \in 1 .. (W + 3) : k # W - 1 => OK(step[k])
  <2> DEFINE W == DrawWait[s]
             step == Sites[s].steps
  <2>1. CASE s = "draw_rt"
    <3>1. W = 10 /\ step = draw_rt.steps
      BY <1>4, <2>1, SiteNames
    <3>2. W - 2 = 8 /\ W - 1 = 9 /\ W + 3 = 13
      BY <3>1
    <3> HIDE DEF W, step
    <3>3. /\ W \in {10, 11} /\ Len(step) = W + 3
          /\ step[W - 2] = Make("draw.fence")
          /\ step[W - 1] = Submit("draw.fence", {"draw.cb", "draw.buf"})
          /\ step[W] = Wait("draw.fence", "idle")
          /\ \A k \in 1 .. (W + 3) : k # W - 1 => OK(step[k])
      BY <1>2, <3>1, <3>2
    <3> QED  BY <3>3 DEF W, step
  <2>2. CASE s = "draw_surface"
    <3>1. W = 11 /\ step = draw_surface.steps
      BY <1>4, <2>2, SiteNames
    <3>2. W - 2 = 9 /\ W - 1 = 10 /\ W + 3 = 14
      BY <3>1
    <3> HIDE DEF W, step
    <3>3. /\ W \in {10, 11} /\ Len(step) = W + 3
          /\ step[W - 2] = Make("draw.fence")
          /\ step[W - 1] = Submit("draw.fence", {"draw.cb", "draw.buf"})
          /\ step[W] = Wait("draw.fence", "idle")
          /\ \A k \in 1 .. (W + 3) : k # W - 1 => OK(step[k])
      BY <1>3, <3>1, <3>2
    <3> QED  BY <3>3 DEF W, step
  <2> QED  BY <1>4, <2>1, <2>2
<1> QED  BY <1>5 DEF OK

\* The script that builds the ring.
LEMMA EnsureSteps ==
    LET step == Sites["staging_ring_ensure"].steps
    IN  /\ Len(step) = 12
        /\ step[1] = [do |-> "if", obj |-> "ring", is |-> {FALSE}, n |-> 11]
        /\ \A k \in 2 .. 11 : step[k] = Try \/ \E o : o # "ring" /\ step[k] = Make(o)
        /\ step[5] = Make("slot1.fence") /\ step[10] = Make("slot2.fence")
        /\ step[12] = Set({"ring"})
BY SiteNames DEF staging_ring_ensure, staging_slot_init, SlotNames, IfNot, HostBuffer,
   Site

\* The script of send_frame with the names of a slot filled in.
SendScript(step, fence, busy, buf, first) ==
    /\ Len(step) = 18
    /\ step[1] = first
    /\ step[2] = [do |-> "if", obj |-> busy, is |-> {TRUE}, n |-> 2]
    /\ step[3] = Wait(fence, "fail") /\ step[4] = Free({busy}) /\ step[5] = Reset(fence)
    /\ step[6] = Make("out.cb") /\ step[7] = Try
    /\ step[8] = [do |-> "if", obj |-> "rt.wraps", is |-> {TRUE}, n |-> 1]
    /\ step[9] = Record(<<To("rt", "tracked", "src"), To("rt", "src", "color")>>, {Is("rt", "color")})
    /\ step[10] = [do |-> "if", obj |-> "rt.wraps", is |-> {FALSE}, n |-> 1]
    /\ step[11] = Record(<<To("frame", "color", "src"), To("frame", "src", "color")>>, {})
    /\ step[12] = Try
    /\ step[13] = Submit(fence, {"out.cb", buf})
    /\ step[14] = Set({busy}) /\ step[15] = Wait(fence, "fail") /\ step[16] = Free({busy})
    /\ step[17] = Set({"frame.new"}) /\ step[18] = Free({"out.cb"})

LEMMA SendSteps ==
    \A i \in {1, 2} :
        /\ "ring" \in Sites[SendOf(i)].needs
        /\ SendScript(Sites[SendOf(i)].steps, Fence(i), Busy(i), IF i = 1 THEN "slot1.buf" ELSE "slot2.buf",
                      IF i = 1 THEN Set({"turn2"}) ELSE Free({"turn2"}))
<1>1. /\ "ring" \in send_frame(1).needs
      /\ SendScript(send_frame(1).steps, "slot1.fence", "slot1.busy", "slot1.buf", Set({"turn2"}))
  BY DEF SendScript, send_frame, AwaitSlot, scanout_commands, SlotNames, If, IfNot,
     CommandBuffer, Site
<1>2. /\ "ring" \in send_frame(2).needs
      /\ SendScript(send_frame(2).steps, "slot2.fence", "slot2.busy", "slot2.buf", Free({"turn2"}))
  BY DEF SendScript, send_frame, AwaitSlot, scanout_commands, SlotNames, If, IfNot,
     CommandBuffer, Site
<1> QED  BY <1>1, <1>2, SiteNames DEF SendOf, Fence, Busy

\* Where the script is plain.
LEMMA SendPlain ==
    ASSUME NEW i \in {1, 2}, NEW k \in 1 .. 18
    PROVE  LET st == Sites[SendOf(i)].steps[k]
           IN  /\ k \notin {4, 5, 13, 14, 16} => Plain(st) /\ (st.do = "free" => "ring" \notin st.objs)
               /\ k \notin {2, 8, 10} => st.do # "if"
<1> DEFINE step == Sites[SendOf(i)].steps
<1>1. SendScript(step, Fence(i), Busy(i), IF i = 1 THEN "slot1.buf" ELSE "slot2.buf",
                      IF i = 1 THEN Set({"turn2"}) ELSE Free({"turn2"}))
  BY SendSteps
<1> HIDE DEF step
<1>2. CASE k \in {2, 8, 10}
  <2>1. /\ Plain(step[2]) /\ Plain(step[8]) /\ Plain(step[10])
        /\ step[2].do = "if" /\ step[8].do = "if" /\ step[10].do = "if"
    BY <1>1, PlainSteps DEF SendScript
  <2> QED  BY <1>2, <2>1 DEF step
<1>3. CASE k \in {4, 5, 13, 14, 16}
  BY <1>1, <1>3 DEF SendScript, Free, Reset, Submit, Set, step
<1>4. CASE k \in {3, 15}
  BY <1>1, <1>4, PlainSteps DEF SendScript, Wait, step
<1>5. CASE k \in {6, 7, 12}
  BY <1>1, <1>5, PlainSteps DEF SendScript, Make, Try, step
<1>6. CASE k \in {9, 11}
  <2>1. \E m, tr : step[k] = Record(m, tr)
    BY <1>1, <1>6 DEF SendScript
  <2> QED  BY <1>6, <2>1, PlainSteps DEF Record, step
<1>7. CASE k \in {1, 17, 18}
  BY <1>1, <1>7, PlainSteps DEF SendScript, Set, Free, SlotWatch, step
<1> QED  BY <1>2, <1>3, <1>4, <1>5, <1>6, <1>7

\* Entering and leaving a function.
LEMMA EnterLeave ==
    ASSUME FrameInv, Enter \/ Leave
    PROVE  FrameInv'
<1> DEFINE s == queue[1]
<1>1. /\ ~Idle /\ s \in DOMAIN Sites /\ Sites[s].skips \in Nat /\ UNCHANGED <<alive, gpu, early>>
      /\ at \in {0, Len(Sites[s].steps) + 1}
  <2>1. ~Idle /\ UNCHANGED <<alive, gpu, early>> /\ at \in {0, Len(Sites[s].steps) + 1}
    BY DEF Enter, Leave, NoEffect
  <2>2. s \in DOMAIN Sites
    BY <2>1 DEF FrameInv, Shape, Idle
  <2> QED  BY <2>1, <2>2, SiteSkips
<1>2. /\ \A x \in DOMAIN DrawWait : In(x) => at # DrawWait[x]
      /\ \A i \in {1, 2} : In(SendOf(i)) => at # 14
  <2>1. \A x \in DOMAIN DrawWait : DrawWait[x] \in {10, 11} /\ Len(Sites[x].steps) = DrawWait[x] + 3
    BY DrawSteps
  <2>2. \A i \in {1, 2} : Len(Sites[SendOf(i)].steps) = 18
    BY SendSteps DEF SendScript
  <2>3. ASSUME NEW x \in DOMAIN DrawWait, In(x) PROVE at # DrawWait[x]
    BY <1>1, <2>1, <2>3 DEF In
  <2>4. ASSUME NEW i \in {1, 2}, In(SendOf(i)) PROVE at # 14
    <3>1. queue[1] = SendOf(i)
      BY <2>4 DEF In
    <3>2. Len(Sites[s].steps) = 18
      BY <2>2, <3>1
    <3> QED  BY <1>1, <3>2
  <2> QED  BY <2>3, <2>4
<1>3. ASSUME NEW n \in Nat, Return(n) PROVE FrameInv'
  BY <1>1, <1>2, <1>3, Returns
<1>4. CASE Advance /\ at = 0 /\ Sites[s].needs \subseteq alive /\ cur' = [NoCur EXCEPT !.undo = Sites[s].undo]
  <2>1. queue' = queue /\ at' = 1 /\ cur'.undo = Sites[s].undo /\ "undo" \in DOMAIN cur'
    BY <1>4 DEF Advance, NoCur
  <2>2. Shape' /\ DrawHeld' /\ RingBuilt'
    BY <1>1, <1>4, <2>1, DrawSteps DEF FrameInv, Shape, DrawHeld, RingBuilt, InFlight,
       In, Idle
  <2>3. ASSUME NEW i \in {1, 2} PROVE SlotHeld(i)'
    BY <1>1, <1>4, <2>1, SendSteps DEF FrameInv, SlotHeld, InFlight, In, Idle
  <2>4. UndoOK'
    <3>1. s \in Ordered \ {"staging_ring_ensure"} \/ s \notin Ordered => Sites[s].undo \cap SlotWatch = {}
      BY <1>1, OrderedSkips, PlainScripts DEF AllPlain
    <3> QED  BY <2>1, <3>1, OrderedSkips DEF UndoOK, Ordered
  <2> QED  BY <1>1, <2>2, <2>3, <2>4 DEF FrameInv
<1> QED  BY <1>1, <1>3, <1>4 DEF Enter, Leave

\* A plain step while nothing is held: the call fails safely or goes on.
LEMMA PlainStep ==
    ASSUME FrameInv, ~Idle, Calm, at \in 1 .. Len(Sites[queue[1]].steps), Plain(Step),
           MayFail \/ Step.do = "if", HostStep
    PROVE  FrameInv' \/ Went
<1> DEFINE s == queue[1]
<1>1. s \in DOMAIN Sites /\ Len(Sites[s].steps) \in Nat
  BY DEF FrameInv, Shape, Idle
<1>6. /\ "undo" \in DOMAIN cur /\ gpu \in Seq(SUBSET GpuNames) /\ early = {}
      /\ queue \in Seq(DOMAIN Sites)
      /\ "ring" \in alive => Fence(1) \in alive /\ Fence(2) \in alive
  BY DEF FrameInv, Shape, SlotHeld
<1>9. ASSUME queue' = queue, "undo" \in DOMAIN cur', cur'.undo = cur.undo \/ cur'.undo \cap SlotWatch = {},
             UNCHANGED <<gpu, early>>
      PROVE  /\ Shape' /\ early' = {} /\ \A o \in Fences : InFlight(o)' => InFlight(o)
             /\ \A o \in DrawTemporaries : ~InFlight(o)'
             /\ alive \subseteq alive' => Calm'
  BY <1>6, <1>9 DEF InFlight, Shape, Calm
<1>10. CASE Fail /\ Step.do # "if"
  BY <1>10, FailStep
<1>11. CASE Enter
  BY <1>11 DEF Enter
<1>12. CASE Leave
  BY <1>1, <1>12 DEF Leave
<1>13. CASE MakeStep
  BY <1>6, <1>9, <1>10, <1>13 DEF MakeStep, At, Plain, NoEffect, Advance, Went
<1>14. CASE TryStep \/ WaitStep \/ WaitIdle
  BY <1>6, <1>9, <1>10, <1>14 DEF TryStep, WaitStep, WaitIdle, At, NoEffect, Advance,
     Went
<1>15. CASE ResetStep
  BY <1>15 DEF ResetStep, At, Plain
<1>16. CASE RecordStep
  BY <1>6, <1>9, <1>16 DEF RecordStep, At, Advance, NoEffect, Went
<1>17. CASE SubmitStep
  <2>1. At("submit")
    BY <1>17 DEF SubmitStep
  <2>2. Step.uses \subseteq GpuNames /\ Step.uses \cap (DrawTemporaries \cup Fences) = {}
    BY <1>1, <2>1 DEF At, Plain, Step, GpuNames
  <2>3. CASE gpu' = Append(gpu, Step.uses) /\ Advance /\ UNCHANGED <<alive, early>>
             /\ UNCHANGED cur
    <3>1. /\ gpu' \in Seq(SUBSET GpuNames)
          /\ \A o : InFlight(o)' <=> InFlight(o) \/ o \in Step.uses
      BY <2>2, <2>3, Submitted DEF FrameInv
    <3>2. Fence(1) \in Fences /\ Fence(2) \in Fences
      BY DEF Fence, Fences
    <3>3. Shape' /\ Calm'
      BY <1>6, <2>2, <2>3, <3>1, <3>2 DEF Advance, Shape, Calm
    <3> QED  BY <1>6, <2>1, <2>2, <2>3, <3>1, <3>3 DEF At, Advance, Went
  <2> QED  BY <1>6, <1>9, <1>10, <1>17, <2>1, <2>3 DEF SubmitStep, At, NoEffect,
    Advance, Went
<1>18. CASE OtherStep
  <2>1. CASE At("free") /\ FreeNow(Step.objs) /\ Advance /\ UNCHANGED cur
    <3>1. /\ gpu' \in Seq(SUBSET GpuNames)
          /\ \A o : InFlight(o)' <=> InFlight(o) /\ o \notin Step.objs
          /\ alive' = alive \ Step.objs
          /\ early' = early \cup {o \in Step.objs \cap alive \cap DrawTemporaries : InFlight(o)}
      BY <2>1, Freed DEF FrameInv
    <3>2. early' = {}
      BY <1>6, <3>1 DEF Calm
    <3>3. Step.objs \cap SlotWatch # {} => SlotWatch \cup {"ring"} \subseteq Step.objs
      BY <2>1 DEF At, Plain
    <3>4. \A i \in {1, 2} : Fence(i) \in SlotWatch /\ Busy(i) \in SlotWatch
      BY DEF Fence, Busy, SlotWatch
    <3>5. \A i \in {1, 2} : /\ "ring" \in alive' => Fence(i) \in alive'
                            /\ InFlight(Fence(i))' => Busy(i) \in alive'
      BY <1>6, <3>1, <3>3, <3>4 DEF Calm
    <3>6. Shape' /\ Calm'
      BY <1>6, <2>1, <3>1, <3>5 DEF Advance, Shape, Calm
    <3> QED  BY <2>1, <3>1, <3>2, <3>5, <3>6 DEF At, Advance, Went
  <2>2. CASE At("set") /\ alive' = alive \cup Step.objs /\ Advance /\ UNCHANGED <<cur, early, gpu>>
    BY <1>6, <1>9, <2>2 DEF At, Plain, Advance, Went
  <2>3. CASE At("undo") /\ cur' = [cur EXCEPT !.undo = Step.objs] /\ Advance /\ NoEffect
    BY <1>6, <1>9, <2>3 DEF At, Plain, Advance, NoEffect, Went
  <2>4. CASE /\ At("if") /\ NoEffect /\ UNCHANGED <<cur, queue>>
             /\ \E b \in BOOLEAN :
                   /\ Step.is # {} => b = ((Step.obj \in alive) \in Step.is)
                   /\ at' = IF b THEN at + 1 ELSE at + 1 + Step.n
    BY <1>6, <1>9, <2>4 DEF At, NoEffect, Went
  <2> QED  BY <1>18, <2>1, <2>2, <2>3, <2>4 DEF OtherStep
<1> QED  BY <1>11, <1>12, <1>13, <1>14, <1>15, <1>16, <1>17, <1>18 DEF HostStep

\* The functions outside Ordered.
LEMMA OtherScripts ==
    ASSUME FrameInv, ~Idle, queue[1] \notin Ordered, HostStep
    PROVE  FrameInv'
<1>1. CASE Enter \/ Leave
  BY <1>1, EnterLeave
<1>2. CASE ~(Enter \/ Leave)
  <2>1. at \in 1 .. Len(Sites[queue[1]].steps)
    BY <1>2 DEF HostStep, MakeStep, TryStep, ResetStep, RecordStep, SubmitStep,
       WaitStep, WaitIdle, OtherStep, At
  <2>2. queue[1] \in DOMAIN Sites \ Ordered
    BY DEF FrameInv, Shape, Idle
  <2>3. Plain(Step)
    BY <2>1, <2>2, PlainScripts DEF AllPlain, Step
  <2>4. \A x \in Ordered : ~In(x)
    BY DEF In
  <2>5. Calm /\ MayFail
    BY <2>4 DEF FrameInv, DrawHeld, SlotHeld, Calm, MayFail, DrawWait, SendOf, Ordered
  <2>6. CASE Went
    <3>1. \A s \in Ordered : ~In(s)'
      BY <2>6 DEF In, Idle, Went
    <3>2. DrawHeld'
      BY <2>6, <3>1 DEF DrawHeld, DrawWait, Ordered, InFlight, Calm, Went
    <3>3. SlotHeld(1)' /\ SlotHeld(2)'
      BY <2>6, <3>1 DEF SlotHeld, SendOf, Ordered, Calm, Went
    <3>4. UndoOK'
      BY <2>6, <3>1 DEF FrameInv, UndoOK, Went, Ordered
    <3> QED  BY <2>6, <3>1, <3>2, <3>3, <3>4 DEF FrameInv, RingBuilt, Ordered, Went
  <2> QED  BY <2>1, <2>3, <2>5, <2>6, PlainStep
<1> QED  BY <1>1, <1>2

\* A draw: nothing of it is in flight but at the wait, which no timeout ends.
LEMMA DrawStep ==
    ASSUME FrameInv, ~Idle, queue[1] \in DOMAIN DrawWait, HostStep
    PROVE  FrameInv'
<1> DEFINE s == queue[1]
           W == DrawWait[s]
<1>0. /\ W \in {10, 11} /\ Len(Sites[s].steps) = W + 3
      /\ Sites[s].steps[W - 2] = Make("draw.fence")
      /\ Sites[s].steps[W - 1] = Submit("draw.fence", {"draw.cb", "draw.buf"})
      /\ Sites[s].steps[W] = Wait("draw.fence", "idle")
      /\ \A k \in 1 .. (W + 3) : k # W - 1 => Plain(Sites[s].steps[k]) /\ Sites[s].steps[k].do # "if"
  BY DrawSteps
<1>00. In(s) /\ \A x : x # s => ~In(x)
  BY DEF In
<1>1. CASE Enter \/ Leave
  BY <1>1, EnterLeave
<1>2. CASE ~(Enter \/ Leave)
  <2>1. at \in 1 .. (W + 3)
    BY <1>0, <1>2 DEF HostStep, MakeStep, TryStep, ResetStep, RecordStep, SubmitStep,
       WaitStep, WaitIdle, OtherStep, At
  <2> HIDE DEF W
  <2>2. CASE at = W
    <3>1. Step = Wait("draw.fence", "idle") /\ "draw.fence" \in alive
      BY <1>0, <1>00, <2>2 DEF Step, FrameInv, DrawHeld, W
    <3>2. WaitStep \/ WaitIdle
      BY <1>2, <3>1 DEF HostStep, MakeStep, TryStep, ResetStep, RecordStep, SubmitStep,
         OtherStep, At, Wait
    <3>3. CASE gpu = <<>> /\ Fail
      <4>1. Sites[s].skips \in Nat /\ Return(Sites[s].skips)
        <5>1. s \in DOMAIN Sites
          BY DEF FrameInv, Shape, Idle
        <5> QED  BY <3>3, <5>1, SiteSkips DEF Fail
      <4>2. /\ \A i \in {1, 2} : ~In(SendOf(i))
            /\ ~In("staging_ring_ensure")
        BY <1>00 DEF DrawWait, SendOf
      <4> QED  BY <3>3, <4>1, <4>2, Returns
    <3>4. CASE ~InFlight("draw.fence") /\ Advance /\ NoEffect /\ UNCHANGED cur
      <4>1. \A o \in DrawTemporaries : ~InFlight(o)
        BY <3>4 DEF FrameInv, DrawHeld, InFlight
      <4>2. /\ at' = W + 1 /\ UNCHANGED <<queue, cur, alive, gpu, early>>
        BY <2>2, <3>4 DEF Advance, NoEffect
      <4>3. DrawHeld'
        BY <1>0, <1>00, <4>1, <4>2, SMTT(30) DEF DrawHeld, InFlight, In, Idle, W
      <4>4. SlotHeld(1)' /\ SlotHeld(2)' /\ RingBuilt'
        BY <1>00, <4>2 DEF FrameInv, SlotHeld, SendOf, DrawWait, RingBuilt, InFlight,
           In, Idle
      <4> QED  BY <4>2, <4>3, <4>4 DEF FrameInv, Shape, UndoOK, Idle
    <3> QED  BY <3>1, <3>2, <3>3, <3>4 DEF WaitStep, WaitIdle, Wait
  <2>3. CASE at = W - 1
    <3>1. /\ Step = Submit("draw.fence", {"draw.cb", "draw.buf"}) /\ "draw.fence" \in alive
      BY <1>0, <1>00, <2>3 DEF Step, FrameInv, DrawHeld, W
    <3>2. SubmitStep
      BY <1>2, <3>1 DEF HostStep, MakeStep, TryStep, ResetStep, RecordStep, WaitStep,
         WaitIdle, OtherStep, At, Submit
    <3>3. \A o \in DrawTemporaries : ~InFlight(o)
      BY <1>0, <1>00, <2>3 DEF FrameInv, DrawHeld, W
    <3>4. CASE Fail
      <4>1. MayFail
        BY <1>0, <1>00, <2>3 DEF MayFail, DrawWait, SendOf, W
      <4> QED  BY <3>4, <4>1, FailStep
    <3>5. CASE gpu' = Append(gpu, Step.uses) /\ Advance /\ UNCHANGED <<alive, early>>
               /\ UNCHANGED cur
      <4>1. Step.uses = {"draw.cb", "draw.buf", "draw.fence"} /\ Step.uses \subseteq GpuNames
        <5>1. Step.uses \subseteq GpuNames
          BY <2>1, <1>0 DEF Step, GpuNames, FrameInv, Shape, Idle
        <5> QED  BY <3>1, <5>1 DEF Submit
      <4>2. /\ gpu' \in Seq(SUBSET GpuNames)
            /\ \A k \in 1 .. Len(gpu') : gpu'[k] = Step.uses \/ (k \in 1 .. Len(gpu) /\ gpu'[k] = gpu[k])
            /\ \A o : InFlight(o)' <=> InFlight(o) \/ o \in Step.uses
        BY <3>5, <4>1, Submitted DEF FrameInv
      <4>3. at' = W /\ queue' = queue /\ "undo" \in DOMAIN cur' /\ cur'.undo = cur.undo
        BY <1>0, <2>3, <3>5 DEF Advance, FrameInv, Shape
      <4>4. DrawHeld'
        BY <1>0, <1>00, <3>1, <3>3, <3>5, <4>1, <4>2, <4>3, SMTT(30)
           DEF DrawHeld, InFlight, In, Idle, W
      <4>5. ASSUME NEW i \in {1, 2} PROVE SlotHeld(i)'
        <5>1. Fence(i) \notin Step.uses /\ ~In(SendOf(i))
          BY <1>00, <4>1 DEF Fence, SendOf, DrawWait
        <5> QED  BY <5>1, <3>5, <4>2, <4>3 DEF FrameInv, SlotHeld, In, Idle
      <4>6. RingBuilt' /\ UndoOK'
        BY <1>00, <4>3 DEF FrameInv, RingBuilt, UndoOK, In, Idle, DrawWait
      <4> QED  BY <3>5, <4>2, <4>3, <4>4, <4>5, <4>6 DEF FrameInv, Shape
    <3> QED  BY <3>1, <3>2, <3>4, <3>5 DEF SubmitStep, Submit
  <2>4. CASE at # W /\ at # W - 1
    <3>1. Plain(Step) /\ Step.do # "if"
      BY <1>0, <2>1, <2>4 DEF Step
    <3>2. Calm /\ MayFail
      BY <1>00, <2>4 DEF FrameInv, DrawHeld, SlotHeld, Calm, MayFail, DrawWait, SendOf,
         W
    <3>3. CASE Went
      <4>1. at' = at + 1 /\ queue' = queue /\ \A x : In(x)' <=> In(x)
        BY <3>1, <3>3 DEF Went, In, Idle
      <4>2. at = W - 2 => "draw.fence" \in alive'
        BY <3>3, <1>0 DEF Went, Step, Make
      <4>3. at' # W /\ (at' = W - 1 => at = W - 2)
        BY <2>4, <2>1, <4>1, <1>0, SMTT(30)
      <4>4. DrawHeld'
        BY <1>00, <3>3, <4>1, <4>2, <4>3 DEF DrawHeld, InFlight, Calm, Went, W
      <4>5. SlotHeld(1)' /\ SlotHeld(2)' /\ RingBuilt'
        BY <1>00, <3>3, <4>1 DEF SlotHeld, SendOf, DrawWait, Calm, Went, RingBuilt
      <4>6. UndoOK'
        BY <3>3, <4>1 DEF FrameInv, UndoOK, Went, DrawWait
      <4> QED  BY <3>3, <4>4, <4>5, <4>6 DEF FrameInv, Went
    <3> QED  BY <2>1, <1>0, <3>1, <3>2, <3>3, PlainStep
  <2> QED  BY <2>2, <2>3, <2>4
<1> QED  BY <1>1, <1>2

\* The ring is built once, and its flag is set when both fences exist.
LEMMA EnsureStep ==
    ASSUME FrameInv, ~Idle, queue[1] = "staging_ring_ensure", HostStep
    PROVE  FrameInv'
<1> DEFINE step == Sites[queue[1]].steps
<1>0. /\ Len(step) = 12
      /\ step[1] = [do |-> "if", obj |-> "ring", is |-> {FALSE}, n |-> 11]
      /\ \A k \in 2 .. 11 : step[k] = Try \/ \E o : o # "ring" /\ step[k] = Make(o)
      /\ step[5] = Make("slot1.fence") /\ step[10] = Make("slot2.fence")
      /\ step[12] = Set({"ring"})
  BY EnsureSteps
<1> HIDE DEF step
<1>00. In("staging_ring_ensure") /\ \A x : x # "staging_ring_ensure" => ~In(x)
  BY DEF In
<1>1. CASE Enter \/ Leave
  BY <1>1, EnterLeave
<1>2. CASE ~(Enter \/ Leave)
  <2>1. at \in 1 .. 12
    BY <1>0, <1>2 DEF HostStep, MakeStep, TryStep, ResetStep, RecordStep, SubmitStep,
       WaitStep, WaitIdle, OtherStep, At, step
  <2>2. Calm
    BY <1>00 DEF FrameInv, DrawHeld, SlotHeld, Calm, DrawWait, SendOf
  <2>3. CASE at \in 1 .. 11
    <3>1. Plain(Step) /\ (Step.do = "if" <=> at = 1) /\ Step.do # "free"
      <4>1. CASE at = 1
        BY <1>0, <4>1, PlainSteps DEF Step, step
      <4>2. CASE at \in 2 .. 11
        <5>1. Step = Try \/ \E o : o # "ring" /\ Step = Make(o)
          BY <1>0, <4>2 DEF Step, step
        <5> QED  BY <4>2, <5>1, PlainSteps DEF Try, Make
      <4> QED  BY <2>3, <4>1, <4>2
    <3>2. MayFail \/ Step.do = "if"
      BY <1>00, <2>3, <3>1 DEF MayFail, DrawWait, SendOf
    <3>3. CASE Went
      <4>1. queue' = queue /\ \A x : In(x)' <=> In(x)
        BY <3>3 DEF Went, In, Idle
      <4>2. at = 1 => \/ at' = 2 /\ "ring" \notin alive
                      \/ at' = 13
        <5> SUFFICES ASSUME at = 1, at' # 13 PROVE at' = 2 /\ "ring" \notin alive
          OBVIOUS
        <5>1. Step.do = "if" /\ Step.obj = "ring" /\ Step.is = {FALSE} /\ Step.n = 11
          BY <1>0 DEF Step, step
        <5>2. PICK go \in BOOLEAN : /\ go = (("ring" \in alive) \in {FALSE})
                                    /\ at' = IF go THEN at + 1 ELSE at + 1 + Step.n
          BY <3>3, <5>1 DEF Went
        <5>3. go /\ at' = 2
          <6>0. at' = IF go THEN at + 1 ELSE at + 1 + Step.n
            BY <5>2, Zenon
          <6>1. CASE go
            <7>1. at' = at + 1
              BY <6>0, <6>1, Zenon
            <7> QED  BY <6>1, <7>1
          <6>2. CASE ~go
            <7>1. at' = at + 1 + Step.n
              BY <6>0, <6>2, Zenon
            <7> QED  BY <5>1, <7>1
          <6> QED  BY <6>1, <6>2
        <5>4. "ring" \notin alive
          BY <5>2, <5>3, Zenon
        <5> QED  BY <5>3, <5>4
      <4>3. at # 1 => at' = at + 1
        BY <3>1, <3>3 DEF Went
      <4>4. /\ at = 5 => "slot1.fence" \in alive'
            /\ at = 10 => "slot2.fence" \in alive'
        BY <1>0, <3>3 DEF Went, Step, step, Make
      <4>5. alive \subseteq alive' /\ ("ring" \in alive' => "ring" \in alive)
        BY <3>1, <3>3 DEF Went
      <4>6. RingBuilt'
        BY <1>00, <2>3, <4>1, <4>2, <4>3, <4>4, <4>5 DEF FrameInv, RingBuilt
      <4>7. DrawHeld' /\ SlotHeld(1)' /\ SlotHeld(2)'
        BY <1>00, <3>3, <4>1 DEF DrawHeld, SlotHeld, SendOf, DrawWait, Calm, Went,
           InFlight
      <4>8. UndoOK'
        BY <3>3, <4>1 DEF FrameInv, UndoOK, Went, Idle
      <4> QED  BY <3>3, <4>6, <4>7, <4>8 DEF FrameInv, Went
    <3> QED  BY <1>0, <2>1, <2>2, <3>1, <3>2, <3>3, PlainStep DEF step
  <2>4. CASE at = 12
    <3>1. Step = Set({"ring"})
      BY <1>0, <2>4 DEF Step, step
    <3>2. alive' = alive \cup {"ring"} /\ at' = 13 /\ UNCHANGED <<queue, cur, early, gpu>>
      BY <1>2, <2>4, <3>1 DEF HostStep, MakeStep, TryStep, ResetStep, RecordStep,
         SubmitStep, WaitStep,
           WaitIdle, OtherStep, At, Set, Advance
    <3>3. "slot1.fence" \in alive /\ "slot2.fence" \in alive
      BY <1>00, <2>4 DEF FrameInv, RingBuilt
    <3>4. SlotHeld(1)' /\ SlotHeld(2)'
      BY <1>00, <2>2, <3>2, <3>3 DEF SlotHeld, Calm, InFlight, In, Idle, SendOf, Fence
    <3>5. DrawHeld' /\ RingBuilt'
      BY <1>00, <2>2, <3>2 DEF DrawHeld, RingBuilt, Calm, InFlight, In, Idle, DrawWait
    <3> QED  BY <3>2, <3>4, <3>5 DEF FrameInv, Shape, UndoOK, Idle
  <2> QED  BY <2>1, <2>3, <2>4
<1> QED  BY <1>1, <1>2

\* Sending a frame: the fence is reset and submitted only when it is not in flight,
\* and the flag of the slot is cleared only then.
LEMMA SendStep ==
    ASSUME FrameInv, ~Idle, NEW i \in {1, 2}, queue[1] = SendOf(i), HostStep
    PROVE  FrameInv'
<1> DEFINE step == Sites[queue[1]].steps
           f == Fence(i)
           b == Busy(i)
           j == 3 - i
           buf == IF i = 1 THEN "slot1.buf" ELSE "slot2.buf"
<1>0. /\ Len(step) = 18
      /\ step[2] = [do |-> "if", obj |-> b, is |-> {TRUE}, n |-> 2]
      /\ step[3] = Wait(f, "fail") /\ step[4] = Free({b}) /\ step[5] = Reset(f)
      /\ step[8].do = "if" /\ step[8].n = 1 /\ step[10].do = "if" /\ step[10].n = 1
      /\ step[13] = Submit(f, {"out.cb", buf})
      /\ step[14] = Set({b}) /\ step[15] = Wait(f, "fail") /\ step[16] = Free({b})
  <2>1. SendScript(step, f, b, buf, IF i = 1 THEN Set({"turn2"}) ELSE Free({"turn2"}))
    BY SendSteps
  <2> HIDE DEF step, f, b, buf
  <2> QED  BY <2>1 DEF SendScript
<1>01. \A k \in 1 .. 18 :
          /\ k \notin {4, 5, 13, 14, 16} => Plain(step[k]) /\ (step[k].do = "free" => "ring" \notin step[k].objs)
          /\ k \notin {2, 8, 10} => step[k].do # "if"
  BY SendPlain
<1> HIDE DEF step
<1>00. /\ In(SendOf(i)) /\ \A x : x # SendOf(i) => ~In(x)
       /\ SendOf(i) # SendOf(j) /\ SendOf(i) \notin DOMAIN DrawWait
       /\ SendOf(i) # "staging_ring_ensure" /\ j \in {1, 2} /\ {i, j} = {1, 2}
       /\ Fence(j) # f /\ Fence(j) # b /\ Busy(j) # b /\ Busy(j) # f /\ f # b
       /\ f \in Fences /\ Fence(j) \in Fences
       /\ f # "ring" /\ b # "ring"
       /\ {f, b, Fence(j), Busy(j), buf, "out.cb"} \cap DrawTemporaries = {}
       /\ Fence(j) # buf /\ Fence(j) # "out.cb"
  BY DEF In, SendOf, DrawWait, Fence, Busy, Fences, DrawTemporaries
<1>1. CASE Enter \/ Leave
  BY <1>1, EnterLeave
<1>2. CASE ~(Enter \/ Leave)
  <2>1. at \in 1 .. 18
    BY <1>0, <1>2 DEF HostStep, MakeStep, TryStep, ResetStep, RecordStep, SubmitStep,
       WaitStep, WaitIdle, OtherStep, At, step
  <2>2. /\ "ring" \in alive /\ f \in alive /\ Fence(j) \in alive
        /\ \A o \in DrawTemporaries : ~InFlight(o)
        /\ InFlight(Fence(j)) => Busy(j) \in alive
        /\ InFlight(f) => b \in alive \/ at = 14
        /\ at \in (4 .. 13) \cup {16} => ~InFlight(f)
    BY <1>00, <2>1 DEF FrameInv, SlotHeld, DrawHeld
  <2> HIDE DEF f, b, j, buf
  <2>3. ASSUME queue' = queue, Shape', early' = {}, cur'.undo = cur.undo \/ cur'.undo \cap SlotWatch = {},
               "ring" \in alive', f \in alive', Fence(j) \in alive',
               \A o \in DrawTemporaries : ~InFlight(o)',
               InFlight(Fence(j))' => Busy(j) \in alive',
               InFlight(f)' => b \in alive' \/ at' = 14,
               at' \in (4 .. 13) \cup {16} => ~InFlight(f)'
        PROVE  FrameInv'
    <3>1. \A x : In(x)' <=> In(x)
      BY <2>3 DEF In, Idle
    <3>2. DrawHeld' /\ RingBuilt'
      BY <1>00, <2>3, <3>1 DEF DrawHeld, RingBuilt, InFlight
    <3>3. SlotHeld(i)' /\ SlotHeld(j)'
      BY <1>00, <2>3, <3>1 DEF SlotHeld, f, b
    <3>4. UndoOK'
      BY <1>00, <2>3 DEF FrameInv, UndoOK, Idle
    <3> QED  BY <1>00, <2>3, <3>2, <3>3, <3>4 DEF FrameInv
  <2>4. /\ "undo" \in DOMAIN cur /\ gpu \in Seq(SUBSET GpuNames) /\ queue \in Seq(DOMAIN Sites) /\ early = {}
    BY DEF FrameInv, Shape
  <2>5. ASSUME at # 14 PROVE MayFail
    BY <1>00, <2>5 DEF MayFail
  <2>6. CASE at \notin {4, 5, 13, 14, 16}
    <3>1. Plain(Step) /\ (Step.do = "free" => "ring" \notin Step.objs) /\ (Step.do = "if" => at \in {2, 8, 10})
      BY <1>01, <2>1, <2>6 DEF Step, step
    <3>2. Calm
      BY <1>00, <2>2, <2>6 DEF Calm, f, b
    <3>3. CASE Went
      <4>1. ~InFlight(f) => ~InFlight(f)'
        BY <1>00, <3>3 DEF Went
      <4>2. at' \in (4 .. 13) \cup {16} => ~InFlight(f)
        <5>1. CASE at = 2
          <6> SUFFICES ASSUME at' # 3 PROVE b \notin alive
            BY <2>2, <3>3, <5>1 DEF Went
          <6>1. Step.do = "if" /\ Step.obj = b /\ Step.is = {TRUE} /\ Step.n = 2
            <7>1. Step = [do |-> "if", obj |-> b, is |-> {TRUE}, n |-> 2]
              BY <1>0, <5>1 DEF Step, step
            <7> QED  BY <7>1
          <6>2. PICK go \in BOOLEAN : /\ go = ((b \in alive) \in {TRUE})
                                      /\ at' = IF go THEN at + 1 ELSE at + 1 + Step.n
            BY <3>3, <6>1 DEF Went
          <6>3. CASE go
            <7>1. at' = at + 1
              BY <6>2, <6>3, Zenon
            <7> QED  BY <5>1, <7>1
          <6>4. CASE ~go
            BY <6>2, <6>4, Zenon
          <6> QED  BY <6>3, <6>4
        <5>2. CASE at \in {3, 15}
          BY <1>0, <2>2, <3>3, <5>2 DEF Went, Step, step, Wait
        <5>3. CASE at \in {8, 10}
          BY <2>2, <5>3
        <5>4. CASE at \notin {2, 3, 8, 10, 15}
          <6>1. at' = at + 1
            BY <3>1, <3>3, <5>4 DEF Went
          <6> QED  BY <2>1, <2>2, <2>6, <5>4, <6>1
        <5> QED  BY <5>1, <5>2, <5>3, <5>4
      <4>3. "ring" \in alive'
        BY <2>2, <3>1, <3>3 DEF Went
      <4> QED  BY <1>00, <2>3, <3>3, <4>1, <4>2, <4>3 DEF Went, Calm, f, b
    <3> QED  BY <1>0, <2>1, <2>5, <2>6, <3>1, <3>2, <3>3, PlainStep DEF step
  <2>7. CASE at \in {4, 16}
    <3>1. Step = Free({b})
      BY <1>0, <2>7 DEF Step, step
    <3>2. FreeNow({b}) /\ at' = at + 1 /\ queue' = queue /\ UNCHANGED cur
      BY <1>2, <3>1 DEF HostStep, MakeStep, TryStep, ResetStep, RecordStep, SubmitStep,
         WaitStep,
           WaitIdle, OtherStep, At, Free, Advance
    <3>3. /\ gpu' \in Seq(SUBSET GpuNames)
          /\ \A o : InFlight(o)' <=> InFlight(o) /\ o \notin {b}
          /\ alive' = alive \ {b}
          /\ early' = early \cup {o \in {b} \cap alive \cap DrawTemporaries : InFlight(o)}
      BY <3>2, Freed DEF FrameInv
    <3>4. Shape' /\ early' = {}
      BY <1>00, <2>4, <3>2, <3>3 DEF Shape
    <3> QED  BY <1>00, <2>2, <2>3, <2>7, <3>2, <3>3, <3>4
  <2>8. CASE at = 5
    <3>1. Step = Reset(f)
      BY <1>0, <2>8 DEF Step, step
    <3>2. ResetStep
      BY <1>2, <3>1 DEF HostStep, MakeStep, TryStep, RecordStep, SubmitStep, WaitStep,
           WaitIdle, OtherStep, At, Reset
    <3>3. CASE Fail
      BY <2>5, <2>8, <3>3, FailStep
    <3>4. CASE /\ early' = early \cup {x \in {Step.fence} : InFlight(x)}
               /\ Advance /\ UNCHANGED <<cur, alive, gpu, failures>>
      <4>1. early' = {}
        BY <2>2, <2>4, <2>8, <3>1, <3>4 DEF Reset
      <4>2. Shape'
        BY <2>4, <3>4 DEF Shape, Advance
      <4>3. at' = 6 /\ queue' = queue /\ UNCHANGED <<cur, alive, gpu>>
        BY <2>8, <3>4 DEF Advance
      <4>4. \A o : InFlight(o)' <=> InFlight(o)
        BY <4>3 DEF InFlight
      <4> QED  BY <2>2, <2>3, <2>8, <4>1, <4>2, <4>3, <4>4
    <3> QED  BY <3>2, <3>3, <3>4 DEF ResetStep
  <2>9. CASE at = 13
    <3>1. Step = Submit(f, {"out.cb", buf})
      BY <1>0, <2>9 DEF Step, step
    <3>2. SubmitStep /\ Step.must
      BY <1>2, <3>1 DEF HostStep, MakeStep, TryStep, ResetStep, RecordStep, WaitStep,
           WaitIdle, OtherStep, At, Submit
    <3>3. CASE Fail
      BY <2>5, <2>9, <3>3, FailStep
    <3>4. CASE gpu' = Append(gpu, Step.uses) /\ Advance /\ UNCHANGED <<alive, early>>
               /\ UNCHANGED cur
      <4>1. Step.uses = {"out.cb", buf, f} /\ Step.uses \subseteq GpuNames
        <5>1. Step.uses \subseteq GpuNames
          BY <2>1 DEF Step, GpuNames, FrameInv, Shape, Idle
        <5> QED  BY <3>1, <5>1 DEF Submit
      <4>2. /\ gpu' \in Seq(SUBSET GpuNames)
            /\ \A o : InFlight(o)' <=> InFlight(o) \/ o \in Step.uses
        BY <3>4, <4>1, Submitted DEF FrameInv
      <4>3. at' = 14 /\ queue' = queue /\ "undo" \in DOMAIN cur' /\ cur'.undo = cur.undo
        BY <2>4, <2>9, <3>4 DEF Advance
      <4>4. Shape'
        BY <2>4, <4>2, <4>3 DEF Shape
      <4> QED  BY <1>00, <2>2, <2>3, <2>4, <3>4, <4>1, <4>2, <4>3, <4>4
    <3> QED  BY <3>2, <3>3, <3>4 DEF SubmitStep
  <2>10. CASE at = 14
    <3>1. Step = Set({b})
      BY <1>0, <2>10 DEF Step, step
    <3>2. alive' = alive \cup {b} /\ at' = 15 /\ UNCHANGED <<queue, cur, early, gpu>>
      BY <1>2, <2>10, <3>1 DEF HostStep, MakeStep, TryStep, ResetStep, RecordStep,
         SubmitStep, WaitStep,
           WaitIdle, OtherStep, At, Set, Advance
    <3>3. Shape'
      BY <2>4, <3>2 DEF Shape
    <3> QED  BY <2>2, <2>3, <2>4, <3>2, <3>3 DEF InFlight
  <2> QED  BY <2>1, <2>6, <2>7, <2>8, <2>9, <2>10
<1> QED  BY <1>1, <1>2

-----------------------------------------------------------------------------
(* The theorem. *)

LEMMA FramesStart == FramesInit => FrameInv
<1> SUFFICES ASSUME FramesInit PROVE FrameInv
  OBVIOUS
<1>1. queue = <<>> /\ gpu = <<>> /\ Idle /\ alive = {} /\ early = {} /\ Len(gpu) = 0
  BY DEF FramesInit, Idle
<1>2. Shape
  BY <1>1 DEF FramesInit, Shape, NoCur
<1>3. DrawHeld /\ RingBuilt /\ UndoOK
  BY <1>1 DEF DrawHeld, RingBuilt, UndoOK, In, InFlight
<1>4. SlotHeld(1) /\ SlotHeld(2)
  BY <1>1 DEF SlotHeld, In, InFlight
<1> QED  BY <1>1, <1>2, <1>3, <1>4 DEF FrameInv

LEMMA FramesStep ==
    FrameInv /\ [FramesNext]_frameVars => FrameInv'
<1> SUFFICES ASSUME FrameInv, [FramesNext]_frameVars PROVE FrameInv'
  OBVIOUS
<1>1. CASE HostStep
  <2>1. ~Idle
    BY <1>1 DEF HostStep, Enter, Leave, MakeStep, TryStep, ResetStep, RecordStep,
       SubmitStep, WaitStep,
         WaitIdle, OtherStep, At
  <2>2. queue[1] \in Ordered => \/ queue[1] \in DOMAIN DrawWait
                                \/ queue[1] = "staging_ring_ensure"
                                \/ \E i \in {1, 2} : queue[1] = SendOf(i)
    BY DEF Ordered, DrawWait, SendOf
  <2> QED  BY <1>1, <2>1, <2>2, OtherScripts, DrawStep, EnsureStep, SendStep
<1>2. CASE GpuDone
  <2>1. UNCHANGED <<queue, at, cur, alive, early>>
    BY <1>2 DEF GpuDone
  <2>2. /\ gpu' \in Seq(SUBSET GpuNames)
        /\ \A k \in 1 .. Len(gpu') : k + 1 \in 1 .. Len(gpu) /\ gpu'[k] = gpu[k + 1]
    BY <1>2 DEF GpuDone, FrameInv, Shape
  <2>3. \A o : InFlight(o)' => InFlight(o)
    BY <2>2 DEF InFlight
  <2>4. Shape' /\ RingBuilt' /\ UndoOK'
    BY <2>1, <2>2 DEF FrameInv, Shape, RingBuilt, UndoOK, In, Idle
  <2>5. DrawHeld'
    BY <2>1, <2>2, <2>3 DEF FrameInv, DrawHeld, In, Idle
  <2>6. SlotHeld(1)' /\ SlotHeld(2)'
    BY <2>1, <2>3 DEF FrameInv, SlotHeld, In, Idle
  <2> QED  BY <2>1, <2>4, <2>5, <2>6 DEF FrameInv
<1>3. ASSUME Idle, queue' \in Seq(DOMAIN Sites), at' = 0, cur' = NoCur, UNCHANGED <<gpu, early>>,
             alive' = alive \/ alive' = alive \cup {"display"}
      PROVE  FrameInv'
  <2>1. \A x : ~In(x)
    BY <1>3 DEF In
  <2>2. "ring" \in alive' => "ring" \in alive
    BY <1>3
  <2>3. Shape' /\ UndoOK'
    BY <1>3 DEF FrameInv, Shape, UndoOK, NoCur
  <2>4. DrawHeld' /\ RingBuilt'
    BY <1>3, <2>1, DrawSteps DEF FrameInv, DrawHeld, RingBuilt, InFlight
  <2>5. SlotHeld(1)' /\ SlotHeld(2)'
    BY <1>3, <2>1 DEF FrameInv, SlotHeld, InFlight
  <2> QED  BY <1>3, <2>3, <2>4, <2>5 DEF FrameInv
<1>4. ASSUME NEW h \in Handlers, Start(h), UNCHANGED <<gpu, early>>
      PROVE  FrameInv'
  BY <1>3, <1>4, HandlersTyped DEF Start
<1>5. CASE UNCHANGED frameVars
  <2>1. UNCHANGED <<queue, at, cur, alive, gpu, early>>
    BY <1>5 DEF frameVars
  <2> QED  BY <2>1, SMTT(30) DEF FrameInv, Shape, DrawHeld, SlotHeld, RingBuilt, UndoOK,
    InFlight, In, Idle
<1> QED  BY <1>1, <1>2, <1>4, <1>5 DEF FramesNext

\* However late the GPU is, however many submissions it holds and wherever calls fail,
\* nothing a draw made is freed and no fence of the staging ring is reset while a
\* submission may still use it.
THEOREM NothingFreedEarlyAlways ==
    FramesSpec => []NothingFreedEarly
<1>1. FrameInv => NothingFreedEarly
  BY DEF FrameInv, NothingFreedEarly
<1> QED  BY <1>1, FramesStart, FramesStep, PTL DEF FramesSpec

-----------------------------------------------------------------------------
(* Objects that outlive a call. *)

\* What the device keeps until it is shut down, and the other objects that outlive a
\* call: the surface, the parts and the flags of the staging ring.
Parts == PipelineShutdown \cup {"instance", "messenger", "pool", "empty.layout", "clear.cb"}
Surface == {"surf.image", "surf.mem", "surf.view"}
SlotParts == SlotObjects(1) \cup SlotObjects(2)
SlotFlags == {"turn2", "slot1.busy", "slot2.busy"}
RingParts == SlotParts \cup {"ring", "turn2"}
\* Whatever may be there between two calls.
Kept ==
    Parts \cup {"device", "display", "frame.new"} \cup CompositeObjects \cup RenderTarget
        \cup Surface \cup RingParts
\* The objects of S are there only with the flag that says they are.
Whole(A, S, flag) == flag \notin A => S \cap A = {}
\* Nothing is left of a function, and no object lacks what its destroyer goes by.
Clean(A) ==
    /\ A \subseteq Kept
    /\ "device" \notin A => A \subseteq {"messenger"}
    /\ Whole(A, CompositeObjects, "comp.ready") /\ Whole(A, RingParts, "ring")
    /\ Whole(A, Surface, "surf.view") /\ Whole(A, RenderTarget, "rt.ready")
    /\ Whole(A, RenderTarget \cup RingParts \cup {"frame.new"}, "display")
    /\ "surf.view" \in A => "surf.image" \in A

\* What functions make for themselves.
Temporaries ==
    {"pass.vs", "pass.fs", "cur.vs", "cur.fs", "empty.cb", "empty.fence", "tint.cb", "tint.fence",
     "rb.buf", "rb.mem", "rb.cb", "rb.fence", "draw.cb", "draw.fence", "draw.buf", "draw.mem",
     "sc.cb", "sc.fence", "up.buf", "up.mem", "up.cb", "up.fence", "over.cb", "over.fence",
     "clear.fence", "ps.buf", "ps.mem", "ps.cb", "ps.fence", "blit.cb", "blit.fence",
     "cc.cb", "cc.fence", "out.cb"}

\* The other functions make or destroy the device, the display, its ring, the surface
\* or the compositor.
Builders == {"vk_init", "vk_shutdown", "render_target_create", "render_target_wrap", "iosurface_create",
             "iosurface_destroy", "composite_ensure", "staging_ring_ensure", "display_free"}

\* A step that makes and frees only what is its own, or a part of the device, and
\* touches the frame and the ring only in a function that needs the display or the ring.
Tidy(st, needs) ==
    /\ st.do = "make" => st.obj \in Temporaries \cup Parts
    /\ st.do = "set" => /\ st.objs \subseteq {"frame.new"} \cup SlotFlags
                        /\ needs \cap {"rt.ready", "ring"} # {}
                        /\ st.objs \cap SlotFlags # {} => "ring" \in needs
    /\ st.do = "free" => /\ st.objs \subseteq Temporaries \cup {"frame.new"} \cup SlotFlags
                         /\ st.objs \cap SlotFlags # {} => "ring" \in needs
    /\ st.do = "undo" => st.objs \subseteq Parts

\* A script of such steps, with an undo that frees nothing else.
TidySite(s) ==
    /\ s.undo \subseteq Temporaries \cup Parts
    /\ s.needs # {} /\ s.needs \cap (Temporaries \cup {"frame.new", "messenger"} \cup SlotFlags) = {}
    /\ \A k \in 1 .. Len(s.steps) : Tidy(s.steps[k], s.needs)

\* The names behind Parts.
LEMMA PartsListed ==
    Parts = {"frame.image", "frame.mem", "frame.view", "vb.buf", "vb.mem", "ubo.buf", "ubo.mem", "ubo.pool",
             "draw.pool", "sampler", "unnorm", "pass.dsl", "pass.layout", "pass.pipeline", "cur.ubo",
             "cur.umem", "cur.pool", "cur.sampler", "glyph.image", "glyph.mem", "glyph.view",
             "cur.pipeline", "cur.layout", "cur.dsl", "instance", "messenger", "pool", "empty.layout", "clear.cb"}
BY DEF Parts, PipelineShutdown, PipelineShutdownForgets, DestroyFrameImage,
   DestroyDummyVb, DestroyFallbackDs,
   DestroyCursor

\* The steps the scripts are made of.
LEMMA TidySteps ==
    /\ \A o, N : o \in Temporaries \cup Parts => Tidy(Make(o), N) /\ Tidy(MakeOpt(o), N)
    /\ \A N : Tidy(Try, N)
    /\ \A m, t, N : Tidy(Record(m, t), N)
    /\ \A t, N : Tidy(Track(t), N)
    /\ \A f, l, N : Tidy(Wait(f, l), N)
    /\ \A f, N : Tidy(Reset(f), N)
    /\ \A f, U, N : Tidy(Submit(f, U), N) /\ Tidy(SubmitOpt(f, U), N)
    /\ \A S, N : S \subseteq Temporaries \cup {"frame.new"} => Tidy(Free(S), N)
    /\ \A N : "ring" \in N \/ "rt.ready" \in N => Tidy(Set({"frame.new"}), N)
    /\ \A S, N : S \subseteq SlotFlags /\ "ring" \in N => Tidy(Free(S), N) /\ Tidy(Set(S), N)
    /\ \A S, N : S \subseteq Parts => Tidy(Undo(S), N)
    /\ \A o, B, n, N : Tidy([do |-> "if", obj |-> o, is |-> B, n |-> n], N)
<1>1. /\ \A S, N : S \subseteq Temporaries \cup {"frame.new"} => Tidy(Free(S), N)
      /\ \A S, N : S \subseteq SlotFlags /\ "ring" \in N => Tidy(Free(S), N)
  <2>1. SlotFlags \cap (Temporaries \cup {"frame.new"}) = {}
    BY DEF SlotFlags, Temporaries
  <2> QED  BY <2>1 DEF Tidy, Free
<1>2. /\ \A N : "ring" \in N \/ "rt.ready" \in N => Tidy(Set({"frame.new"}), N)
      /\ \A S, N : S \subseteq SlotFlags /\ "ring" \in N => Tidy(Set(S), N)
  BY DEF Tidy, Set, SlotFlags
<1>3. \A o, N : o \in Temporaries \cup Parts => Tidy(Make(o), N) /\ Tidy(MakeOpt(o), N)
  BY DEF Tidy, Make, MakeOpt
<1>4. /\ \A N : Tidy(Try, N)
      /\ \A m, t, N : Tidy(Record(m, t), N)
      /\ \A t, N : Tidy(Track(t), N)
      /\ \A f, l, N : Tidy(Wait(f, l), N)
      /\ \A f, N : Tidy(Reset(f), N)
      /\ \A f, U, N : Tidy(Submit(f, U), N) /\ Tidy(SubmitOpt(f, U), N)
      /\ \A o, B, n, N : Tidy([do |-> "if", obj |-> o, is |-> B, n |-> n], N)
  BY DEF Tidy, Try, Record, Track, Wait, Reset, Submit, SubmitOpt
<1>5. \A S, N : S \subseteq Parts => Tidy(Undo(S), N)
  BY DEF Tidy, Undo
<1> QED  BY <1>1, <1>2, <1>3, <1>4, <1>5

\* What is kept is not a temporary.
LEMMA KeptApart ==
    Temporaries \cap Kept = {}
BY PartsListed DEF Temporaries, Kept, Surface, SlotParts, SlotObjects, SlotNames,
   RingParts, CompositeObjects, RenderTarget

\* Every function that is not a builder is tidy.
LEMMA TidyScripts ==
    \A s \in DOMAIN Sites \ Builders : TidySite(Sites[s])
<1>1. TidySite(create_pipeline_layout)
  BY TidySteps, PartsListed DEF TidySite, Temporaries, SlotFlags, Site,
     create_pipeline_layout
<1>2. TidySite(create_passthrough_pipeline)
  BY TidySteps, PartsListed DEF TidySite, Temporaries, SlotFlags, Site,
     create_passthrough_pipeline
<1>3. TidySite(create_frame_image)
  BY TidySteps, PartsListed DEF TidySite, Temporaries, SlotFlags, Site,
     create_frame_image
<1>4. TidySite(create_dummy_vb)
  BY TidySteps, PartsListed DEF TidySite, Temporaries, SlotFlags, Site,
     create_dummy_vb, HostBuffer
<1>5. TidySite(create_fallback_ds)
  BY TidySteps, PartsListed DEF TidySite, Temporaries, SlotFlags, Site,
     create_fallback_ds, fallback_set, draw_pool_and_samplers, HostBuffer
<1>6. TidySite(create_cursor_pipeline_layout)
  BY TidySteps, PartsListed DEF TidySite, Temporaries, SlotFlags, Site,
     create_cursor_pipeline_layout
<1>7. TidySite(create_cursor_pipeline)
  BY TidySteps, PartsListed DEF TidySite, Temporaries, SlotFlags, Site,
     create_cursor_pipeline
<1>8. TidySite(create_cursor_resources)
  BY TidySteps, PartsListed DEF TidySite, Temporaries, SlotFlags, Site,
     create_cursor_resources, cursor_set, cursor_glyph, HostBuffer
<1>9. TidySite(empty_layout)
  BY TidySteps, PartsListed DEF TidySite, Temporaries, SlotFlags, Site, empty_layout
<1>10. TidySite(submit_empty)
  BY TidySteps, PartsListed DEF TidySite, Temporaries, SlotFlags, Site, submit_empty,
     CommandBuffer
<1>11. TidySite(rt_tint)
  BY TidySteps, PartsListed DEF TidySite, Temporaries, SlotFlags, Site, rt_tint,
     RenderClear, CommandBuffer
<1>12. TidySite(readback)
  BY TidySteps, PartsListed DEF TidySite, Temporaries, SlotFlags, Site, readback,
     readback_record, ReadbackTracks, HostBuffer, CommandBuffer
<1>13. TidySite(draw_rt)
  BY TidySteps, PartsListed DEF TidySite, Temporaries, SlotFlags, Site, draw_rt,
     DrawRecord, DrawCommands, HostBuffer, CommandBuffer, DrawTemporaries
<1>14. TidySite(draw_surface)
  BY TidySteps, PartsListed DEF TidySite, Temporaries, SlotFlags, Site, draw_surface,
     DrawRecord, DrawCommands, HostBuffer, CommandBuffer, DrawTemporaries
<1>15. TidySite(iosurface_clear)
  BY TidySteps, PartsListed DEF TidySite, Temporaries, SlotFlags, Site,
     iosurface_clear, CommandBuffer
<1>16. TidySite(upload_pixels)
  BY TidySteps, PartsListed DEF TidySite, Temporaries, SlotFlags, Site, upload_pixels,
     HostBuffer, CommandBuffer
<1>17. TidySite(composite_over)
  BY TidySteps, PartsListed DEF TidySite, Temporaries, SlotFlags, Site, composite_over,
     CommandBuffer
<1>18. TidySite(clear_image)
  BY TidySteps, PartsListed DEF TidySite, Temporaries, SlotFlags, Site, clear_image,
     CommandBuffer
<1>19. TidySite(present_surface)
  BY TidySteps, PartsListed DEF TidySite, Temporaries, SlotFlags, Site,
     present_surface, present_staging, present_record, Maybe, HostBuffer, CommandBuffer
<1>20. TidySite(fill_texture_color)
  BY TidySteps, PartsListed DEF TidySite, Temporaries, SlotFlags, Site,
     fill_texture_color, BlitSite, FillRecord, CommandBuffer
<1>21. TidySite(copy_texture_to_texture)
  BY TidySteps, PartsListed DEF TidySite, Temporaries, SlotFlags, Site,
     copy_texture_to_texture, BlitSite, CopyRecord, CommandBuffer
<1>22. TidySite(submit_clear_color)
  BY TidySteps, PartsListed DEF TidySite, Temporaries, SlotFlags, Site,
     submit_clear_color, clear_commands, RenderClear, CommandBuffer
<1>23. TidySite(keep_pixels)
  BY TidySteps, PartsListed DEF TidySite, Temporaries, SlotFlags, Site, keep_pixels
<1>24. TidySite(send_frame(1))
  BY TidySteps, PartsListed DEF TidySite, Temporaries, SlotFlags, Site, send_frame,
     AwaitSlot, scanout_commands, SlotNames, If, IfNot, CommandBuffer
<1>25. TidySite(send_frame(2))
  BY TidySteps, PartsListed DEF TidySite, Temporaries, SlotFlags, Site, send_frame,
     AwaitSlot, scanout_commands, SlotNames, If, IfNot, CommandBuffer
<1> QED  BY <1>1, <1>2, <1>3, <1>4, <1>5, <1>6, <1>7, <1>8, <1>9, <1>10, <1>11, <1>12,
  <1>13, <1>14, <1>15, <1>16, <1>17, <1>18, <1>19, <1>20, <1>21, <1>22, <1>23, <1>24,
  <1>25 DEF Sites, Builders

-----------------------------------------------------------------------------
(* What a function makes for itself it frees. *)

\* A step that can end the function.
Fallible(st) ==
    \/ st.do \in {"try", "reset"}
    \/ st.do \in {"make", "submit"} /\ st.must
    \/ st.do = "wait" /\ st.late \in {"fail", "idle"}

\* A step that makes an object the function must free, and one that frees it.
MakesTemporary(st) == st.do = "make" /\ st.obj \in Temporaries
FreesTemporary(st, o) == st.do = "free" /\ o \in st.objs

\* Every temporary a script makes is freed further down, where no jump skips it, and by
\* the undo unless nothing further down can fail.
Orderly(s) ==
    /\ Len(s.steps) \in Nat
    /\ \A k \in 1 .. Len(s.steps) : MakesTemporary(s.steps[k]) =>
          /\ \E i \in (k + 1) .. Len(s.steps) : FreesTemporary(s.steps[i], s.steps[k].obj)
          /\ \/ s.steps[k].obj \in s.undo
             \/ \A i \in (k + 1) .. Len(s.steps) : ~Fallible(s.steps[i])
    /\ \A k \in 1 .. Len(s.steps) : s.steps[k].do = "if" =>
          /\ s.steps[k].n \in Nat /\ k + s.steps[k].n <= Len(s.steps)
          /\ \A i \in (k + 1) .. (k + s.steps[k].n), o \in Temporaries : ~FreesTemporary(s.steps[i], o)
    /\ \A k \in 1 .. Len(s.steps) : s.steps[k].do = "undo" => s.undo \cap Temporaries = {}

\* What the constructors of steps build.
LEMMA Fields ==
    /\ \A o : Make(o).do = "make" /\ Make(o).obj = o /\ Fallible(Make(o))
    /\ \A o : MakeOpt(o).do = "make" /\ MakeOpt(o).obj = o /\ ~Fallible(MakeOpt(o))
    /\ Try.do = "try" /\ Fallible(Try)
    /\ \A m, t : Record(m, t).do = "record" /\ ~Fallible(Record(m, t))
    /\ \A t : Track(t).do = "record" /\ ~Fallible(Track(t))
    /\ \A f, l : Wait(f, l).do = "wait"
    /\ \A f : ~Fallible(Wait(f, "never")) /\ ~Fallible(Wait(f, "ignore"))
    /\ \A f : Reset(f).do = "reset"
    /\ \A f, U : Submit(f, U).do = "submit" /\ SubmitOpt(f, U).do = "submit" /\ ~Fallible(SubmitOpt(f, U))
    /\ \A S : Free(S).do = "free" /\ Free(S).objs = S /\ ~Fallible(Free(S))
    /\ \A S : Set(S).do = "set" /\ ~Fallible(Set(S))
    /\ \A S : Undo(S).do = "undo" /\ Undo(S).objs = S /\ ~Fallible(Undo(S))
BY DEF Fallible, Make, MakeOpt, Try, Record, Track, Wait, Reset, Submit, SubmitOpt,
   Free, Undo, Set

\* The long scripts, step by step.
LEMMA SubmitEmptySteps ==
    LET step == submit_empty.steps
    IN  /\ Len(step) = 7 /\ submit_empty.undo = {"empty.cb", "empty.fence"}
        /\ step[1] = Make("empty.cb") /\ step[2] = Try /\ step[3] = Try
        /\ step[4] = Make("empty.fence")
        /\ step[5] = Submit("empty.fence", {"empty.cb"})
        /\ step[6] = Wait("empty.fence", "fail")
        /\ step[7] = Free({"empty.cb", "empty.fence"})
BY DEF Site, submit_empty, CommandBuffer

LEMMA RtTintSteps ==
    LET step == rt_tint.steps
    IN  /\ Len(step) = 8 /\ rt_tint.undo = {"tint.cb", "tint.fence"}
        /\ step[1] = Make("tint.cb") /\ step[2] = Try
        /\ step[3] = Record(<<To("rt", "tracked", "color")>>, {Is("rt", "color")})
        /\ step[4] = Try /\ step[5] = MakeOpt("tint.fence")
        /\ step[6] = SubmitOpt("tint.fence", {"tint.cb"})
        /\ step[7] = Wait("tint.fence", "ignore")
        /\ step[8] = Free({"tint.cb", "tint.fence"})
BY DEF Site, rt_tint, CommandBuffer, RenderClear

LEMMA ReadbackSteps ==
    LET step == readback.steps
    IN  /\ Len(step) = 13 /\ readback.undo = {"rb.buf", "rb.mem", "rb.cb", "rb.fence"}
        /\ step[1] = Make("rb.buf") /\ step[2] = Make("rb.mem") /\ step[3] = Try
        /\ step[4] = Make("rb.cb") /\ step[5] = Try
        /\ step[6] = Record(<<To("rt", "tracked", "src")>>, {}) /\ step[7] = Try
        /\ step[8] = Make("rb.fence")
        /\ step[9] = Submit("rb.fence", {"rb.cb", "rb.buf", "rt"})
        /\ step[10] = Wait("rb.fence", "fail") /\ step[11] = Try
        /\ step[12] = Track({Is("rt", "src")})
        /\ step[13] = Free({"rb.buf", "rb.mem", "rb.cb", "rb.fence"})
BY DEF Site, readback, readback_record, ReadbackTracks, HostBuffer, CommandBuffer

LEMMA DrawRtSteps ==
    LET step == draw_rt.steps
    IN  /\ Len(step) = 13 /\ draw_rt.undo = {"draw.cb", "draw.fence", "draw.buf", "draw.mem"}
        /\ step[1] = Make("draw.buf") /\ step[2] = Make("draw.mem") /\ step[3] = Try
        /\ step[4] = Make("draw.cb") /\ step[5] = Try
        /\ step[6] = Record(<<To("rt", "tracked", "color")>>, {Is("rt", "color")})
        /\ step[7] = Try /\ step[8] = Make("draw.fence")
        /\ step[9] = Submit("draw.fence", {"draw.cb", "draw.buf"})
        /\ step[10] = Wait("draw.fence", "idle")
        /\ step[11] = Free({"draw.cb", "draw.fence"})
        /\ step[12] = Free({"draw.buf", "draw.mem"}) /\ step[13] = Set({"frame.new"})
BY DEF Site, draw_rt, DrawRecord, DrawCommands, DrawTemporaries, HostBuffer,
   CommandBuffer

LEMMA DrawSurfaceSteps ==
    LET step == draw_surface.steps
    IN  /\ Len(step) = 14 /\ draw_surface.undo = {"draw.cb", "draw.fence", "draw.buf", "draw.mem"}
        /\ step[1] = Track({Is("pass", "undef"), Is("surf", "read")})
        /\ step[2] = Make("draw.buf") /\ step[3] = Make("draw.mem") /\ step[4] = Try
        /\ step[5] = Make("draw.cb") /\ step[6] = Try
        /\ step[7] = Record(<<To("pass", "tracked", "color")>>, {Is("pass", "color")})
        /\ step[8] = Try /\ step[9] = Make("draw.fence")
        /\ step[10] = Submit("draw.fence", {"draw.cb", "draw.buf"})
        /\ step[11] = Wait("draw.fence", "idle")
        /\ step[12] = Free({"draw.cb", "draw.fence"})
        /\ step[13] = Free({"draw.buf", "draw.mem"}) /\ step[14] = Set({"frame.new"})
BY DEF Site, draw_surface, DrawRecord, DrawCommands, DrawTemporaries, HostBuffer,
   CommandBuffer

LEMMA IosurfaceClearSteps ==
    LET step == iosurface_clear.steps
    IN  /\ Len(step) = 9 /\ iosurface_clear.undo = {"sc.cb", "sc.fence"}
        /\ step[1] = Make("sc.cb") /\ step[2] = Try
        /\ step[3] = Record(<<To("surf", "undef", "dst"), To("surf", "dst", "read")>>, {})
        /\ step[4] = Try /\ step[5] = MakeOpt("sc.fence")
        /\ step[6] = Submit("sc.fence", {"sc.cb", "surf.image"})
        /\ step[7] = Wait("sc.fence", "ignore") /\ step[8] = Track({Is("surf", "read")})
        /\ step[9] = Free({"sc.cb", "sc.fence"})
BY DEF Site, iosurface_clear, CommandBuffer

LEMMA UploadPixelsSteps ==
    LET step == upload_pixels.steps
    IN  /\ Len(step) = 12 /\ upload_pixels.undo = {"up.buf", "up.mem", "up.cb", "up.fence"}
        /\ step[1] = Make("up.buf") /\ step[2] = Make("up.mem") /\ step[3] = Try
        /\ step[4] = Make("up.cb") /\ step[5] = Try
        /\ step[6] = Record(<<To("surf", "undef", "dst"), To("surf", "dst", "read")>>, {})
        /\ step[7] = Try /\ step[8] = MakeOpt("up.fence")
        /\ step[9] = Submit("up.fence", {"up.cb", "up.buf", "surf.image"})
        /\ step[10] = Wait("up.fence", "ignore")
        /\ step[11] = Track({Is("surf", "read")})
        /\ step[12] = Free({"up.buf", "up.mem", "up.cb", "up.fence"})
BY DEF Site, upload_pixels, HostBuffer, CommandBuffer

LEMMA CompositeOverSteps ==
    LET step == composite_over.steps
    IN  /\ Len(step) = 8 /\ composite_over.undo = {"over.cb", "over.fence"}
        /\ step[1] = Make("over.cb") /\ step[2] = Try
        /\ step[3] = Record(<<To("rt", "tracked", "color")>>, {Is("rt", "color")})
        /\ step[4] = Try /\ step[5] = Make("over.fence")
        /\ step[6] = SubmitOpt("over.fence", {"over.cb", "surf.image", "comp.pipeline"})
        /\ step[7] = Wait("over.fence", "ignore")
        /\ step[8] = Free({"over.cb", "over.fence"})
BY DEF Site, composite_over, CommandBuffer

LEMMA ClearImageSteps ==
    LET step == clear_image.steps
    IN  /\ Len(step) = 9 /\ clear_image.undo = {"clear.fence"}
        /\ step[1] = Make("clear.cb") /\ step[2] = Try
        /\ step[3] = Record(<<To("surf", "tracked", "dst")>>, {}) /\ step[4] = Try
        /\ step[5] = Make("clear.fence")
        /\ step[6] = Submit("clear.fence", {"clear.cb", "surf.image"})
        /\ step[7] = Wait("clear.fence", "fail") /\ step[8] = Free({"clear.fence"})
        /\ step[9] = Track({Is("surf", "dst")})
BY DEF Site, clear_image, CommandBuffer

LEMMA PresentSurfaceSteps ==
    LET step == present_surface.steps
    IN  /\ Len(step) = 14 /\ present_surface.undo = {"ps.buf", "ps.mem", "ps.cb", "ps.fence"}
        /\ step[1] = [do |-> "if", obj |-> "argument", is |-> {}, n |-> 3]
        /\ step[2] = Make("ps.buf") /\ step[3] = Make("ps.mem") /\ step[4] = Try
        /\ step[5] = Make("ps.cb") /\ step[6] = Try
        /\ step[7] = Record(<<To("surf", "tracked", "src"), To("rt", "tracked", "dst"),
                             To("surf", "src", "read"), To("rt", "dst", "src")>>, {})
        /\ step[8] = Try /\ step[9] = Make("ps.fence")
        /\ step[10] = Submit("ps.fence", {"ps.cb", "ps.buf", "surf.image"})
        /\ step[11] = Wait("ps.fence", "fail")
        /\ step[12] = Track({Is("surf", "read"), Is("rt", "src")}) /\ step[13] = Try
        /\ step[14] = Free({"ps.buf", "ps.mem", "ps.cb", "ps.fence"})
BY DEF Site, present_surface, present_staging, present_record, Maybe, HostBuffer,
   CommandBuffer

LEMMA FillTextureColorSteps ==
    LET step == fill_texture_color.steps
    IN  /\ Len(step) = 8 /\ fill_texture_color.undo = {"blit.cb"}
        /\ step[1] = Make("blit.cb") /\ step[2] = Try
        /\ step[3] = Record(<<To("surf", "undef", "dst"), To("surf", "dst", "general")>>, {})
        /\ step[4] = Try /\ step[5] = Make("blit.fence")
        /\ step[6] = SubmitOpt("blit.fence", {"blit.cb", "surf.image"})
        /\ step[7] = Wait("blit.fence", "never")
        /\ step[8] = Free({"blit.cb", "blit.fence"})
BY DEF Site, fill_texture_color, BlitSite, FillRecord, CommandBuffer

LEMMA CopyTextureToTextureSteps ==
    LET step == copy_texture_to_texture.steps
    IN  /\ Len(step) = 8 /\ copy_texture_to_texture.undo = {"blit.cb"}
        /\ step[1] = Make("blit.cb") /\ step[2] = Try
        /\ step[3] = Record(<<To("surf", "general", "src"), To("surf", "src", "general")>>, {})
        /\ step[4] = Try /\ step[5] = Make("blit.fence")
        /\ step[6] = SubmitOpt("blit.fence", {"blit.cb", "surf.image"})
        /\ step[7] = Wait("blit.fence", "never")
        /\ step[8] = Free({"blit.cb", "blit.fence"})
BY DEF Site, copy_texture_to_texture, BlitSite, CopyRecord, CommandBuffer

LEMMA SubmitClearColorSteps ==
    LET step == submit_clear_color.steps
    IN  /\ Len(step) = 9 /\ submit_clear_color.undo = {"cc.cb", "cc.fence"}
        /\ step[1] = Make("cc.cb") /\ step[2] = Try
        /\ step[3] = Record(<<To("rt", "tracked", "color")>>, {Is("rt", "color")})
        /\ step[4] = Try /\ step[5] = Make("cc.fence")
        /\ step[6] = Submit("cc.fence", {"cc.cb"}) /\ step[7] = Wait("cc.fence", "fail")
        /\ step[8] = Free({"cc.cb", "cc.fence"}) /\ step[9] = Set({"frame.new"})
BY DEF Site, submit_clear_color, clear_commands, RenderClear, CommandBuffer

\* A long script is orderly by its positions: M holds the makes, J the jumps.
LEMMA ShownOrderly ==
    ASSUME NEW s, NEW N \in Nat, NEW M, NEW J, Len(s.steps) = N,
           \A k \in 1 .. N :
               /\ MakesTemporary(s.steps[k]) => k \in M
               /\ s.steps[k].do = "if" <=> k \in J
               /\ s.steps[k].do # "undo",
           \A k \in M :
               /\ s.steps[k].obj \in s.undo \/ \A i \in (k + 1) .. N : ~Fallible(s.steps[i])
               /\ \E i \in (k + 1) .. N : FreesTemporary(s.steps[i], s.steps[k].obj),
           \A k \in J :
               /\ s.steps[k].n \in Nat /\ k + s.steps[k].n <= N
               /\ \A i \in (k + 1) .. (k + s.steps[k].n), o \in Temporaries :
                     ~FreesTemporary(s.steps[i], o)
    PROVE  Orderly(s)
BY DEF Orderly

\* Every function that is not a builder is orderly.
LEMMA OrderlyScripts ==
    \A s \in DOMAIN Sites \ Builders : Orderly(Sites[s])
<1>1. Orderly(create_pipeline_layout)
  BY Fields, PartsListed DEF Orderly, MakesTemporary, FreesTemporary, Temporaries,
     Site, create_pipeline_layout
<1>2. Orderly(create_passthrough_pipeline)
  BY Fields, PartsListed DEF Orderly, MakesTemporary, FreesTemporary, Temporaries,
     Site, create_passthrough_pipeline
<1>3. Orderly(create_frame_image)
  BY Fields, PartsListed DEF Orderly, MakesTemporary, FreesTemporary, Temporaries,
     Site, create_frame_image
<1>4. Orderly(create_dummy_vb)
  BY Fields, PartsListed DEF Orderly, MakesTemporary, FreesTemporary, Temporaries,
     Site, create_dummy_vb, HostBuffer
<1>5. Orderly(create_fallback_ds)
  <2> DEFINE s == create_fallback_ds
  <2>1. Len(s.steps) = 9 /\ s.undo \cap Temporaries = {}
    BY DEF Site, Temporaries, create_fallback_ds, fallback_set, draw_pool_and_samplers,
       HostBuffer
  <2>2. \A k \in 1 .. 9 : ~MakesTemporary(s.steps[k]) /\ s.steps[k].do # "if"
    BY Fields DEF MakesTemporary, Temporaries, Site, create_fallback_ds, fallback_set,
       draw_pool_and_samplers, HostBuffer
  <2> HIDE DEF s
  <2> QED  BY <2>1, <2>2 DEF Orderly, s
<1>6. Orderly(create_cursor_pipeline_layout)
  BY Fields, PartsListed DEF Orderly, MakesTemporary, FreesTemporary, Temporaries,
     Site, create_cursor_pipeline_layout
<1>7. Orderly(create_cursor_pipeline)
  BY Fields, PartsListed DEF Orderly, MakesTemporary, FreesTemporary, Temporaries,
     Site, create_cursor_pipeline
<1>8. Orderly(create_cursor_resources)
  <2> DEFINE s == create_cursor_resources
  <2>1. Len(s.steps) = 12 /\ s.undo \cap Temporaries = {}
    BY DEF Site, Temporaries, create_cursor_resources, cursor_set, cursor_glyph,
       HostBuffer
  <2>2. \A k \in 1 .. 12 : ~MakesTemporary(s.steps[k]) /\ s.steps[k].do # "if"
    BY Fields DEF MakesTemporary, Temporaries, Site, create_cursor_resources,
       cursor_set, cursor_glyph, HostBuffer
  <2> HIDE DEF s
  <2> QED  BY <2>1, <2>2 DEF Orderly, s
<1>9. Orderly(empty_layout)
  BY Fields, PartsListed DEF Orderly, MakesTemporary, FreesTemporary, Temporaries,
     Site, empty_layout
<1>10. Orderly(submit_empty)
  <2> DEFINE step == submit_empty.steps
             M == {1, 4}
             J == {}
  <2> HIDE DEF step, M, J
  <2>1. \A k \in 1 .. 7 :
          /\ MakesTemporary(step[k]) => k \in M
          /\ step[k].do = "if" <=> k \in J
          /\ step[k].do # "undo"
    BY SubmitEmptySteps, Fields, PartsListed DEF MakesTemporary, Temporaries, step, M, J
  <2>2. \A k \in M :
          /\ step[k].obj \in submit_empty.undo
          /\ \E i \in (k + 1) .. 7 : FreesTemporary(step[i], step[k].obj)
    BY SubmitEmptySteps, Fields DEF FreesTemporary, step, M
  <2>3. \A k \in J :
          /\ step[k].n \in Nat /\ k + step[k].n <= 7
          /\ \A i \in (k + 1) .. (k + step[k].n), o \in Temporaries :
                ~FreesTemporary(step[i], o)
    BY SubmitEmptySteps, Fields DEF FreesTemporary, step, J
  <2>4. Len(step) = 7
    BY SubmitEmptySteps DEF step
  <2> QED  BY <2>1, <2>2, <2>3, <2>4, ShownOrderly DEF step
<1>11. Orderly(rt_tint)
  <2> DEFINE step == rt_tint.steps
             M == {1, 5}
             J == {}
  <2> HIDE DEF step, M, J
  <2>1. \A k \in 1 .. 8 :
          /\ MakesTemporary(step[k]) => k \in M
          /\ step[k].do = "if" <=> k \in J
          /\ step[k].do # "undo"
    BY RtTintSteps, Fields, PartsListed DEF MakesTemporary, Temporaries, step, M, J
  <2>2. \A k \in M :
          /\ step[k].obj \in rt_tint.undo
          /\ \E i \in (k + 1) .. 8 : FreesTemporary(step[i], step[k].obj)
    BY RtTintSteps, Fields DEF FreesTemporary, step, M
  <2>3. \A k \in J :
          /\ step[k].n \in Nat /\ k + step[k].n <= 8
          /\ \A i \in (k + 1) .. (k + step[k].n), o \in Temporaries :
                ~FreesTemporary(step[i], o)
    BY RtTintSteps, Fields DEF FreesTemporary, step, J
  <2>4. Len(step) = 8
    BY RtTintSteps DEF step
  <2> QED  BY <2>1, <2>2, <2>3, <2>4, ShownOrderly DEF step
<1>12. Orderly(readback)
  <2> DEFINE step == readback.steps
             M == {1, 2, 4, 8}
             J == {}
  <2> HIDE DEF step, M, J
  <2>1. \A k \in 1 .. 13 :
          /\ MakesTemporary(step[k]) => k \in M
          /\ step[k].do = "if" <=> k \in J
          /\ step[k].do # "undo"
    BY ReadbackSteps, Fields, PartsListed DEF MakesTemporary, Temporaries, step, M, J
  <2>2. \A k \in M :
          /\ step[k].obj \in readback.undo
          /\ \E i \in (k + 1) .. 13 : FreesTemporary(step[i], step[k].obj)
    BY ReadbackSteps, Fields DEF FreesTemporary, step, M
  <2>3. \A k \in J :
          /\ step[k].n \in Nat /\ k + step[k].n <= 13
          /\ \A i \in (k + 1) .. (k + step[k].n), o \in Temporaries :
                ~FreesTemporary(step[i], o)
    BY ReadbackSteps, Fields DEF FreesTemporary, step, J
  <2>4. Len(step) = 13
    BY ReadbackSteps DEF step
  <2> QED  BY <2>1, <2>2, <2>3, <2>4, ShownOrderly DEF step
<1>13. Orderly(draw_rt)
  <2> DEFINE step == draw_rt.steps
             M == {1, 2, 4, 8}
             J == {}
  <2> HIDE DEF step, M, J
  <2>1. \A k \in 1 .. 13 :
          /\ MakesTemporary(step[k]) => k \in M
          /\ step[k].do = "if" <=> k \in J
          /\ step[k].do # "undo"
    BY DrawRtSteps, Fields, PartsListed DEF MakesTemporary, Temporaries, step, M, J
  <2>2. \A k \in M :
          /\ step[k].obj \in draw_rt.undo
          /\ \E i \in (k + 1) .. 13 : FreesTemporary(step[i], step[k].obj)
    BY DrawRtSteps, Fields DEF FreesTemporary, step, M
  <2>3. \A k \in J :
          /\ step[k].n \in Nat /\ k + step[k].n <= 13
          /\ \A i \in (k + 1) .. (k + step[k].n), o \in Temporaries :
                ~FreesTemporary(step[i], o)
    BY DrawRtSteps, Fields DEF FreesTemporary, step, J
  <2>4. Len(step) = 13
    BY DrawRtSteps DEF step
  <2> QED  BY <2>1, <2>2, <2>3, <2>4, ShownOrderly DEF step
<1>14. Orderly(draw_surface)
  <2> DEFINE step == draw_surface.steps
             M == {2, 3, 5, 9}
             J == {}
  <2> HIDE DEF step, M, J
  <2>1. \A k \in 1 .. 14 :
          /\ MakesTemporary(step[k]) => k \in M
          /\ step[k].do = "if" <=> k \in J
          /\ step[k].do # "undo"
    BY DrawSurfaceSteps, Fields, PartsListed DEF MakesTemporary, Temporaries, step, M, J
  <2>2. \A k \in M :
          /\ step[k].obj \in draw_surface.undo
          /\ \E i \in (k + 1) .. 14 : FreesTemporary(step[i], step[k].obj)
    BY DrawSurfaceSteps, Fields DEF FreesTemporary, step, M
  <2>3. \A k \in J :
          /\ step[k].n \in Nat /\ k + step[k].n <= 14
          /\ \A i \in (k + 1) .. (k + step[k].n), o \in Temporaries :
                ~FreesTemporary(step[i], o)
    BY DrawSurfaceSteps, Fields DEF FreesTemporary, step, J
  <2>4. Len(step) = 14
    BY DrawSurfaceSteps DEF step
  <2> QED  BY <2>1, <2>2, <2>3, <2>4, ShownOrderly DEF step
<1>15. Orderly(iosurface_clear)
  <2> DEFINE step == iosurface_clear.steps
             M == {1, 5}
             J == {}
  <2> HIDE DEF step, M, J
  <2>1. \A k \in 1 .. 9 :
          /\ MakesTemporary(step[k]) => k \in M
          /\ step[k].do = "if" <=> k \in J
          /\ step[k].do # "undo"
    BY IosurfaceClearSteps, Fields, PartsListed DEF MakesTemporary, Temporaries, step,
       M, J
  <2>2. \A k \in M :
          /\ step[k].obj \in iosurface_clear.undo
          /\ \E i \in (k + 1) .. 9 : FreesTemporary(step[i], step[k].obj)
    BY IosurfaceClearSteps, Fields DEF FreesTemporary, step, M
  <2>3. \A k \in J :
          /\ step[k].n \in Nat /\ k + step[k].n <= 9
          /\ \A i \in (k + 1) .. (k + step[k].n), o \in Temporaries :
                ~FreesTemporary(step[i], o)
    BY IosurfaceClearSteps, Fields DEF FreesTemporary, step, J
  <2>4. Len(step) = 9
    BY IosurfaceClearSteps DEF step
  <2> QED  BY <2>1, <2>2, <2>3, <2>4, ShownOrderly DEF step
<1>16. Orderly(upload_pixels)
  <2> DEFINE step == upload_pixels.steps
             M == {1, 2, 4, 8}
             J == {}
  <2> HIDE DEF step, M, J
  <2>1. \A k \in 1 .. 12 :
          /\ MakesTemporary(step[k]) => k \in M
          /\ step[k].do = "if" <=> k \in J
          /\ step[k].do # "undo"
    BY UploadPixelsSteps, Fields, PartsListed DEF MakesTemporary, Temporaries, step, M,
       J
  <2>2. \A k \in M :
          /\ step[k].obj \in upload_pixels.undo
          /\ \E i \in (k + 1) .. 12 : FreesTemporary(step[i], step[k].obj)
    BY UploadPixelsSteps, Fields DEF FreesTemporary, step, M
  <2>3. \A k \in J :
          /\ step[k].n \in Nat /\ k + step[k].n <= 12
          /\ \A i \in (k + 1) .. (k + step[k].n), o \in Temporaries :
                ~FreesTemporary(step[i], o)
    BY UploadPixelsSteps, Fields DEF FreesTemporary, step, J
  <2>4. Len(step) = 12
    BY UploadPixelsSteps DEF step
  <2> QED  BY <2>1, <2>2, <2>3, <2>4, ShownOrderly DEF step
<1>17. Orderly(composite_over)
  <2> DEFINE step == composite_over.steps
             M == {1, 5}
             J == {}
  <2> HIDE DEF step, M, J
  <2>1. \A k \in 1 .. 8 :
          /\ MakesTemporary(step[k]) => k \in M
          /\ step[k].do = "if" <=> k \in J
          /\ step[k].do # "undo"
    BY CompositeOverSteps, Fields, PartsListed DEF MakesTemporary, Temporaries, step,
       M, J
  <2>2. \A k \in M :
          /\ step[k].obj \in composite_over.undo
          /\ \E i \in (k + 1) .. 8 : FreesTemporary(step[i], step[k].obj)
    BY CompositeOverSteps, Fields DEF FreesTemporary, step, M
  <2>3. \A k \in J :
          /\ step[k].n \in Nat /\ k + step[k].n <= 8
          /\ \A i \in (k + 1) .. (k + step[k].n), o \in Temporaries :
                ~FreesTemporary(step[i], o)
    BY CompositeOverSteps, Fields DEF FreesTemporary, step, J
  <2>4. Len(step) = 8
    BY CompositeOverSteps DEF step
  <2> QED  BY <2>1, <2>2, <2>3, <2>4, ShownOrderly DEF step
<1>18. Orderly(clear_image)
  <2> DEFINE step == clear_image.steps
             M == {5}
             J == {}
  <2> HIDE DEF step, M, J
  <2>1. \A k \in 1 .. 9 :
          /\ MakesTemporary(step[k]) => k \in M
          /\ step[k].do = "if" <=> k \in J
          /\ step[k].do # "undo"
    BY ClearImageSteps, Fields, PartsListed DEF MakesTemporary, Temporaries, step, M, J
  <2>2. \A k \in M :
          /\ step[k].obj \in clear_image.undo
          /\ \E i \in (k + 1) .. 9 : FreesTemporary(step[i], step[k].obj)
    BY ClearImageSteps, Fields DEF FreesTemporary, step, M
  <2>3. \A k \in J :
          /\ step[k].n \in Nat /\ k + step[k].n <= 9
          /\ \A i \in (k + 1) .. (k + step[k].n), o \in Temporaries :
                ~FreesTemporary(step[i], o)
    BY ClearImageSteps, Fields DEF FreesTemporary, step, J
  <2>4. Len(step) = 9
    BY ClearImageSteps DEF step
  <2> QED  BY <2>1, <2>2, <2>3, <2>4, ShownOrderly DEF step
<1>19. Orderly(present_surface)
  <2> DEFINE step == present_surface.steps
             M == {2, 3, 5, 9}
             J == {1}
  <2> HIDE DEF step, M, J
  <2>1. \A k \in 1 .. 14 :
          /\ MakesTemporary(step[k]) => k \in M
          /\ step[k].do = "if" <=> k \in J
          /\ step[k].do # "undo"
    BY PresentSurfaceSteps, Fields, PartsListed DEF MakesTemporary, Temporaries, step,
       M, J
  <2>2. \A k \in M :
          /\ step[k].obj \in present_surface.undo
          /\ \E i \in (k + 1) .. 14 : FreesTemporary(step[i], step[k].obj)
    BY PresentSurfaceSteps, Fields DEF FreesTemporary, step, M
  <2>3. \A k \in J :
          /\ step[k].n \in Nat /\ k + step[k].n <= 14
          /\ \A i \in (k + 1) .. (k + step[k].n), o \in Temporaries :
                ~FreesTemporary(step[i], o)
    BY PresentSurfaceSteps, Fields DEF FreesTemporary, step, J
  <2>4. Len(step) = 14
    BY PresentSurfaceSteps DEF step
  <2> QED  BY <2>1, <2>2, <2>3, <2>4, ShownOrderly DEF step
<1>20. Orderly(fill_texture_color)
  <2> DEFINE step == fill_texture_color.steps
             M == {1, 5}
             J == {}
  <2> HIDE DEF step, M, J
  <2>1. \A k \in 1 .. 8 :
          /\ MakesTemporary(step[k]) => k \in M
          /\ step[k].do = "if" <=> k \in J
          /\ step[k].do # "undo"
    BY FillTextureColorSteps, Fields, PartsListed DEF MakesTemporary, Temporaries,
       step, M, J
  <2>2. \A k \in M :
          /\ step[k].obj \in fill_texture_color.undo \/ \A i \in (k + 1) .. 8 : ~Fallible(step[i])
          /\ \E i \in (k + 1) .. 8 : FreesTemporary(step[i], step[k].obj)
    BY FillTextureColorSteps, Fields DEF FreesTemporary, step, M
  <2>3. \A k \in J :
          /\ step[k].n \in Nat /\ k + step[k].n <= 8
          /\ \A i \in (k + 1) .. (k + step[k].n), o \in Temporaries :
                ~FreesTemporary(step[i], o)
    BY FillTextureColorSteps, Fields DEF FreesTemporary, step, J
  <2>4. Len(step) = 8
    BY FillTextureColorSteps DEF step
  <2> QED  BY <2>1, <2>2, <2>3, <2>4, ShownOrderly DEF step
<1>21. Orderly(copy_texture_to_texture)
  <2> DEFINE step == copy_texture_to_texture.steps
             M == {1, 5}
             J == {}
  <2> HIDE DEF step, M, J
  <2>1. \A k \in 1 .. 8 :
          /\ MakesTemporary(step[k]) => k \in M
          /\ step[k].do = "if" <=> k \in J
          /\ step[k].do # "undo"
    BY CopyTextureToTextureSteps, Fields, PartsListed DEF MakesTemporary, Temporaries,
       step, M, J
  <2>2. \A k \in M :
          /\ step[k].obj \in copy_texture_to_texture.undo \/ \A i \in (k + 1) .. 8 : ~Fallible(step[i])
          /\ \E i \in (k + 1) .. 8 : FreesTemporary(step[i], step[k].obj)
    BY CopyTextureToTextureSteps, Fields DEF FreesTemporary, step, M
  <2>3. \A k \in J :
          /\ step[k].n \in Nat /\ k + step[k].n <= 8
          /\ \A i \in (k + 1) .. (k + step[k].n), o \in Temporaries :
                ~FreesTemporary(step[i], o)
    BY CopyTextureToTextureSteps, Fields DEF FreesTemporary, step, J
  <2>4. Len(step) = 8
    BY CopyTextureToTextureSteps DEF step
  <2> QED  BY <2>1, <2>2, <2>3, <2>4, ShownOrderly DEF step
<1>22. Orderly(submit_clear_color)
  <2> DEFINE step == submit_clear_color.steps
             M == {1, 5}
             J == {}
  <2> HIDE DEF step, M, J
  <2>1. \A k \in 1 .. 9 :
          /\ MakesTemporary(step[k]) => k \in M
          /\ step[k].do = "if" <=> k \in J
          /\ step[k].do # "undo"
    BY SubmitClearColorSteps, Fields, PartsListed DEF MakesTemporary, Temporaries,
       step, M, J
  <2>2. \A k \in M :
          /\ step[k].obj \in submit_clear_color.undo
          /\ \E i \in (k + 1) .. 9 : FreesTemporary(step[i], step[k].obj)
    BY SubmitClearColorSteps, Fields DEF FreesTemporary, step, M
  <2>3. \A k \in J :
          /\ step[k].n \in Nat /\ k + step[k].n <= 9
          /\ \A i \in (k + 1) .. (k + step[k].n), o \in Temporaries :
                ~FreesTemporary(step[i], o)
    BY SubmitClearColorSteps, Fields DEF FreesTemporary, step, J
  <2>4. Len(step) = 9
    BY SubmitClearColorSteps DEF step
  <2> QED  BY <2>1, <2>2, <2>3, <2>4, ShownOrderly DEF step
<1>23. Orderly(keep_pixels)
  BY Fields, PartsListed DEF Orderly, MakesTemporary, FreesTemporary, Temporaries,
     Site, keep_pixels
<1>24. Orderly(send_frame(1))
  <2> DEFINE step == send_frame(1).steps
             M == {6}
             J == {2, 8, 10}
  <2>1. /\ Len(step) = 18
        /\ step[1] = Set({"turn2"})
        /\ step[2] = [do |-> "if", obj |-> "slot1.busy", is |-> {TRUE}, n |-> 2]
        /\ step[3] = Wait("slot1.fence", "fail")
        /\ step[4] = Free({"slot1.busy"})
        /\ step[5] = Reset("slot1.fence")
        /\ step[6] = Make("out.cb")
        /\ step[7] = Try
        /\ step[8] = [do |-> "if", obj |-> "rt.wraps", is |-> {TRUE}, n |-> 1]
        /\ step[9] = Record(<<To("rt", "tracked", "src"), To("rt", "src", "color")>>, {Is("rt", "color")})
        /\ step[10] = [do |-> "if", obj |-> "rt.wraps", is |-> {FALSE}, n |-> 1]
        /\ step[11] = Record(<<To("frame", "color", "src"), To("frame", "src", "color")>>, {})
        /\ step[12] = Try
        /\ step[13] = Submit("slot1.fence", {"out.cb", "slot1.buf"})
        /\ step[14] = Set({"slot1.busy"})
        /\ step[15] = Wait("slot1.fence", "fail")
        /\ step[16] = Free({"slot1.busy"})
        /\ step[17] = Set({"frame.new"})
        /\ step[18] = Free({"out.cb"})
    BY DEF Site, send_frame, AwaitSlot, scanout_commands, SlotNames, If, IfNot,
       CommandBuffer
  <2>2. send_frame(1).undo = {"out.cb"}
    BY DEF Site, send_frame, DrawTemporaries
  <2> HIDE DEF step, M, J
  <2>3. \A k \in 1 .. 18 :
          /\ MakesTemporary(step[k]) => k \in M
          /\ step[k].do = "if" <=> k \in J
          /\ step[k].do # "undo"
    BY <2>1, Fields DEF MakesTemporary, M, J
  <2>4. \A k \in M :
          /\ step[k].obj \in send_frame(1).undo
          /\ \E i \in (k + 1) .. 18 : FreesTemporary(step[i], step[k].obj)
    BY <2>1, <2>2, Fields DEF FreesTemporary, M
  <2>5. \A k \in J :
          /\ step[k].n \in Nat /\ k + step[k].n <= 18
          /\ \A i \in (k + 1) .. (k + step[k].n), o \in Temporaries : ~FreesTemporary(step[i], o)
    BY <2>1, Fields DEF FreesTemporary, Temporaries, J
  <2>6. Len(step) = 18
    BY <2>1
  <2> QED  BY <2>3, <2>4, <2>5, <2>6, ShownOrderly DEF step
<1>25. Orderly(send_frame(2))
  <2> DEFINE step == send_frame(2).steps
             M == {6}
             J == {2, 8, 10}
  <2>1. /\ Len(step) = 18
        /\ step[1] = Free({"turn2"})
        /\ step[2] = [do |-> "if", obj |-> "slot2.busy", is |-> {TRUE}, n |-> 2]
        /\ step[3] = Wait("slot2.fence", "fail")
        /\ step[4] = Free({"slot2.busy"})
        /\ step[5] = Reset("slot2.fence")
        /\ step[6] = Make("out.cb")
        /\ step[7] = Try
        /\ step[8] = [do |-> "if", obj |-> "rt.wraps", is |-> {TRUE}, n |-> 1]
        /\ step[9] = Record(<<To("rt", "tracked", "src"), To("rt", "src", "color")>>, {Is("rt", "color")})
        /\ step[10] = [do |-> "if", obj |-> "rt.wraps", is |-> {FALSE}, n |-> 1]
        /\ step[11] = Record(<<To("frame", "color", "src"), To("frame", "src", "color")>>, {})
        /\ step[12] = Try
        /\ step[13] = Submit("slot2.fence", {"out.cb", "slot2.buf"})
        /\ step[14] = Set({"slot2.busy"})
        /\ step[15] = Wait("slot2.fence", "fail")
        /\ step[16] = Free({"slot2.busy"})
        /\ step[17] = Set({"frame.new"})
        /\ step[18] = Free({"out.cb"})
    BY DEF Site, send_frame, AwaitSlot, scanout_commands, SlotNames, If, IfNot,
       CommandBuffer
  <2>2. send_frame(2).undo = {"out.cb"}
    BY DEF Site, send_frame, DrawTemporaries
  <2> HIDE DEF step, M, J
  <2>3. \A k \in 1 .. 18 :
          /\ MakesTemporary(step[k]) => k \in M
          /\ step[k].do = "if" <=> k \in J
          /\ step[k].do # "undo"
    BY <2>1, Fields DEF MakesTemporary, M, J
  <2>4. \A k \in M :
          /\ step[k].obj \in send_frame(2).undo
          /\ \E i \in (k + 1) .. 18 : FreesTemporary(step[i], step[k].obj)
    BY <2>1, <2>2, Fields DEF FreesTemporary, M
  <2>5. \A k \in J :
          /\ step[k].n \in Nat /\ k + step[k].n <= 18
          /\ \A i \in (k + 1) .. (k + step[k].n), o \in Temporaries : ~FreesTemporary(step[i], o)
    BY <2>1, Fields DEF FreesTemporary, Temporaries, J
  <2>6. Len(step) = 18
    BY <2>1
  <2> QED  BY <2>3, <2>4, <2>5, <2>6, ShownOrderly DEF step
<1> QED  BY <1>1, <1>2, <1>3, <1>4, <1>5, <1>6, <1>7, <1>8, <1>9, <1>10, <1>11, <1>12,
  <1>13, <1>14, <1>15, <1>16, <1>17, <1>18, <1>19, <1>20, <1>21, <1>22, <1>23, <1>24,
  <1>25 DEF Sites, Builders

-----------------------------------------------------------------------------
(* A step, for the objects and the control. *)

\* The two ways a step ends: the call fails, frees its undo set and skips what depends
\* on it, or goes on.
Falls ==
    /\ alive' = alive \ cur.undo /\ at' = 0
    /\ \E n \in Nat : queue' = SubSeq(queue, 2 + n, Len(queue))
    /\ Fallible(Step)

Passes ==
    /\ queue' = queue
    /\ cur'.undo = IF Step.do = "undo" THEN Step.objs ELSE cur.undo
    /\ Step.do = "make" => alive' = alive \cup {Step.obj} \/ (~Step.must /\ alive' = alive)
    /\ Step.do = "set" => alive' = alive \cup Step.objs
    /\ Step.do = "free" => alive' = alive \ Step.objs
    /\ Step.do \notin {"make", "set", "free"} => alive' = alive
    /\ Step.do # "if" => at' = at + 1
    /\ Step.do = "if" =>
          \/ /\ at' = at + 1
             /\ Step.is = {TRUE} => Step.obj \in alive
             /\ Step.is = {FALSE} => Step.obj \notin alive
          \/ /\ at' = at + 1 + Step.n
             /\ Step.is = {TRUE} => Step.obj \notin alive
             /\ Step.is = {FALSE} => Step.obj \in alive

\* What a step of a script does to the objects and to the control.
LEMMA StepEffect ==
    ASSUME Shape, HostStep, ~(Enter \/ Leave)
    PROVE  /\ ~Idle /\ at \in 1 .. Len(Sites[queue[1]].steps) /\ queue[1] \in DOMAIN Sites
           /\ Falls \/ Passes
<1>1. ~Idle /\ at \in 1 .. Len(Sites[queue[1]].steps)
  BY DEF HostStep, MakeStep, TryStep, ResetStep, RecordStep, SubmitStep, WaitStep,
     WaitIdle, OtherStep, At
<1>2. queue[1] \in DOMAIN Sites
  BY <1>1 DEF Shape, Idle
<1>3. "undo" \in DOMAIN cur
  BY DEF Shape
<1>4. ASSUME Fail, Fallible(Step)
      PROVE  Falls
  BY <1>2, <1>4, SiteSkips DEF Fail, Falls, FreeNow, Return
<1>5. ASSUME MakeStep PROVE Falls \/ Passes
  BY <1>3, <1>4, <1>5 DEF MakeStep, At, Passes, Advance, NoEffect, Fallible
<1>6. ASSUME TryStep PROVE Falls \/ Passes
  BY <1>3, <1>4, <1>6 DEF TryStep, At, Passes, Advance, NoEffect, Fallible
<1>7. ASSUME ResetStep PROVE Falls \/ Passes
  BY <1>3, <1>4, <1>7 DEF ResetStep, At, Passes, Advance, NoEffect, Fallible
<1>8. ASSUME RecordStep PROVE Falls \/ Passes
  BY <1>3, <1>8 DEF RecordStep, At, Passes, Advance, NoEffect
<1>9. ASSUME SubmitStep PROVE Falls \/ Passes
  BY <1>3, <1>4, <1>9 DEF SubmitStep, At, Passes, Advance, NoEffect, Fallible
<1>10. ASSUME WaitStep PROVE Falls \/ Passes
  BY <1>3, <1>4, <1>10 DEF WaitStep, At, Passes, Advance, NoEffect, Fallible
<1>11. ASSUME WaitIdle PROVE Falls \/ Passes
  BY <1>4, <1>11 DEF WaitIdle, At, Fallible
<1>12. ASSUME OtherStep PROVE Falls \/ Passes
  <2>1. CASE At("free") /\ FreeNow(Step.objs) /\ Advance /\ UNCHANGED cur
    BY <1>3, <2>1 DEF At, Passes, Advance, FreeNow
  <2>2. CASE At("set") /\ alive' = alive \cup Step.objs /\ Advance /\ UNCHANGED <<cur, early, gpu>>
    BY <1>3, <2>2 DEF At, Passes, Advance
  <2>3. CASE At("undo") /\ cur' = [cur EXCEPT !.undo = Step.objs] /\ Advance /\ NoEffect
    BY <1>3, <2>3 DEF At, Passes, Advance, NoEffect, Fallible
  <2>4. CASE /\ At("if") /\ NoEffect /\ UNCHANGED <<cur, queue>>
             /\ \E b \in BOOLEAN :
                   /\ Step.is # {} => b = ((Step.obj \in alive) \in Step.is)
                   /\ at' = IF b THEN at + 1 ELSE at + 1 + Step.n
    <3>1. PICK b \in BOOLEAN : /\ Step.is # {} => b = ((Step.obj \in alive) \in Step.is)
                               /\ at' = IF b THEN at + 1 ELSE at + 1 + Step.n
      BY <2>4
    <3>2. CASE b
      <4>1. at' = at + 1
        BY <3>1, <3>2, Zenon
      <4>2. Step.is # {} => (Step.obj \in alive) \in Step.is
        BY <3>1, <3>2, Zenon
      <4>3. Step.is = {TRUE} => Step.obj \in alive
        BY <4>2, Zenon
      <4>4. Step.is = {FALSE} => Step.obj \notin alive
        BY <4>2, Zenon
      <4> QED  BY <1>3, <2>4, <4>1, <4>3, <4>4 DEF At, Passes, NoEffect
    <3>3. CASE ~b
      <4>1. at' = at + 1 + Step.n
        BY <3>1, <3>3, Zenon
      <4>2. Step.is # {} => ~((Step.obj \in alive) \in Step.is)
        BY <3>1, <3>3, Zenon
      <4>3. Step.is = {TRUE} => Step.obj \notin alive
        BY <4>2, Zenon
      <4>4. ASSUME Step.is = {FALSE}, Step.obj \notin alive PROVE FALSE
        <5>1. (Step.obj \in alive) = FALSE
          BY <4>4
        <5>2. (Step.obj \in alive) \in {FALSE}
          BY <5>1, Zenon
        <5> QED  BY <4>2, <4>4, <5>2, Zenon
      <4> QED  BY <1>3, <2>4, <4>1, <4>3, <4>4 DEF At, Passes, NoEffect
    <3> QED  BY <3>2, <3>3
  <2> QED  BY <1>12, <2>1, <2>2, <2>3, <2>4 DEF OtherStep
<1> QED  BY <1>1, <1>2, <1>5, <1>6, <1>7, <1>8, <1>9, <1>10, <1>11, <1>12 DEF HostStep

\* The groups of objects do not overlap.
LEMMA Apart ==
    /\ Parts \cap (CompositeObjects \cup RenderTarget \cup Surface \cup RingParts \cup {"device", "display", "frame.new"}) = {}
    /\ CompositeObjects \cap (RenderTarget \cup Surface \cup RingParts \cup {"device", "display", "frame.new"}) = {}
    /\ RenderTarget \cap (Surface \cup RingParts \cup {"device", "display", "frame.new"}) = {}
    /\ Surface \cap (RingParts \cup {"device", "display", "frame.new"}) = {}
    /\ RingParts \cap {"device", "display", "frame.new"} = {}
    /\ SlotFlags \subseteq RingParts /\ "ring" \in RingParts /\ "ring" \notin SlotParts \cup SlotFlags
    /\ "comp.ready" \in CompositeObjects /\ "rt.ready" \in RenderTarget
    /\ "surf.view" \in Surface /\ "surf.image" \in Surface /\ "messenger" \in Parts
BY PartsListed DEF CompositeObjects, RenderTarget, Surface, RingParts, SlotParts,
   SlotFlags, SlotObjects, SlotNames

\* What may come and go without upsetting the rest.
LEMMA CleanSteps ==
    ASSUME NEW A, Clean(A)
    PROVE  /\ \A D \in SUBSET Parts : Clean(A \ D)
           /\ \A D \in SUBSET Parts : "device" \in A => Clean(A \cup D)
           /\ Clean(A \ {"frame.new"})
           /\ "display" \in A => Clean(A \cup {"frame.new"})
           /\ \A D \in SUBSET SlotFlags : "ring" \in A => Clean(A \cup D) /\ Clean(A \ D)
           /\ "rt.ready" \in A \/ "ring" \in A => "display" \in A
           /\ A # {} /\ A # {"messenger"} => "device" \in A
<1>1. A \subseteq Kept /\ ("device" \notin A => A \subseteq {"messenger"})
  BY DEF Clean
<1>2. /\ Whole(A, CompositeObjects, "comp.ready") /\ Whole(A, RingParts, "ring")
      /\ Whole(A, Surface, "surf.view") /\ Whole(A, RenderTarget, "rt.ready")
      /\ Whole(A, RenderTarget \cup RingParts \cup {"frame.new"}, "display")
      /\ "surf.view" \in A => "surf.image" \in A
  BY DEF Clean
<1>3. ASSUME NEW D \in SUBSET Parts PROVE Clean(A \ D)
  BY <1>1, <1>2, Apart DEF Clean, Whole
<1>4. ASSUME NEW D \in SUBSET Parts, "device" \in A PROVE Clean(A \cup D)
  BY <1>1, <1>2, <1>4, Apart DEF Clean, Whole, Kept
<1>5. Clean(A \ {"frame.new"})
  BY <1>1, <1>2, Apart DEF Clean, Whole
<1>6. "rt.ready" \in A \/ "ring" \in A => "display" \in A
  BY <1>2, Apart DEF Whole
<1>7. A # {} /\ A # {"messenger"} => "device" \in A
  BY <1>1
<1>8. ASSUME "display" \in A PROVE Clean(A \cup {"frame.new"})
  BY <1>1, <1>2, <1>7, <1>8, Apart DEF Clean, Whole, Kept
<1>9. ASSUME NEW D \in SUBSET SlotFlags, "ring" \in A PROVE Clean(A \cup D) /\ Clean(A \ D)
  BY <1>1, <1>2, <1>6, <1>7, <1>9, Apart DEF Clean, Whole, Kept
<1> QED  BY <1>3, <1>4, <1>5, <1>6, <1>7, <1>8, <1>9

\* A function that is not a builder: what is not its own is clean, and what it made for
\* itself and did not free is what it has made so far.
Tidying(s) ==
    /\ Clean(alive \ Temporaries)
    /\ Sites[s].needs \subseteq alive
    /\ cur.undo \subseteq Temporaries \cup Parts
    /\ Sites[s].undo \cap Temporaries \subseteq cur.undo
    /\ \A o \in alive \cap Temporaries : \E j \in 1 .. (at - 1) :
          /\ MakesTemporary(Sites[s].steps[j]) /\ Sites[s].steps[j].obj = o
          /\ \A i \in (j + 1) .. (at - 1) : ~FreesTemporary(Sites[s].steps[i], o)

\* Neither do the temporaries and what a tidy script may touch beside them.
LEMMA TidyApart ==
    /\ Parts \cap Temporaries = {} /\ "frame.new" \notin Temporaries /\ "display" \notin Temporaries
    /\ SlotFlags \cap Temporaries = {} /\ "device" \notin Temporaries
    /\ "rt.ready" \notin Temporaries /\ "ring" \notin Temporaries
    /\ "display" \notin Parts \cup {"frame.new"} \cup SlotFlags
BY PartsListed DEF Temporaries, SlotFlags

\* A tidy function that fails leaves nothing behind.
LEMMA TidyFalls ==
    ASSUME Shape, HostStep, ~(Enter \/ Leave), queue[1] \notin Builders, Tidying(queue[1]), Falls
    PROVE  Clean(alive') /\ ("display" \in alive => "display" \in alive')
<1> DEFINE s == queue[1]
           step == Sites[s].steps
           A == alive \ Temporaries
<1>1. at \in 1 .. Len(step) /\ s \in DOMAIN Sites
  BY StepEffect
<1>2. Orderly(Sites[s]) /\ Fallible(Step)
  BY <1>1, OrderlyScripts DEF Falls
<1>3. alive \cap Temporaries \subseteq cur.undo
  <2> SUFFICES ASSUME NEW o \in alive \cap Temporaries PROVE o \in cur.undo
    OBVIOUS
  <2>1. PICK j \in 1 .. (at - 1) : MakesTemporary(step[j]) /\ step[j].obj = o
    BY DEF Tidying
  <2>2. j \in 1 .. Len(step) /\ at \in (j + 1) .. Len(step)
    BY <1>1, <1>2, <2>1 DEF Orderly
  <2>3. o \in Sites[s].undo \/ \A i \in (j + 1) .. Len(step) : ~Fallible(step[i])
    BY <1>2, <2>1, <2>2 DEF Orderly
  <2> QED  BY <1>2, <2>2, <2>3 DEF Tidying, Step
<1>4. alive' = alive \ cur.undo /\ cur.undo \subseteq Temporaries \cup Parts
  BY DEF Falls, Tidying
<1> DEFINE D == cur.undo \cap Parts
<1>5. alive' = A \ D /\ D \in SUBSET Parts
  BY <1>3, <1>4, TidyApart
<1>6. Clean(A)
  BY DEF Tidying
<1> HIDE DEF A, D
<1>7. Clean(A \ D)
  BY <1>5, <1>6, CleanSteps
<1> QED  BY <1>4, <1>5, <1>7, TidyApart

\* A tidy function that goes on keeps its account of what it made.
LEMMA TidyPasses ==
    ASSUME Shape, HostStep, ~(Enter \/ Leave), queue[1] \notin Builders, Tidying(queue[1]), Passes
    PROVE  Tidying(queue[1])' /\ ("display" \in alive => "display" \in alive')
<1> DEFINE s == queue[1]
           step == Sites[s].steps
           A == alive \ Temporaries
           N == Sites[s].needs
<1>1. at \in 1 .. Len(step) /\ s \in DOMAIN Sites
  BY StepEffect
<1>2. Orderly(Sites[s]) /\ TidySite(Sites[s])
  BY <1>1, OrderlyScripts, TidyScripts
<1>3. /\ Tidy(Step, N) /\ Step = step[at] /\ Len(step) \in Nat
      /\ N # {} /\ N \cap (Temporaries \cup {"frame.new", "messenger"} \cup SlotFlags) = {}
  BY <1>1, <1>2 DEF TidySite, Step, Orderly
<1>4. Clean(A) /\ N \subseteq A
  BY <1>3 DEF Tidying
<1>5. "device" \in A /\ (N \cap {"rt.ready", "ring"} # {} => "display" \in A)
  BY <1>3, <1>4, CleanSteps
<1> DEFINE B == alive' \ Temporaries
<1>6. Clean(B) /\ N \subseteq alive' /\ ("display" \in alive => "display" \in alive')
  <2>1. CASE Step.do = "make"
    <3>1. Step.obj \in Temporaries \cup Parts /\ (alive' = alive \cup {Step.obj} \/ alive' = alive)
      BY <1>3, <2>1 DEF Tidy, Passes
    <3>2. B = A \/ (B = A \cup {Step.obj} /\ {Step.obj} \in SUBSET Parts)
      BY <3>1, TidyApart
    <3> HIDE DEF A, B
    <3>3. Clean(B)
      BY <1>4, <1>5, <3>2, CleanSteps
    <3> QED  BY <1>4, <3>1, <3>3 DEF A
  <2>2. CASE Step.do = "set"
    <3>1. /\ Step.objs \subseteq {"frame.new"} \cup SlotFlags /\ "display" \in A
          /\ Step.objs \cap SlotFlags # {} => "ring" \in A
          /\ alive' = alive \cup Step.objs
      BY <1>3, <1>4, <1>5, <2>2 DEF Tidy, Passes
    <3> DEFINE F == Step.objs \cap SlotFlags
               C == A \cup F
    <3>2. B = C \/ B = C \cup {"frame.new"}
      BY <3>1, TidyApart
    <3> HIDE DEF A, B
    <3>3. Clean(C) /\ "display" \in C
      <4>1. CASE F = {}
        BY <1>4, <3>1, <4>1
      <4>2. CASE F # {}
        BY <1>4, <3>1, <4>2, CleanSteps
      <4> QED  BY <4>1, <4>2
    <3> HIDE DEF F, C
    <3>4. Clean(B)
      BY <3>2, <3>3, CleanSteps
    <3> QED  BY <1>4, <3>1, <3>4 DEF A
  <2>3. CASE Step.do = "free"
    <3>1. /\ Step.objs \subseteq Temporaries \cup {"frame.new"} \cup SlotFlags
          /\ Step.objs \cap SlotFlags # {} => "ring" \in A
          /\ alive' = alive \ Step.objs
      BY <1>3, <1>4, <2>3 DEF Tidy, Passes
    <3> DEFINE F == Step.objs \cap SlotFlags
               C == A \ F
    <3>2. B = C \/ B = C \ {"frame.new"}
      BY <3>1, TidyApart
    <3>20. N \subseteq alive' /\ ("display" \in alive => "display" \in alive')
      BY <1>3, <1>4, <3>1, TidyApart
    <3> HIDE DEF A, B
    <3>3. Clean(C)
      <4>1. CASE F = {}
        BY <1>4, <3>1, <4>1
      <4>2. CASE F # {}
        BY <1>4, <3>1, <4>2, CleanSteps
      <4> QED  BY <4>1, <4>2
    <3> HIDE DEF F, C
    <3>4. Clean(B)
      BY <3>2, <3>3, CleanSteps
    <3> QED  BY <3>20, <3>4
  <2>4. CASE Step.do \notin {"make", "set", "free"}
    BY <1>4, <2>4 DEF Passes
  <2> QED  BY <2>1, <2>2, <2>3, <2>4
<1>7. /\ cur'.undo \subseteq Temporaries \cup Parts
      /\ Sites[s].undo \cap Temporaries \subseteq cur'.undo
  BY <1>1, <1>2, <1>3 DEF Passes, Tidying, Tidy, Orderly
<1>8. ASSUME NEW o \in alive' \cap Temporaries
      PROVE  \E j \in 1 .. (at' - 1) :
                /\ MakesTemporary(step[j]) /\ step[j].obj = o
                /\ \A i \in (j + 1) .. (at' - 1) : ~FreesTemporary(step[i], o)
  <2>1. CASE o \notin alive
    <3>1. Step.do = "make" /\ Step.obj = o /\ at' = at + 1
      <4>1. Step.do = "set" => o \notin Step.objs
        BY <1>3, TidyApart DEF Tidy
      <4> QED  BY <2>1, <4>1 DEF Passes
    <3>2. MakesTemporary(step[at]) /\ step[at].obj = o
      BY <1>3, <3>1 DEF MakesTemporary
    <3> QED  BY <1>1, <3>1, <3>2
  <2>2. CASE o \in alive
    <3>1. PICK j \in 1 .. (at - 1) :
             /\ MakesTemporary(step[j]) /\ step[j].obj = o
             /\ \A i \in (j + 1) .. (at - 1) : ~FreesTemporary(step[i], o)
      BY <2>2 DEF Tidying
    <3>2. ~FreesTemporary(step[at], o)
      BY <1>3 DEF FreesTemporary, Passes
    <3>3. \E n \in Nat : /\ at' = at + 1 + n
                         /\ \A i \in (at + 1) .. (at + n) : ~FreesTemporary(step[i], o)
      <4>1. CASE at' = at + 1
        BY <1>1, <4>1
      <4>2. CASE Step.do = "if" /\ at' = at + 1 + Step.n
        BY <1>1, <1>2, <1>3, <4>2 DEF Orderly
      <4> QED  BY <4>1, <4>2 DEF Passes
    <3>4. j \in 1 .. (at' - 1) /\ \A i \in (j + 1) .. (at' - 1) : ~FreesTemporary(step[i], o)
      <4>1. PICK n \in Nat : /\ at' = at + 1 + n
                             /\ \A i \in (at + 1) .. (at + n) : ~FreesTemporary(step[i], o)
        BY <3>3
      <4>2. at \in Nat /\ j \in Nat /\ j < at
        BY <1>1, <1>3
      <4>3. ASSUME NEW i \in (j + 1) .. (at' - 1) PROVE ~FreesTemporary(step[i], o)
        <5>1. i \in (j + 1) .. (at - 1) \/ i = at \/ i \in (at + 1) .. (at + n)
          BY <4>1, <4>2
        <5> QED  BY <3>1, <3>2, <4>1, <5>1
      <4> QED  BY <4>1, <4>2, <4>3
    <3> QED  BY <3>1, <3>4
  <2> QED  BY <2>1, <2>2
<1>9. queue'[1] = s
  BY DEF Passes
<1> QED  BY <1>6, <1>7, <1>8, <1>9 DEF Tidying

-----------------------------------------------------------------------------
(* The functions that build. *)

\* A builder, by position: what it has built is apart from a clean rest until the step
\* that makes it whole.
Building(s) ==
    /\ cur.undo = Sites[s].undo
    /\ s = "vk_init" =>
          /\ alive \subseteq {"instance", "messenger", "device", "pool"}
          /\ at \in 5 .. 7 => "device" \in alive
    /\ s = "vk_shutdown" =>
          /\ at = 1 => Clean(alive) /\ {"display", "surf.image"} \cap alive = {}
          /\ at = 2 => alive \subseteq {"pool", "clear.cb", "device", "messenger", "instance"}
          /\ at = 3 => alive = {}
    /\ s = "render_target_create" =>
          /\ at \in 1 .. 5 => /\ Clean(alive \ {"rt.image", "rt.mem", "rt.view"})
                              /\ {"display", "device"} \subseteq alive
                              /\ "rt.ready" \notin alive /\ (at # 5 => "rt.view" \notin alive)
          /\ at \in 6 .. 7 => Clean(alive)
    /\ s = "render_target_wrap" => Clean(alive) /\ "display" \in alive
    /\ s = "iosurface_create" =>
          /\ at \in 1 .. 4 => /\ Clean(alive \ {"surf.image", "surf.mem"})
                              /\ "surf.view" \notin alive /\ "device" \in alive
                              /\ at # 1 => "surf.image" \in alive
          /\ at \in 5 .. 6 => Clean(alive)
    /\ s = "iosurface_destroy" => Clean(alive)
    /\ s = "composite_ensure" =>
          /\ at \in {1, 12} => Clean(alive)
          /\ at \in 2 .. 11 => /\ Clean(alive \ (CompositeObjects \cup {"comp.vs", "comp.fs"}))
                               /\ "comp.ready" \notin alive
          /\ at = 11 => {"comp.vs", "comp.fs"} \cap alive = {}
          /\ "device" \in alive
    /\ s = "staging_ring_ensure" =>
          /\ at \in {1, 13} => Clean(alive)
          /\ at \in 2 .. 12 => Clean(alive \ SlotParts) /\ "ring" \notin alive
          /\ "display" \in alive
    /\ s = "display_free" =>
          /\ Clean(alive)
          /\ at = 6 => RingParts \cap alive = {}

\* A step of a script goes well.
Goes(s) ==
    /\ \/ Falls /\ Clean(alive')
       \/ Passes /\ Building(s)'
    /\ "display" \in alive /\ s # "display_free" => "display" \in alive'

\* The function goes on to its next step.
Moves(objects) == alive' = objects /\ at' = at + 1 /\ cur'.undo = cur.undo

\* What going on means for each kind of step.
LEMMA PassKinds ==
    ASSUME Passes
    PROVE  /\ \A o : Step = Make(o) => Moves(alive \cup {o})
           /\ \A o : Step = MakeOpt(o) => Moves(alive) \/ Moves(alive \cup {o})
           /\ Step = Try => Moves(alive)
           /\ \A t : Step = Track(t) => Moves(alive)
           /\ \A f, l : Step = Wait(f, l) => Moves(alive)
           /\ \A S : Step = Free(S) => Moves(alive \ S)
           /\ \A S : Step = Set(S) => Moves(alive \cup S)
           /\ \A o, n : Step = [do |-> "if", obj |-> o, is |-> {FALSE}, n |-> n] =>
                 /\ alive' = alive /\ cur'.undo = cur.undo
                 /\ (at' = at + 1 /\ o \notin alive) \/ (at' = at + 1 + n /\ o \in alive)
           /\ \A o, n : Step = [do |-> "if", obj |-> o, is |-> {TRUE}, n |-> n] =>
                 alive' = alive /\ cur'.undo = cur.undo /\ at' \in {at + 1, at + 1 + n}
<1>1. /\ \A o : Make(o).must /\ ~MakeOpt(o).must
  BY DEF Make, MakeOpt
<1>2. /\ \A o : Step = Make(o) => Moves(alive \cup {o})
      /\ \A o : Step = MakeOpt(o) => Moves(alive) \/ Moves(alive \cup {o})
      /\ Step = Try => Moves(alive)
      /\ \A t : Step = Track(t) => Moves(alive)
      /\ \A f, l : Step = Wait(f, l) => Moves(alive)
      /\ \A S : Step = Free(S) => Moves(alive \ S)
  BY <1>1, Fields DEF Passes, Moves
<1>3. \A S : Step = Set(S) => Moves(alive \cup S)
  BY DEF Passes, Set, Moves
<1>4. ASSUME NEW o, NEW n, Step = [do |-> "if", obj |-> o, is |-> {FALSE}, n |-> n]
      PROVE  /\ alive' = alive /\ cur'.undo = cur.undo
             /\ (at' = at + 1 /\ o \notin alive) \/ (at' = at + 1 + n /\ o \in alive)
  <2>1. Step.do = "if" /\ Step.obj = o /\ Step.is = {FALSE} /\ Step.n = n
    BY <1>4
  <2> QED  BY <2>1 DEF Passes
<1>5. ASSUME NEW o, NEW n, Step = [do |-> "if", obj |-> o, is |-> {TRUE}, n |-> n]
      PROVE  alive' = alive /\ cur'.undo = cur.undo /\ at' \in {at + 1, at + 1 + n}
  <2>1. Step.do = "if" /\ Step.obj = o /\ Step.n = n
    BY <1>5
  <2> QED  BY <2>1 DEF Passes
<1> QED  BY <1>2, <1>3, <1>4, <1>5

\* Steps that cannot end the function.
LEMMA SureKinds ==
    ASSUME Falls \/ Passes
    PROVE  /\ \A t : Step = Track(t) => Passes
           /\ \A f : Step = Wait(f, "ignore") => Passes
           /\ \A S : Step = Free(S) \/ Step = Set(S) => Passes
           /\ \A o, B, n : Step = [do |-> "if", obj |-> o, is |-> B, n |-> n] => Passes
<1>1. \A o, B, n : ~Fallible([do |-> "if", obj |-> o, is |-> B, n |-> n])
  BY DEF Fallible
<1> QED  BY <1>1, Fields DEF Falls

\* What completes an object that is made in several steps.
LEMMA Completed ==
    ASSUME NEW A, "device" \in A
    PROVE  /\ Clean(A \ {"surf.image", "surf.mem"}) /\ "surf.image" \in A => Clean(A \cup {"surf.view"})
           /\ Clean(A \ {"rt.image", "rt.mem", "rt.view"}) /\ "display" \in A => Clean(A \cup {"rt.ready"})
           /\ Clean(A \ SlotParts) /\ "display" \in A => Clean(A \cup {"ring"})
           /\ Clean(A \ (CompositeObjects \cup {"comp.vs", "comp.fs"})) /\ {"comp.vs", "comp.fs"} \cap A = {}
                 => Clean(A \cup {"comp.ready"})
<1>1. ASSUME NEW G, Clean(A \ G)
      PROVE  /\ A \ G \subseteq Kept
             /\ Whole(A \ G, CompositeObjects, "comp.ready") /\ Whole(A \ G, RingParts, "ring")
             /\ Whole(A \ G, Surface, "surf.view") /\ Whole(A \ G, RenderTarget, "rt.ready")
             /\ Whole(A \ G, RenderTarget \cup RingParts \cup {"frame.new"}, "display")
             /\ "surf.view" \in A \ G => "surf.image" \in A \ G
  BY <1>1 DEF Clean
<1>2. ASSUME Clean(A \ {"surf.image", "surf.mem"}), "surf.image" \in A PROVE Clean(A \cup {"surf.view"})
  <2> DEFINE G == {"surf.image", "surf.mem"}
  <2>1. G \subseteq Surface
    BY DEF Surface
  <2> HIDE DEF G
  <2> QED  BY <1>1, <1>2, <2>1, Apart DEF Clean, Whole, Kept, G
<1>3. ASSUME Clean(A \ {"rt.image", "rt.mem", "rt.view"}), "display" \in A PROVE Clean(A \cup {"rt.ready"})
  <2> DEFINE G == {"rt.image", "rt.mem", "rt.view"}
  <2>1. G \subseteq RenderTarget
    BY DEF RenderTarget
  <2> HIDE DEF G
  <2> QED  BY <1>1, <1>3, <2>1, Apart DEF Clean, Whole, Kept, G
<1>4. ASSUME Clean(A \ SlotParts), "display" \in A PROVE Clean(A \cup {"ring"})
  <2>1. SlotParts \subseteq RingParts
    BY DEF RingParts
  <2> QED  BY <1>1, <1>4, <2>1, Apart DEF Clean, Whole, Kept
<1>5. ASSUME Clean(A \ (CompositeObjects \cup {"comp.vs", "comp.fs"})), {"comp.vs", "comp.fs"} \cap A = {}
      PROVE  Clean(A \cup {"comp.ready"})
  <2>1. A \ (CompositeObjects \cup {"comp.vs", "comp.fs"}) = A \ CompositeObjects
    BY <1>5
  <2>2. Clean(A \ CompositeObjects)
    BY <1>5, <2>1
  <2> QED  BY <1>1, <2>2, Apart DEF Clean, Whole, Kept
<1> QED  BY <1>2, <1>3, <1>4, <1>5

\* vk_init: its script, and a step of it.
LEMMA InitSteps ==
    LET step == Sites["vk_init"].steps
    IN  /\ Len(step) = 6 /\ Sites["vk_init"].undo = {"instance", "device", "pool"}
        /\ step[1] = Make("instance") /\ step[2] = MakeOpt("messenger") /\ step[3] = Try
        /\ step[4] = Make("device") /\ step[5] = Try /\ step[6] = Make("pool")
<1>1. Sites["vk_init"] = vk_init
  BY DEF Sites
<1> QED  BY <1>1 DEF vk_init, Site, create_instance, create_messenger,
  pick_physical_device, create_device

LEMMA InitStep ==
    ASSUME Shape, HostStep, ~(Enter \/ Leave), queue[1] = "vk_init", Building("vk_init")
    PROVE  Goes("vk_init")
<1>1. at \in 1 .. 6 /\ (Falls \/ Passes) /\ Step = Sites["vk_init"].steps[at]
  BY StepEffect, InitSteps DEF Step
<1>2. /\ alive \subseteq {"instance", "messenger", "device", "pool"}
      /\ at \in 5 .. 7 => "device" \in alive
      /\ cur.undo = {"instance", "device", "pool"}
  BY InitSteps DEF Building
<1>3. CASE Falls
  <2>1. alive' \subseteq {"messenger"}
    BY <1>2, <1>3 DEF Falls
  <2>2. "messenger" \in Kept
    BY Apart DEF Kept
  <2>3. Clean(alive')
    BY <2>1, <2>2, Apart DEF Clean, Whole
  <2> QED  BY <1>2, <1>3, <2>3 DEF Goes
<1>4. CASE Passes
  <2>1. /\ at' = at + 1 /\ cur'.undo = cur.undo
        /\ alive' \subseteq {"instance", "messenger", "device", "pool"}
        /\ at = 4 => "device" \in alive'
        /\ alive \subseteq alive'
    <3>1. Step \in {Make("instance"), MakeOpt("messenger"), Try, Make("device"), Make("pool")}
          /\ (at = 4 => Step = Make("device"))
      BY <1>1, InitSteps
    <3>2. \E o \in {"instance", "messenger", "device", "pool"} : Moves(alive) \/ Moves(alive \cup {o})
      BY <1>4, <3>1, PassKinds
    <3>3. at = 4 => Moves(alive \cup {"device"})
      BY <1>4, <3>1, PassKinds
    <3> QED  BY <1>2, <3>2, <3>3 DEF Moves
  <2> QED  BY <1>1, <1>2, <1>4, <2>1, InitSteps DEF Goes, Building
<1> QED  BY <1>1, <1>3, <1>4

\* vk_shutdown frees the parts, then the device.
LEMMA ShutdownSteps ==
    LET step == Sites["vk_shutdown"].steps
    IN  /\ Len(step) = 2 /\ Sites["vk_shutdown"].undo = {}
        /\ step[1] = Free({"empty.layout"} \cup CompositeObjects \cup PipelineShutdown)
        /\ step[2] = Free({"pool", "clear.cb", "device", "messenger", "instance"})
<1>1. Sites["vk_shutdown"] = vk_shutdown
  BY DEF Sites
<1> QED  BY <1>1 DEF vk_shutdown, Site

LEMMA ShutdownStep ==
    ASSUME Shape, HostStep, ~(Enter \/ Leave), queue[1] = "vk_shutdown", Building("vk_shutdown")
    PROVE  Goes("vk_shutdown")
<1>1. at \in 1 .. 2 /\ (Falls \/ Passes) /\ Step = Sites["vk_shutdown"].steps[at]
  BY StepEffect, ShutdownSteps DEF Step
<1>2. CASE at = 1
  <2> DEFINE S == {"empty.layout"} \cup CompositeObjects \cup PipelineShutdown
  <2>1. Step = Free(S)
    BY <1>1, <1>2, ShutdownSteps
  <2> HIDE DEF S
  <2>9. Passes
    BY <1>1, <2>1, SureKinds
  <2>2. Passes /\ alive' = alive \ S /\ at' = 2 /\ cur'.undo = cur.undo
    <3>1. Moves(alive \ S)
      BY <2>1, <2>9, PassKinds
    <3> QED  BY <1>2, <2>9, <3>1 DEF Moves
  <2>3. Clean(alive) /\ {"display", "surf.image"} \cap alive = {}
    BY <1>2 DEF Building
  <2>4. alive \subseteq Parts \cup {"device"} \cup CompositeObjects
    BY <2>3, Apart DEF Clean, Whole, Kept
  <2>5. Parts \cup {"device"} \cup CompositeObjects \subseteq S \cup {"pool", "clear.cb", "device", "messenger", "instance"}
    BY DEF Parts, S
  <2> QED  BY <2>2, <2>3, <2>4, <2>5 DEF Goes, Building
<1>3. CASE at = 2
  <2>1. Step = Free({"pool", "clear.cb", "device", "messenger", "instance"})
    BY <1>1, <1>3, ShutdownSteps
  <2>9. Passes
    BY <1>1, <2>1, SureKinds
  <2>2. Passes /\ alive' = alive \ {"pool", "clear.cb", "device", "messenger", "instance"} /\ at' = 3 /\ cur'.undo = cur.undo
    <3>1. Moves(alive \ {"pool", "clear.cb", "device", "messenger", "instance"})
      BY <2>1, <2>9, PassKinds
    <3> QED  BY <1>3, <2>9, <3>1 DEF Moves
  <2>3. alive \subseteq {"pool", "clear.cb", "device", "messenger", "instance"}
    BY <1>3 DEF Building
  <2>4. alive' = {} /\ "display" \notin alive
    BY <2>2, <2>3
  <2> QED  BY <2>2, <2>4 DEF Goes, Building
<1> QED  BY <1>1, <1>2, <1>3

\* render_target_create: the flag comes after the image, its memory and its view.
LEMMA CreateSteps ==
    LET step == Sites["render_target_create"].steps
    IN  /\ Len(step) = 6 /\ Sites["render_target_create"].undo = {"rt.image", "rt.mem"}
        /\ step[1] = Make("rt.image") /\ step[2] = Make("rt.mem") /\ step[3] = Try
        /\ step[4] = Make("rt.view") /\ step[5] = Set({"rt.ready"}) /\ step[6] = Track({Is("rt", "undef")})
<1>1. Sites["render_target_create"] = render_target_create
  BY DEF Sites
<1> QED  BY <1>1 DEF render_target_create, Site

LEMMA CreateStep ==
    ASSUME Shape, HostStep, ~(Enter \/ Leave), queue[1] = "render_target_create",
           Building("render_target_create")
    PROVE  Goes("render_target_create")
<1> DEFINE G == {"rt.image", "rt.mem", "rt.view"}
<1>1. at \in 1 .. 6 /\ (Falls \/ Passes) /\ Step = Sites["render_target_create"].steps[at]
  BY StepEffect, CreateSteps DEF Step
<1>2. /\ cur.undo = {"rt.image", "rt.mem"}
      /\ at \in 1 .. 5 => /\ Clean(alive \ G)
                          /\ {"display", "device"} \subseteq alive
                          /\ "rt.ready" \notin alive /\ (at # 5 => "rt.view" \notin alive)
      /\ at = 6 => Clean(alive)
  BY CreateSteps DEF Building
<1>3. CASE at \in 1 .. 4
  <2>1. Step \in {Make("rt.image"), Make("rt.mem"), Try, Make("rt.view")} /\ (Step = Make("rt.view") => at = 4)
    <3>1. Step \in {Make("rt.image"), Make("rt.mem"), Try} \/ (at = 4 /\ Step = Make("rt.view"))
      BY <1>1, <1>3, CreateSteps
    <3>2. Step.do = "make" => Step.obj \in G
      BY <3>1, Fields
    <3>3. Make("rt.view") \notin {Make("rt.image"), Make("rt.mem"), Try}
      <4>1. Make("rt.view").do # Try.do /\ Make("rt.view").obj # Make("rt.image").obj
            /\ Make("rt.view").obj # Make("rt.mem").obj
        BY Fields
      <4> QED  BY <4>1
    <3> QED  BY <3>1, <3>3
  <2>2. CASE Falls
    <3>1. alive' = alive \ {"rt.image", "rt.mem"}
      BY <1>2, <2>2 DEF Falls
    <3>2. alive' = alive \ G
      BY <1>2, <1>3, <3>1
    <3> QED  BY <1>2, <1>3, <2>2, <3>2 DEF Goes
  <2>3. CASE Passes
    <3>1. /\ at' = at + 1 /\ cur'.undo = cur.undo
          /\ alive \subseteq alive' /\ alive' \subseteq alive \cup G
          /\ at # 4 => alive' \subseteq alive \cup {"rt.image", "rt.mem"}
      <4>1. \/ \E o \in {"rt.image", "rt.mem"} : Moves(alive) \/ Moves(alive \cup {o})
            \/ at = 4 /\ Moves(alive \cup {"rt.view"})
        BY <2>1, <2>3, PassKinds
      <4> QED  BY <4>1 DEF Moves
    <3>2. alive' \ G = alive \ G
      BY <3>1
    <3> QED  BY <1>2, <1>3, <2>3, <3>1, <3>2 DEF Goes, Building
  <2> QED  BY <1>1, <2>2, <2>3
<1>4. CASE at = 5
  <2>1. Step = Set({"rt.ready"})
    BY <1>1, <1>4, CreateSteps
  <2>9. Passes
    BY <1>1, <2>1, SureKinds
  <2>2. Passes /\ alive' = alive \cup {"rt.ready"} /\ at' = 6 /\ cur'.undo = cur.undo
    <3>1. Moves(alive \cup {"rt.ready"})
      BY <2>1, <2>9, PassKinds
    <3> QED  BY <1>4, <2>9, <3>1 DEF Moves
  <2>3. Clean(alive')
    <3>1. Clean(alive \ {"rt.image", "rt.mem", "rt.view"}) /\ "display" \in alive /\ "device" \in alive
      BY <1>2, <1>4
    <3> QED  BY <2>2, <3>1, Completed
  <2> QED  BY <2>2, <2>3, <1>2 DEF Goes, Building
<1>5. CASE at = 6
  <2>1. Step = Track({Is("rt", "undef")})
    BY <1>1, <1>5, CreateSteps
  <2>9. Passes
    BY <1>1, <2>1, SureKinds
  <2>2. Passes /\ alive' = alive /\ at' = 7 /\ cur'.undo = cur.undo
    <3>1. Moves(alive)
      BY <2>1, <2>9, PassKinds
    <3> QED  BY <1>5, <2>9, <3>1 DEF Moves
  <2> QED  BY <1>2, <1>5, <2>2 DEF Goes, Building
<1> QED  BY <1>1, <1>3, <1>4, <1>5

\* render_target_wrap only sets flags.
LEMMA WrapSteps ==
    LET step == Sites["render_target_wrap"].steps
    IN  /\ Len(step) = 2 /\ Sites["render_target_wrap"].undo = {}
        /\ step[1] = Set({"rt.ready", "rt.wraps"}) /\ step[2] = Track({Is("rt", "undef")})
<1>1. Sites["render_target_wrap"] = render_target_wrap
  BY DEF Sites
<1> QED  BY <1>1 DEF render_target_wrap, Site

LEMMA WrapStep ==
    ASSUME Shape, HostStep, ~(Enter \/ Leave), queue[1] = "render_target_wrap",
           Building("render_target_wrap")
    PROVE  Goes("render_target_wrap")
<1>1. at \in 1 .. 2 /\ (Falls \/ Passes) /\ Step = Sites["render_target_wrap"].steps[at]
  BY StepEffect, WrapSteps DEF Step
<1>2. Clean(alive) /\ "display" \in alive
  BY DEF Building
<1>3. Step = Set({"rt.ready", "rt.wraps"}) \/ Step = Track({Is("rt", "undef")})
  BY <1>1, WrapSteps
<1>4. Passes
  BY <1>1, <1>3, SureKinds
<1>5. Moves(alive) \/ Moves(alive \cup {"rt.ready", "rt.wraps"})
  BY <1>3, <1>4, PassKinds
<1>6. Clean(alive \cup {"rt.ready", "rt.wraps"})
  <2>1. {"rt.ready", "rt.wraps"} \subseteq RenderTarget
    BY DEF RenderTarget
  <2>2. "device" \in alive
    BY <1>2, CleanSteps
  <2> QED  BY <1>2, <2>1, <2>2, Apart DEF Clean, Whole, Kept
<1> QED  BY <1>2, <1>4, <1>5, <1>6 DEF Goes, Building, Moves

\* iosurface_create: the view completes the surface.
LEMMA SurfaceSteps ==
    LET step == Sites["iosurface_create"].steps
    IN  /\ Len(step) = 5 /\ Sites["iosurface_create"].undo = {"surf.image", "surf.mem"}
        /\ step[1] = Make("surf.image") /\ step[2] = Make("surf.mem") /\ step[3] = Try
        /\ step[4] = Make("surf.view") /\ step[5] = Track({Is("surf", "undef")})
<1>1. Sites["iosurface_create"] = iosurface_create
  BY DEF Sites
<1> QED  BY <1>1 DEF iosurface_create, Site

LEMMA SurfaceStep ==
    ASSUME Shape, HostStep, ~(Enter \/ Leave), queue[1] = "iosurface_create", Building("iosurface_create")
    PROVE  Goes("iosurface_create")
<1> DEFINE G == {"surf.image", "surf.mem"}
<1>1. at \in 1 .. 5 /\ (Falls \/ Passes) /\ Step = Sites["iosurface_create"].steps[at]
  BY StepEffect, SurfaceSteps DEF Step
<1>2. /\ cur.undo = G
      /\ at \in 1 .. 4 => /\ Clean(alive \ G) /\ "surf.view" \notin alive /\ "device" \in alive
                          /\ at # 1 => "surf.image" \in alive
      /\ at = 5 => Clean(alive)
  BY SurfaceSteps DEF Building
<1>3. CASE at \in 1 .. 4 /\ Falls
  <2>1. alive' = alive \ G
    BY <1>2, <1>3 DEF Falls
  <2> QED  BY <1>2, <1>3, <2>1 DEF Goes
<1>4. CASE at \in 1 .. 3 /\ Passes
  <2>1. Step \in {Make("surf.image"), Make("surf.mem"), Try} /\ (at = 1 => Step = Make("surf.image"))
    BY <1>1, <1>4, SurfaceSteps
  <2>2. /\ \E o \in G : Moves(alive) \/ Moves(alive \cup {o})
        /\ at = 1 => Moves(alive \cup {"surf.image"})
    BY <1>4, <2>1, PassKinds
  <2>3. /\ at' = at + 1 /\ cur'.undo = cur.undo /\ alive \subseteq alive' /\ alive' \subseteq alive \cup G
        /\ at = 1 => "surf.image" \in alive'
    BY <2>2 DEF Moves
  <2>4. alive' \ G = alive \ G /\ at' \in 2 .. 4
    BY <1>4, <2>3
  <2> QED  BY <1>2, <1>4, <2>3, <2>4 DEF Goes, Building
<1>5. CASE at = 4 /\ Passes
  <2>1. Step = Make("surf.view")
    BY <1>1, <1>5, SurfaceSteps
  <2>2. Moves(alive \cup {"surf.view"})
    BY <1>5, <2>1, PassKinds
  <2>3. Clean(alive \cup {"surf.view"})
    <3>1. Clean(alive \ {"surf.image", "surf.mem"}) /\ "surf.image" \in alive /\ "device" \in alive
      BY <1>2, <1>5
    <3> QED  BY <3>1, Completed
  <2> QED  BY <1>5, <2>2, <2>3 DEF Goes, Building, Moves
<1>6. CASE at = 5
  <2>1. Step = Track({Is("surf", "undef")})
    BY <1>1, <1>6, SurfaceSteps
  <2>2. Passes
    BY <1>1, <2>1, SureKinds
  <2>3. Moves(alive)
    BY <2>1, <2>2, PassKinds
  <2> QED  BY <1>2, <1>6, <2>2, <2>3 DEF Goes, Building, Moves
<1> QED  BY <1>1, <1>3, <1>4, <1>5, <1>6

\* iosurface_destroy frees the whole surface.
LEMMA DestroySteps ==
    LET step == Sites["iosurface_destroy"].steps
    IN  /\ Len(step) = 1 /\ Sites["iosurface_destroy"].undo = {} /\ step[1] = Free(Surface)
<1>1. Sites["iosurface_destroy"] = iosurface_destroy
  BY DEF Sites
<1> QED  BY <1>1 DEF iosurface_destroy, Site, Surface

LEMMA DestroyStep ==
    ASSUME Shape, HostStep, ~(Enter \/ Leave), queue[1] = "iosurface_destroy", Building("iosurface_destroy")
    PROVE  Goes("iosurface_destroy")
<1>1. at = 1 /\ (Falls \/ Passes) /\ Step = Free(Surface)
  BY StepEffect, DestroySteps DEF Step
<1>2. Passes
  BY <1>1, SureKinds
<1>3. Moves(alive \ Surface)
  BY <1>1, <1>2, PassKinds
<1>4. Clean(alive)
  BY DEF Building
<1>5. Clean(alive \ Surface) /\ "display" \notin Surface
  BY <1>4, Apart DEF Clean, Whole
<1> QED  BY <1>2, <1>3, <1>5 DEF Goes, Building, Moves

\* composite_ensure: the shaders are freed before the flag is set.
LEMMA CompositeSteps ==
    LET step == Sites["composite_ensure"].steps
    IN  /\ Len(step) = 11 /\ Sites["composite_ensure"].undo = CompositeObjects \cup {"comp.vs", "comp.fs"}
        /\ step[1] = [do |-> "if", obj |-> "comp.ready", is |-> {FALSE}, n |-> 10]
        /\ \A k \in 2 .. 9 : step[k] = Try \/ \E o \in (CompositeObjects \ {"comp.ready"}) \cup {"comp.vs", "comp.fs"} :
                                                step[k] = Make(o)
        /\ step[10] = Free({"comp.vs", "comp.fs"}) /\ step[11] = Set({"comp.ready"})
<1>1. Sites["composite_ensure"] = composite_ensure
  BY DEF Sites
<1>2. /\ composite_ensure.undo = CompositeObjects \cup {"comp.vs", "comp.fs"}
      /\ Len(composite_ensure.steps) = 11
      /\ composite_ensure.steps[1] = [do |-> "if", obj |-> "comp.ready", is |-> {FALSE}, n |-> 10]
      /\ composite_ensure.steps[10] = Free({"comp.vs", "comp.fs"})
      /\ composite_ensure.steps[11] = Set({"comp.ready"})
  BY DEF composite_ensure, Site, IfNot
<1>3. \A k \in 2 .. 9 : \/ composite_ensure.steps[k] = Try
         \/ \E o \in {"comp.sampler", "comp.dsl", "comp.layout", "comp.pool", "comp.vs", "comp.fs", "comp.pipeline"} :
               composite_ensure.steps[k] = Make(o)
  BY DEF composite_ensure, Site, IfNot
<1> QED  BY <1>1, <1>2, <1>3 DEF CompositeObjects

LEMMA CompositeStep ==
    ASSUME Shape, HostStep, ~(Enter \/ Leave), queue[1] = "composite_ensure", Building("composite_ensure")
    PROVE  Goes("composite_ensure")
<1> DEFINE G == CompositeObjects \cup {"comp.vs", "comp.fs"}
<1>0. "device" \notin G /\ "display" \notin G
  BY DEF CompositeObjects
<1>1. at \in 1 .. 11 /\ (Falls \/ Passes) /\ Step = Sites["composite_ensure"].steps[at]
  BY StepEffect, CompositeSteps DEF Step
<1>2. /\ cur.undo = G /\ "device" \in alive
      /\ at = 1 => Clean(alive)
      /\ at \in 2 .. 11 => Clean(alive \ G) /\ "comp.ready" \notin alive
      /\ at = 11 => {"comp.vs", "comp.fs"} \cap alive = {}
  BY CompositeSteps DEF Building
<1>3. CASE at \in 2 .. 9
  <2>1. Step = Try \/ \E o \in (CompositeObjects \ {"comp.ready"}) \cup {"comp.vs", "comp.fs"} : Step = Make(o)
    BY <1>1, <1>3, CompositeSteps
  <2>2. CASE Falls
    <3>1. alive' = alive \ G
      BY <1>2, <2>2 DEF Falls
    <3> QED  BY <1>0, <1>2, <1>3, <2>2, <3>1 DEF Goes
  <2>3. CASE Passes
    <3>1. Moves(alive) \/ \E o \in G \ {"comp.ready"} : Moves(alive \cup {o})
      BY <2>1, <2>3, PassKinds
    <3>2. /\ at' = at + 1 /\ cur'.undo = cur.undo /\ alive \subseteq alive'
          /\ alive' \subseteq alive \cup (G \ {"comp.ready"})
      BY <3>1 DEF Moves
    <3>3. alive' \ G = alive \ G /\ "comp.ready" \notin alive' /\ at' \in 3 .. 10
      BY <1>2, <1>3, <3>2
    <3> QED  BY <1>2, <1>3, <2>3, <3>2, <3>3 DEF Goes, Building
  <2> QED  BY <1>1, <2>2, <2>3
<1>4. CASE at = 1
  <2>1. Step = [do |-> "if", obj |-> "comp.ready", is |-> {FALSE}, n |-> 10]
    BY <1>1, <1>4, CompositeSteps
  <2>2. Passes
    BY <1>1, <2>1, SureKinds
  <2>3. /\ alive' = alive /\ cur'.undo = cur.undo
        /\ (at' = 2 /\ "comp.ready" \notin alive) \/ at' = 12
    <3>1. /\ alive' = alive /\ cur'.undo = cur.undo
          /\ (at' = at + 1 /\ "comp.ready" \notin alive) \/ (at' = at + 1 + 10 /\ "comp.ready" \in alive)
      BY <2>1, <2>2, PassKinds, Zenon
    <3> QED  BY <1>4, <3>1
  <2>4. "comp.ready" \notin alive => alive \ G = alive
    <3>1. Clean(alive) /\ "comp.vs" \notin Kept /\ "comp.fs" \notin Kept
      BY <1>2, <1>4, PartsListed DEF Kept, CompositeObjects, RenderTarget, Surface,
         RingParts, SlotParts, SlotObjects, SlotNames
    <3> QED  BY <3>1 DEF Clean, Whole
  <2> QED  BY <1>2, <1>4, <2>2, <2>3, <2>4 DEF Goes, Building
<1>5. CASE at = 10
  <2>1. Step = Free({"comp.vs", "comp.fs"})
    BY <1>1, <1>5, CompositeSteps
  <2>2. Passes
    BY <1>1, <2>1, SureKinds
  <2>3. Moves(alive \ {"comp.vs", "comp.fs"})
    BY <2>1, <2>2, PassKinds
  <2>4. /\ at' = 11 /\ cur'.undo = cur.undo /\ alive' \ G = alive \ G /\ "comp.ready" \notin alive'
        /\ {"comp.vs", "comp.fs"} \cap alive' = {} /\ "device" \in alive'
        /\ "display" \in alive => "display" \in alive'
    BY <1>2, <1>5, <2>3 DEF Moves
  <2> QED  BY <1>2, <1>5, <2>2, <2>4 DEF Goes, Building
<1>6. CASE at = 11
  <2>1. Step = Set({"comp.ready"})
    BY <1>1, <1>6, CompositeSteps
  <2>2. Passes
    BY <1>1, <2>1, SureKinds
  <2>3. Moves(alive \cup {"comp.ready"})
    BY <2>1, <2>2, PassKinds
  <2>4. Clean(alive \cup {"comp.ready"})
    <3>1. /\ Clean(alive \ (CompositeObjects \cup {"comp.vs", "comp.fs"}))
          /\ {"comp.vs", "comp.fs"} \cap alive = {} /\ "device" \in alive
      BY <1>2, <1>6
    <3> QED  BY <3>1, Completed
  <2> QED  BY <1>2, <1>6, <2>2, <2>3, <2>4 DEF Goes, Building, Moves
<1> QED  BY <1>1, <1>3, <1>4, <1>5, <1>6

\* staging_ring_ensure: the flag comes after both slots.
LEMMA RingStep ==
    ASSUME Shape, HostStep, ~(Enter \/ Leave), queue[1] = "staging_ring_ensure", Building("staging_ring_ensure")
    PROVE  Goes("staging_ring_ensure")
<1> DEFINE step == Sites["staging_ring_ensure"].steps
<1>0. /\ Len(step) = 12
      /\ step[1] = [do |-> "if", obj |-> "ring", is |-> {FALSE}, n |-> 11]
      /\ \A k \in 2 .. 11 : step[k] = Try \/ \E o \in SlotParts : step[k] = Make(o)
      /\ step[12] = Set({"ring"}) /\ Sites["staging_ring_ensure"].undo = SlotParts
  <2>1. \A k \in 2 .. 11 : \/ staging_ring_ensure.steps[k] = Try
           \/ \E o \in {"slot1.buf", "slot1.mem", "slot1.fence", "slot2.buf", "slot2.mem", "slot2.fence"} :
                 staging_ring_ensure.steps[k] = Make(o)
    BY DEF staging_ring_ensure, staging_slot_init, SlotNames, IfNot, HostBuffer, Site
  <2>2. {"slot1.buf", "slot1.mem", "slot1.fence", "slot2.buf", "slot2.mem", "slot2.fence"} \subseteq SlotParts
    BY DEF SlotParts, SlotObjects, SlotNames
  <2>3. staging_ring_ensure.undo = SlotParts
    BY DEF staging_ring_ensure, Site, SlotParts
  <2>4. \A k \in 2 .. 11 : step[k] = Try \/ \E o \in SlotParts : step[k] = Make(o)
    BY <2>1, <2>2, SiteNames
  <2> QED  BY <2>3, <2>4, SiteNames, EnsureSteps
<1> HIDE DEF step
<1>00. "display" \notin SlotParts /\ "ring" \notin SlotParts
  BY Apart DEF RingParts
<1>1. at \in 1 .. 12 /\ (Falls \/ Passes) /\ Step = step[at]
  BY <1>0, StepEffect DEF Step, step
<1>2. /\ cur.undo = SlotParts /\ "display" \in alive
      /\ at = 1 => Clean(alive)
      /\ at \in 2 .. 12 => Clean(alive \ SlotParts) /\ "ring" \notin alive
  BY <1>0 DEF Building
<1>3. CASE at \in 2 .. 11
  <2>1. Step = Try \/ \E o \in SlotParts : Step = Make(o)
    BY <1>0, <1>1, <1>3
  <2>2. CASE Falls
    <3>1. alive' = alive \ SlotParts
      BY <1>2, <2>2 DEF Falls
    <3> QED  BY <1>00, <1>2, <1>3, <2>2, <3>1 DEF Goes
  <2>3. CASE Passes
    <3>1. Moves(alive) \/ \E o \in SlotParts : Moves(alive \cup {o})
      BY <2>1, <2>3, PassKinds
    <3>2. /\ at' = at + 1 /\ cur'.undo = cur.undo /\ alive \subseteq alive'
          /\ alive' \subseteq alive \cup SlotParts
      BY <3>1 DEF Moves
    <3>3. alive' \ SlotParts = alive \ SlotParts /\ "ring" \notin alive' /\ at' \in 3 .. 12
      BY <1>00, <1>2, <1>3, <3>2
    <3> QED  BY <1>0, <1>2, <1>3, <2>3, <3>2, <3>3, SMTT(30) DEF Goes, Building
  <2> QED  BY <1>1, <2>2, <2>3
<1>4. CASE at = 1
  <2>1. Step = [do |-> "if", obj |-> "ring", is |-> {FALSE}, n |-> 11]
    BY <1>0, <1>1, <1>4
  <2>2. Passes
    BY <1>1, <2>1, SureKinds
  <2>3. /\ alive' = alive /\ cur'.undo = cur.undo
        /\ (at' = 2 /\ "ring" \notin alive) \/ at' = 13
    <3>1. /\ alive' = alive /\ cur'.undo = cur.undo
          /\ (at' = at + 1 /\ "ring" \notin alive) \/ (at' = at + 1 + 11 /\ "ring" \in alive)
      BY <2>1, <2>2, PassKinds, Zenon
    <3> QED  BY <1>4, <3>1
  <2>4. "ring" \notin alive => alive \ SlotParts = alive
    BY <1>2, <1>4 DEF Clean, Whole, RingParts
  <2> QED  BY <1>0, <1>2, <1>4, <2>2, <2>3, <2>4 DEF Goes, Building
<1>5. CASE at = 12
  <2>1. Step = Set({"ring"})
    BY <1>0, <1>1, <1>5
  <2>2. Passes
    BY <1>1, <2>1, SureKinds
  <2>3. Moves(alive \cup {"ring"})
    BY <2>1, <2>2, PassKinds
  <2>4. Clean(alive \cup {"ring"})
    <3> DEFINE A == alive \ SlotParts
    <3>1. Clean(A) /\ "display" \in A
      BY <1>00, <1>2, <1>5
    <3> HIDE DEF A
    <3>2. "device" \in A
      BY <3>1, CleanSteps
    <3> QED  BY <1>2, <3>1, <3>2, Completed DEF A
  <2> QED  BY <1>0, <1>2, <1>5, <2>2, <2>3, <2>4 DEF Goes, Building, Moves
<1> QED  BY <1>1, <1>3, <1>4, <1>5

\* display_free: the ring and the target go before the display.
LEMMA FreeSteps ==
    LET step == Sites["display_free"].steps
    IN  /\ Len(step) = 6 /\ Sites["display_free"].undo = {}
        /\ step[1] = [do |-> "if", obj |-> "slot1.busy", is |-> {TRUE}, n |-> 1]
        /\ step[2] = Wait("slot1.fence", "ignore")
        /\ step[3] = [do |-> "if", obj |-> "slot2.busy", is |-> {TRUE}, n |-> 1]
        /\ step[4] = Wait("slot2.fence", "ignore")
        /\ step[5] = Free(SlotObjects(1) \cup SlotObjects(2) \cup {"ring", "turn2"})
        /\ step[6] = Free(RenderTarget \cup {"frame.new", "display"})
<1>1. Sites["display_free"] = display_free
  BY DEF Sites
<1> QED  BY <1>1 DEF display_free, Site, If

LEMMA FreeStep ==
    ASSUME Shape, HostStep, ~(Enter \/ Leave), queue[1] = "display_free", Building("display_free")
    PROVE  Goes("display_free")
<1>1. at \in 1 .. 6 /\ (Falls \/ Passes) /\ Step = Sites["display_free"].steps[at]
  BY StepEffect, FreeSteps DEF Step
<1>2. Clean(alive) /\ (at = 6 => RingParts \cap alive = {})
  BY DEF Building
<1>3. CASE at \in 1 .. 4
  <2>1. CASE at \in {1, 3}
    <3>1. PICK o : Step = [do |-> "if", obj |-> o, is |-> {TRUE}, n |-> 1]
      <4>1. CASE at = 1
        BY <1>1, <4>1, FreeSteps
      <4>2. CASE at = 3
        BY <1>1, <4>2, FreeSteps
      <4> QED  BY <2>1, <4>1, <4>2
    <3>2. Passes
      BY <1>1, <3>1, SureKinds, Zenon
    <3>3. alive' = alive /\ cur'.undo = cur.undo /\ at' \in {at + 1, at + 1 + 1}
      BY <3>1, <3>2, PassKinds, Zenon
    <3> QED  BY <1>2, <2>1, <3>2, <3>3 DEF Goes, Building
  <2>2. CASE at \in {2, 4}
    <3>1. PICK f : Step = Wait(f, "ignore")
      <4>1. CASE at = 2
        BY <1>1, <4>1, FreeSteps
      <4>2. CASE at = 4
        BY <1>1, <4>2, FreeSteps
      <4> QED  BY <2>2, <4>1, <4>2
    <3>2. Passes
      BY <1>1, <3>1, SureKinds, Zenon
    <3>3. Moves(alive)
      BY <3>1, <3>2, PassKinds, Zenon
    <3> QED  BY <1>2, <2>2, <3>2, <3>3 DEF Goes, Building, Moves
  <2> QED  BY <1>3, <2>1, <2>2
<1>4. CASE at = 5
  <2>1. Step = Free(RingParts)
    BY <1>1, <1>4, FreeSteps DEF RingParts, SlotParts
  <2>2. Passes
    BY <1>1, <2>1, SureKinds
  <2>3. Moves(alive \ RingParts)
    BY <2>1, <2>2, PassKinds
  <2>4. Clean(alive \ RingParts)
    BY <1>2, Apart DEF Clean, Whole
  <2> QED  BY <2>2, <2>3, <2>4 DEF Goes, Building, Moves
<1>5. CASE at = 6
  <2> DEFINE S == RenderTarget \cup {"frame.new", "display"}
  <2>1. Step = Free(S)
    BY <1>1, <1>5, FreeSteps
  <2> HIDE DEF S
  <2>2. Passes
    BY <1>1, <2>1, SureKinds
  <2>3. Moves(alive \ S)
    BY <2>1, <2>2, PassKinds
  <2>4. Clean(alive \ S)
    BY <1>2, <1>5, Apart DEF Clean, Whole, S
  <2> QED  BY <1>5, <2>2, <2>3, <2>4 DEF Goes, Building, Moves
<1> QED  BY <1>1, <1>3, <1>4, <1>5

-----------------------------------------------------------------------------
(* The invariant. *)

\* Functions that only begin a call.
Openers == {"vk_init", "vk_shutdown", "render_target_create", "render_target_wrap",
            "iosurface_create", "display_free"}

\* The ring is built only for a display that stays.
Queued ==
    /\ \A k \in 2 .. Len(queue) : queue[k] \notin Openers
    /\ \A k \in 1 .. Len(queue) :
          queue[k] = "staging_ring_ensure" => "display" \in alive /\ queue[1] # "display_free"

\* Between functions everything is whole, and an opener is called where it may be.
Ready(s) ==
    /\ s = "vk_init" => "device" \notin alive
    /\ s = "vk_shutdown" => {"display", "surf.image"} \cap alive = {}
    /\ s \in {"render_target_create", "render_target_wrap"} => "display" \in alive /\ RenderTarget \cap alive = {}
    /\ s = "iosurface_create" => "surf.image" \notin alive

\* Between functions nothing is left over; within one, it is on its way.
Resting ==
    /\ Idle => at = 0
    /\ at = 0 => Clean(alive)
    /\ at = 0 /\ ~Idle => Ready(queue[1])

Working ==
    at # 0 => /\ queue[1] \in Builders => Building(queue[1])
              /\ queue[1] \notin Builders => Tidying(queue[1])

LeakInv == FrameInv /\ Queued /\ Resting /\ Working

\* What a handler runs begins where it may.
LEMMA HandlersReady ==
    ASSUME NEW h \in Handlers
    PROVE  /\ \A k \in 2 .. Len(h) : h[k] \notin Openers
           /\ \A k \in 1 .. Len(h) :
                 h[k] = "staging_ring_ensure" => "display" \in alive /\ h[1] # "display_free"
           /\ h[1] = "vk_init" => "device" \notin alive
           /\ h[1] = "vk_shutdown" => {"display", "surf.image"} \cap alive = {}
           /\ h[1] \in {"render_target_create", "render_target_wrap"} =>
                 "display" \notin alive /\ "device" \in alive
           /\ h[1] = "iosurface_create" => "surf.image" \notin alive
<1> DEFINE S == {"draw_surface", "composite_ensure", "composite_over", "present_surface", "clear_image",
                 "staging_ring_ensure", "send_frame1", "send_frame2"}
<1>1. S \cap Openers = {}
  BY DEF Openers
<1>2. ASSUME "display" \in alive, h \in Seq(S), h # <<>> PROVE
           /\ \A k \in 1 .. Len(h) : h[k] \in S
           /\ h[1] \in S
  BY <1>2
<1>3. SendFrame \in Seq(S) /\ SendFrame # <<>>
  BY DEF SendFrame
<1>4. CASE h \in EmitSurface /\ "display" \in alive
  <2>1. PICK show \in {<<"composite_ensure", "composite_over">>, <<"present_surface">>,
                       <<"clear_image", "present_surface">>} :
             h = <<"draw_surface">> \o show \o SendFrame
    BY <1>4 DEF EmitSurface
  <2>2. \/ show = <<"composite_ensure", "composite_over">> \/ show = <<"present_surface">>
        \/ show = <<"clear_image", "present_surface">>
    BY <2>1
  <2>3. show \in Seq(S) /\ <<"draw_surface">> \in Seq(S)
    <3>1. \A a, b \in S : <<a>> \in Seq(S) /\ <<a, b>> \in Seq(S)
      OBVIOUS
    <3>2. "draw_surface" \in S /\ \E a, b \in S : show = <<a>> \/ show = <<a, b>>
      BY <2>2
    <3> HIDE DEF S
    <3> QED  BY <3>1, <3>2
  <2> HIDE DEF S
  <2>4. h \in Seq(S) /\ Len(h) = 1 + Len(show) + Len(SendFrame) /\ Len(SendFrame) \in Nat \ {0} /\ Len(show) \in Nat
    BY <1>3, <2>1, <2>3
  <2>5. h # <<>>
    BY <2>4
  <2> QED  BY <1>1, <1>2, <1>4, <2>4, <2>5 DEF Openers
<1>5. CASE h = SendFrame /\ "display" \in alive
  BY <1>1, <1>2, <1>3, <1>5 DEF Openers
<1>6. CASE h = DeviceParts /\ "device" \notin alive
  BY <1>6 DEF DeviceParts, Openers
<1>7. CASE \E a, b :
              /\ h = <<a>> \/ (h = <<a, b>> /\ b \notin Openers /\ b # "staging_ring_ensure")
              /\ a # "staging_ring_ensure"
              /\ a = "vk_init" => "device" \notin alive
              /\ a = "vk_shutdown" => {"display", "surf.image"} \cap alive = {}
              /\ a \in {"render_target_create", "render_target_wrap"} =>
                    "display" \notin alive /\ "device" \in alive
              /\ a = "iosurface_create" => "surf.image" \notin alive
  <2>1. PICK a, b :
              /\ h = <<a>> \/ (h = <<a, b>> /\ b \notin Openers /\ b # "staging_ring_ensure")
              /\ a # "staging_ring_ensure"
              /\ a = "vk_init" => "device" \notin alive
              /\ a = "vk_shutdown" => {"display", "surf.image"} \cap alive = {}
              /\ a \in {"render_target_create", "render_target_wrap"} =>
                    "display" \notin alive /\ "device" \in alive
              /\ a = "iosurface_create" => "surf.image" \notin alive
    BY <1>7
  <2>2. h[1] = a /\ (Len(h) = 1 \/ (Len(h) = 2 /\ h[2] = b /\ b \notin Openers /\ b # "staging_ring_ensure"))
    BY <2>1
  <2> QED  BY <2>1, <2>2
<1> QED  BY <1>4, <1>5, <1>6, <1>7 DEF Handlers, Openers

\* A function is over: what follows it was queued with it.
LEMMA NextReady ==
    ASSUME LeakInv, ~Idle, NEW n \in Nat, queue' = SubSeq(queue, 2 + n, Len(queue)), at' = 0,
           Clean(alive'), "display" \in alive /\ queue[1] # "display_free" => "display" \in alive'
    PROVE  Queued' /\ Resting' /\ Working'
<1>1. queue \in Seq(DOMAIN Sites) /\ Len(queue) \in Nat
  BY DEF LeakInv, FrameInv, Shape
<1>2. /\ queue' \in Seq(DOMAIN Sites)
      /\ \A k \in 1 .. Len(queue') : k + 1 + n \in 2 .. Len(queue) /\ queue'[k] = queue[k + 1 + n]
  BY <1>1
<1>3. \A k \in 1 .. Len(queue') : queue'[k] \notin Openers
  BY <1>2 DEF LeakInv, Queued
<1>4. \A k \in 1 .. Len(queue') : queue'[k] = "staging_ring_ensure" => "display" \in alive'
  BY <1>1, <1>2 DEF LeakInv, Queued
<1>5. queue' # <<>> => 1 \in 1 .. Len(queue') /\ queue'[1] \notin Openers
  BY <1>2, <1>3, SMTT(30)
<1>6. Queued'
  <2>1. \A k \in 1 .. Len(queue') : 1 \in 1 .. Len(queue')
    BY <1>2
  <2>2. \A k \in 1 .. Len(queue') : queue'[1] # "display_free"
    BY <1>3, <2>1 DEF Openers
  <2>3. \A k \in 2 .. Len(queue') : k \in 1 .. Len(queue')
    BY <1>2
  <2> QED  BY <1>3, <1>4, <2>2, <2>3 DEF Queued
<1>7. Resting'
  BY <1>5 DEF Resting, Ready, Idle, Openers
<1> QED  BY <1>6, <1>7 DEF Working

\* Entering a function.
LEMMA Entering ==
    ASSUME LeakInv, Enter
    PROVE  Queued' /\ Resting' /\ Working'
<1> DEFINE s == queue[1]
<1>1. ~Idle /\ at = 0 /\ alive' = alive /\ s \in DOMAIN Sites /\ Clean(alive) /\ Ready(s)
  <2>1. ~Idle /\ at = 0 /\ alive' = alive
    BY DEF Enter, NoEffect
  <2> QED  BY <2>1 DEF LeakInv, Resting, FrameInv, Shape, Idle
<1>2. CASE Return(Sites[s].skips)
  <2>1. Sites[s].skips \in Nat /\ queue' = SubSeq(queue, 2 + Sites[s].skips, Len(queue)) /\ at' = 0
    BY <1>1, <1>2, SiteSkips DEF Return
  <2> QED  BY <1>1, <2>1, NextReady
<1>3. CASE Sites[s].needs \subseteq alive /\ Advance /\ cur' = [NoCur EXCEPT !.undo = Sites[s].undo]
  <2>1. queue' = queue /\ at' = 1 /\ cur'.undo = Sites[s].undo
    BY <1>1, <1>3 DEF Advance, NoCur
  <2>2. Queued'
    BY <1>1, <2>1 DEF LeakInv, Queued
  <2>3. Resting'
    BY <1>1, <2>1 DEF Resting, Idle
  <2>4. ASSUME s \notin Builders PROVE Tidying(s)'
    <3>1. alive \cap Temporaries = {} /\ alive \ Temporaries = alive
      BY <1>1, KeptApart DEF Clean
    <3>2. Sites[s].undo \subseteq Temporaries \cup Parts
      BY <1>1, <2>4, TidyScripts DEF TidySite
    <3> QED  BY <1>1, <1>3, <2>1, <3>1, <3>2 DEF Tidying
  <2>5. ASSUME s \in Builders PROVE Building(s)'
    <3>1. s = "staging_ring_ensure" => "display" \in alive
      <4>1. 1 \in 1 .. Len(queue)
        BY <1>1 DEF LeakInv, FrameInv, Shape, Idle
      <4> QED  BY <4>1 DEF LeakInv, Queued
    <3>2. s \in {"render_target_create", "iosurface_create", "composite_ensure"} => "device" \in alive
      <4>1. "device" \in render_target_create.needs /\ "device" \in iosurface_create.needs
            /\ "device" \in composite_ensure.needs
        BY DEF render_target_create, iosurface_create, composite_ensure, Site
      <4>2. /\ Sites["render_target_create"] = render_target_create
            /\ Sites["iosurface_create"] = iosurface_create /\ Sites["composite_ensure"] = composite_ensure
        BY DEF Sites
      <4> QED  BY <1>3, <4>1, <4>2
    <3>3. s = "vk_init" => alive \subseteq {"messenger"}
      BY <1>1 DEF Ready, Clean
    <3>4. s = "render_target_create" => /\ alive \ {"rt.image", "rt.mem", "rt.view"} = alive
                                        /\ "rt.ready" \notin alive /\ "rt.view" \notin alive /\ "display" \in alive
      BY <1>1 DEF Ready, RenderTarget
    <3>5. s = "iosurface_create" => /\ alive \ {"surf.image", "surf.mem"} = alive
                                    /\ "surf.view" \notin alive
      BY <1>1 DEF Ready, Clean, Whole, Surface
    <3>6. /\ s = "vk_shutdown" => {"display", "surf.image"} \cap alive = {}
          /\ s = "render_target_wrap" => "display" \in alive
      BY <1>1 DEF Ready
    <3> QED  BY <1>1, <2>1, <3>1, <3>2, <3>3, <3>4, <3>5, <3>6 DEF Building
  <2> QED  BY <2>1, <2>2, <2>3, <2>4, <2>5 DEF Working
<1> QED  BY <1>2, <1>3 DEF Enter

\* Leaving one: every temporary has been freed, every builder has completed its object.
LEMMA Leaving ==
    ASSUME LeakInv, Leave
    PROVE  Queued' /\ Resting' /\ Working'
<1> DEFINE s == queue[1]
           step == Sites[s].steps
<1>1. /\ ~Idle /\ at = Len(step) + 1 /\ alive' = alive /\ s \in DOMAIN Sites
      /\ queue' = SubSeq(queue, 2 + 0, Len(queue)) /\ at' = 0
  <2>1. /\ ~Idle /\ at = Len(step) + 1 /\ alive' = alive
        /\ queue' = SubSeq(queue, 2 + 0, Len(queue)) /\ at' = 0
    BY DEF Leave, NoEffect, Return
  <2> QED  BY <2>1 DEF LeakInv, FrameInv, Shape, Idle
<1>2. ASSUME s \notin Builders PROVE Clean(alive)
  <2>1. Orderly(Sites[s])
    BY <1>1, <1>2, OrderlyScripts
  <2>2. Tidying(s)
    BY <1>1, <1>2, <2>1 DEF LeakInv, Working, Orderly
  <2>3. ASSUME NEW o \in alive \cap Temporaries PROVE FALSE
    <3>1. PICK j \in 1 .. (at - 1) :
             /\ MakesTemporary(step[j]) /\ step[j].obj = o
             /\ \A i \in (j + 1) .. (at - 1) : ~FreesTemporary(step[i], o)
      BY <2>2 DEF Tidying
    <3>2. at - 1 = Len(step)
      BY <1>1, <2>1 DEF Orderly
    <3>3. \E i \in (j + 1) .. Len(step) : FreesTemporary(step[i], step[j].obj)
      BY <2>1, <3>1, <3>2 DEF Orderly
    <3> QED  BY <3>1, <3>2, <3>3
  <2>4. alive \ Temporaries = alive
    BY <2>3
  <2> QED  BY <2>2, <2>4 DEF Tidying
<1>3. ASSUME s \in Builders PROVE Clean(alive)
  <2>1. /\ Len(Sites["vk_init"].steps) = 6 /\ Len(Sites["vk_shutdown"].steps) = 2
        /\ Len(Sites["render_target_create"].steps) = 6 /\ Len(Sites["render_target_wrap"].steps) = 2
        /\ Len(Sites["iosurface_create"].steps) = 5 /\ Len(Sites["iosurface_destroy"].steps) = 1
        /\ Len(Sites["composite_ensure"].steps) = 11 /\ Len(Sites["staging_ring_ensure"].steps) = 12
        /\ Len(Sites["display_free"].steps) = 6
    BY InitSteps, ShutdownSteps, CreateSteps, WrapSteps, SurfaceSteps, DestroySteps,
       CompositeSteps,
       EnsureSteps, FreeSteps
  <2>2. at # 0
    BY <1>1, <1>3, <2>1 DEF Builders
  <2>3. Building(s)
    BY <1>3, <2>2 DEF LeakInv, Working
  <2>4. CASE s = "vk_init"
    <3>0. at = 7 /\ Building("vk_init")
      <4>1. Building("vk_init")
        BY <2>3, <2>4
      <4>2. at = Len(Sites["vk_init"].steps) + 1
        BY <1>1, <2>4
      <4> QED  BY <2>1, <4>1, <4>2
    <3>1. alive \subseteq {"instance", "messenger", "device", "pool"} /\ "device" \in alive
      BY <3>0 DEF Building
    <3>2. {"instance", "messenger", "pool"} \subseteq Parts
      BY DEF Parts
    <3> QED  BY <3>1, <3>2, Apart DEF Clean, Whole, Kept
  <2>5. CASE s = "vk_shutdown"
    <3>0. at = 3 /\ Building("vk_shutdown")
      <4>1. Building("vk_shutdown")
        BY <2>3, <2>5
      <4>2. at = Len(Sites["vk_shutdown"].steps) + 1
        BY <1>1, <2>5
      <4> QED  BY <2>1, <4>1, <4>2
    <3>1. alive = {}
      BY <3>0 DEF Building
    <3> QED  BY <3>1 DEF Clean, Whole
  <2>6. CASE s = "render_target_create"
    <3>1. at = 7 /\ Building("render_target_create")
      <4>1. Building("render_target_create")
        BY <2>3, <2>6
      <4>2. at = Len(Sites["render_target_create"].steps) + 1
        BY <1>1, <2>6
      <4> QED  BY <2>1, <4>1, <4>2
    <3> QED  BY <3>1 DEF Building
  <2>7. CASE s = "render_target_wrap"
    <3>1. at = 3 /\ Building("render_target_wrap")
      <4>1. Building("render_target_wrap")
        BY <2>3, <2>7
      <4>2. at = Len(Sites["render_target_wrap"].steps) + 1
        BY <1>1, <2>7
      <4> QED  BY <2>1, <4>1, <4>2
    <3> QED  BY <3>1 DEF Building
  <2>8. CASE s = "iosurface_create"
    <3>1. at = 6 /\ Building("iosurface_create")
      <4>1. Building("iosurface_create")
        BY <2>3, <2>8
      <4>2. at = Len(Sites["iosurface_create"].steps) + 1
        BY <1>1, <2>8
      <4> QED  BY <2>1, <4>1, <4>2
    <3> QED  BY <3>1 DEF Building
  <2>9. CASE s = "iosurface_destroy"
    <3>1. at = 2 /\ Building("iosurface_destroy")
      <4>1. Building("iosurface_destroy")
        BY <2>3, <2>9
      <4>2. at = Len(Sites["iosurface_destroy"].steps) + 1
        BY <1>1, <2>9
      <4> QED  BY <2>1, <4>1, <4>2
    <3> QED  BY <3>1 DEF Building
  <2>10. CASE s = "composite_ensure"
    <3>1. at = 12 /\ Building("composite_ensure")
      <4>1. Building("composite_ensure")
        BY <2>3, <2>10
      <4>2. at = Len(Sites["composite_ensure"].steps) + 1
        BY <1>1, <2>10
      <4> QED  BY <2>1, <4>1, <4>2
    <3> QED  BY <3>1 DEF Building
  <2>11. CASE s = "staging_ring_ensure"
    <3>1. at = 13 /\ Building("staging_ring_ensure")
      <4>1. Building("staging_ring_ensure")
        BY <2>3, <2>11
      <4>2. at = Len(Sites["staging_ring_ensure"].steps) + 1
        BY <1>1, <2>11
      <4> QED  BY <2>1, <4>1, <4>2
    <3> QED  BY <3>1 DEF Building
  <2>12. CASE s = "display_free"
    <3>1. at = 7 /\ Building("display_free")
      <4>1. Building("display_free")
        BY <2>3, <2>12
      <4>2. at = Len(Sites["display_free"].steps) + 1
        BY <1>1, <2>12
      <4> QED  BY <2>1, <4>1, <4>2
    <3> QED  BY <3>1 DEF Building
  <2> QED  BY <1>3, <2>4, <2>5, <2>6, <2>7, <2>8, <2>9, <2>10, <2>11, <2>12 DEF Builders
<1> QED  BY <1>1, <1>2, <1>3, NextReady

\* No jump goes back.
LEMMA JumpsAhead ==
    \A s \in DOMAIN Sites : \A k \in 1 .. Len(Sites[s].steps) :
        Sites[s].steps[k].do = "if" => Sites[s].steps[k].n \in Nat
<1> DEFINE OK(s) == \A k \in 1 .. Len(Sites[s].steps) :
                       Sites[s].steps[k].do = "if" => Sites[s].steps[k].n \in Nat
<1>1. ASSUME NEW s \in DOMAIN Sites \ Builders PROVE OK(s)
  BY OrderlyScripts DEF Orderly
<1>2. OK("vk_init")
  BY InitSteps, Fields
<1>3. OK("vk_shutdown")
  BY ShutdownSteps, Fields
<1>4. OK("render_target_create")
  BY CreateSteps, Fields
<1>5. OK("render_target_wrap")
  BY WrapSteps, Fields
<1>6. OK("iosurface_create")
  BY SurfaceSteps, Fields
<1>7. OK("iosurface_destroy")
  BY DestroySteps, Fields
<1>8. OK("composite_ensure")
  BY CompositeSteps, Fields
<1>9. OK("staging_ring_ensure")
  BY EnsureSteps, Fields
<1>10. OK("display_free")
  BY FreeSteps, Fields
<1> HIDE DEF OK
<1>11. \A s \in DOMAIN Sites : OK(s)
  BY <1>1, <1>2, <1>3, <1>4, <1>5, <1>6, <1>7, <1>8, <1>9, <1>10 DEF Builders
<1> QED  BY <1>11 DEF OK

\* A step within a function.
LEMMA Stepping ==
    ASSUME LeakInv, HostStep, ~(Enter \/ Leave)
    PROVE  Queued' /\ Resting' /\ Working'
<1> DEFINE s == queue[1]
<1>1. /\ Shape /\ ~Idle /\ at # 0 /\ (Falls \/ Passes) /\ s \in DOMAIN Sites
      /\ s \in Builders => Building(s)
      /\ s \notin Builders => Tidying(s)
  <2>1. Shape
    BY DEF LeakInv, FrameInv
  <2>2. ~Idle /\ at \in 1 .. Len(Sites[s].steps) /\ (Falls \/ Passes) /\ s \in DOMAIN Sites
    BY <2>1, StepEffect
  <2> QED  BY <2>1, <2>2 DEF LeakInv, Working
<1>2. /\ \/ Falls /\ Clean(alive')
         \/ Passes /\ (s \in Builders => Building(s)') /\ (s \notin Builders => Tidying(s)')
      /\ "display" \in alive /\ s # "display_free" => "display" \in alive'
  <2>1. CASE s \notin Builders
    BY <1>1, <2>1, TidyFalls, TidyPasses
  <2>2. CASE s \in Builders
    <3>1. Goes(s)
      BY <1>1, <2>2, InitStep, ShutdownStep, CreateStep, WrapStep, SurfaceStep,
         DestroyStep, CompositeStep,
         RingStep, FreeStep DEF Builders
    <3> QED  BY <2>2, <3>1 DEF Goes
  <2> QED  BY <2>1, <2>2
<1>3. CASE Falls /\ Clean(alive')
  BY <1>1, <1>2, <1>3, NextReady DEF Falls
<1>4. CASE Passes /\ (s \in Builders => Building(s)') /\ (s \notin Builders => Tidying(s)')
  <2>1. queue' = queue /\ at' # 0
    <3>1. at' # 0
      <4>0. at \in 1 .. Len(Sites[s].steps)
        BY <1>1, StepEffect
      <4>1. CASE Step.do # "if"
        BY <1>4, <4>0, <4>1 DEF Passes
      <4>2. CASE Step.do = "if"
        <5>1. Step.n \in Nat
          BY <1>1, <4>0, <4>2, JumpsAhead DEF Step
        <5>2. at' = at + 1 \/ at' = at + 1 + Step.n
          BY <1>4, <4>2 DEF Passes
        <5> QED  BY <4>0, <5>1, <5>2
      <4> QED  BY <4>1, <4>2
    <3> QED  BY <1>4, <3>1 DEF Passes
  <2>2. Queued'
    BY <1>2, <2>1 DEF LeakInv, Queued
  <2>3. Resting'
    BY <1>1, <2>1 DEF Resting, Idle
  <2> QED  BY <1>4, <2>1, <2>2, <2>3 DEF Working
<1> QED  BY <1>2, <1>3, <1>4

\* The invariant holds at the start and is kept.
LEMMA LeakStart == FramesInit => LeakInv
<1> SUFFICES ASSUME FramesInit PROVE LeakInv
  OBVIOUS
<1>1. queue = <<>> /\ at = 0 /\ alive = {} /\ Idle /\ Len(queue) = 0
  BY DEF FramesInit, Idle
<1>2. Queued /\ Working
  BY <1>1 DEF Queued, Working
<1>3. Resting
  BY <1>1 DEF Resting, Clean, Whole
<1> QED  BY <1>2, <1>3, FramesStart DEF LeakInv

LEMMA LeakStep ==
    LeakInv /\ [FramesNext]_frameVars => LeakInv'
<1> SUFFICES ASSUME LeakInv, [FramesNext]_frameVars PROVE LeakInv'
  OBVIOUS
<1>1. FrameInv'
  BY FramesStep DEF LeakInv
<1> SUFFICES Queued' /\ Resting' /\ Working'
  BY <1>1 DEF LeakInv
<1>2. CASE HostStep
  BY <1>2, Entering, Leaving, Stepping
<1>3. CASE GpuDone \/ UNCHANGED frameVars
  <2>1. UNCHANGED <<queue, at, cur, alive>>
    BY <1>3 DEF GpuDone, frameVars
  <2> QED  BY <2>1 DEF LeakInv, Queued, Resting, Ready, Working, Building, Tidying, Idle
<1>4. ASSUME NEW h \in Handlers, Start(h) PROVE Queued' /\ Resting' /\ Working'
  <2>1. /\ Idle /\ queue' = h /\ at' = 0 /\ h # <<>> /\ Clean(alive)
        /\ alive' = IF h[1] \in {"render_target_create", "render_target_wrap"}
                    THEN alive \cup {"display"} ELSE alive
    BY <1>4, HandlersTyped DEF Start, LeakInv, Resting
  <2>2. Queued'
    BY <2>1, HandlersReady DEF Queued
  <2>3. Clean(alive') /\ Ready(queue[1])'
    <3>1. CASE h[1] \notin {"render_target_create", "render_target_wrap"}
      BY <2>1, <3>1, HandlersReady DEF Ready
    <3>2. CASE h[1] \in {"render_target_create", "render_target_wrap"}
      <4>1. "display" \notin alive /\ "device" \in alive /\ alive' = alive \cup {"display"}
        BY <2>1, <3>2, HandlersReady
      <4>2. RenderTarget \cap alive' = {}
        BY <2>1, <4>1, Apart DEF Clean, Whole
      <4>3. Clean(alive')
        BY <2>1, <4>1, Apart DEF Clean, Whole, Kept
      <4> QED  BY <2>1, <3>2, <4>1, <4>2, <4>3 DEF Ready
    <3> QED  BY <3>1, <3>2
  <2> QED  BY <2>1, <2>2, <2>3 DEF Resting, Working, Idle
<1> QED  BY <1>2, <1>3, <1>4 DEF FramesNext

\* Whichever calls are made and whichever of their steps fail, between calls no object a
\* function made for itself is left, nothing is left once the device is gone, and the
\* compositor, the surface, the ring and the render target are there with the flag or
\* handle their destroyers go by or not at all.
THEOREM NothingLeaksAlways ==
    FramesSpec => []NothingLeaks
<1>1. LeakInv => NothingLeaks
  <2> SUFFICES ASSUME LeakInv, Idle PROVE NothingLeaks
    BY DEF NothingLeaks
  <2>1. Clean(alive)
    BY DEF LeakInv, Resting
  <2> QED  BY <2>1, Apart DEF NothingLeaks, Clean, Whole, Kept, Parts, Surface,
    RingParts, SlotParts
<1> QED  BY <1>1, LeakStart, LeakStep, PTL DEF FramesSpec

-----------------------------------------------------------------------------
(* Functions that give the target a layout. *)

\* Where each of them records the barrier, submits it and sets the tracked layout, and the
\* layout it leaves.
Records == [rt_tint |-> 3, readback |-> 6, draw_rt |-> 6, composite_over |-> 3, present_surface |-> 7,
            submit_clear_color |-> 3, send_frame1 |-> 9, send_frame2 |-> 9]
Submits == [rt_tint |-> 6, readback |-> 9, draw_rt |-> 9, composite_over |-> 6, present_surface |-> 10,
            submit_clear_color |-> 6, send_frame1 |-> 13, send_frame2 |-> 13]
Tracks == [rt_tint |-> 3, readback |-> 12, draw_rt |-> 6, composite_over |-> 3, present_surface |-> 12,
           submit_clear_color |-> 3, send_frame1 |-> 9, send_frame2 |-> 9]
Leaves(s) == IF s \in {"readback", "present_surface"} THEN "src" ELSE "color"

\* The last barrier of the target takes it to the layout.
TakesTo(moves, lay) ==
    /\ Len(moves) \in Nat
    /\ \E k \in 1 .. Len(moves) :
          /\ moves[k].img = "rt" /\ moves[k].new = lay
          /\ \A j \in (k + 1) .. Len(moves) : moves[j].img # "rt"

\* A script that takes the target to the layout: it records the barrier at r, submits it
\* at u and tracks it at w.  A test may pass by r, where that is w too, and no other.
ShowSteps(step, r, u, w, lay) ==
    /\ Len(step) \in Nat /\ {r, u, w} \subseteq 1 .. Len(step) /\ r < u /\ (w = r \/ u < w)
    /\ \A k \in 1 .. Len(step) :
          /\ RtMoves(step[k]) # {} => k = r
          /\ RtTracks(step[k]) # {} => k = w
          /\ step[k].do = "submit" => k = u
          /\ step[k].do = "if" =>
                /\ step[k].n \in Nat
                /\ \A x \in {r, u, w} : x \in (k + 1) .. (k + step[k].n) => x = r /\ w = r
    /\ step[r].do = "record" /\ TakesTo(step[r].moves, lay) /\ step[u].do = "submit"
    /\ RtTracks(step[w]) # {} /\ \A x \in RtTracks(step[w]) : x.lay = lay

\* The lists of barriers the scripts record.
LEMMA TakesColor ==
    /\ \A o, l : TakesTo(<<To("rt", o, l)>>, l)
    /\ \A o, p, m, l : TakesTo(<<To("rt", o, m), To("rt", p, l)>>, l)
    /\ \A o, p, q, r, i, j, m, l :
          TakesTo(<<To("surf", o, i), To("rt", p, m), To("surf", q, j), To("rt", r, l)>>, l)
<1>1. \A o, l : TakesTo(<<To("rt", o, l)>>, l)
  BY DEF TakesTo, To
<1>2. ASSUME NEW o, NEW p, NEW m, NEW l PROVE TakesTo(<<To("rt", o, m), To("rt", p, l)>>, l)
  <2> DEFINE s == <<To("rt", o, m), To("rt", p, l)>>
  <2>1. Len(s) = 2 /\ s[1].img = "rt" /\ s[2].img = "rt" /\ s[2].new = l
    BY DEF To
  <2> HIDE DEF s
  <2>2. 2 \in 1 .. Len(s) /\ \A j \in 3 .. Len(s) : s[j].img # "rt"
    BY <2>1
  <2>3. TakesTo(s, l)
    BY <2>1, <2>2 DEF TakesTo
  <2> QED  BY <2>3 DEF s
<1>3. ASSUME NEW o, NEW p, NEW q, NEW r, NEW i, NEW j, NEW m, NEW l
      PROVE  TakesTo(<<To("surf", o, i), To("rt", p, m), To("surf", q, j), To("rt", r, l)>>, l)
  <2> DEFINE s == <<To("surf", o, i), To("rt", p, m), To("surf", q, j), To("rt", r, l)>>
  <2>1. /\ Len(s) = 4 /\ s[1].img = "surf" /\ s[2].img = "rt" /\ s[3].img = "surf" /\ s[4].img = "rt"
        /\ s[4].new = l
    BY DEF To
  <2> HIDE DEF s
  <2>2. 4 \in 1 .. Len(s) /\ \A k \in 5 .. Len(s) : s[k].img # "rt"
    BY <2>1
  <2>3. TakesTo(s, l)
    BY <2>1, <2>2 DEF TakesTo
  <2> QED  BY <2>3 DEF s
<1> QED  BY <1>1, <1>2, <1>3

\* What a step does to the target.
LEMMA RtSteps ==
    /\ \A st : st.do # "record" => RtMoves(st) = {} /\ RtTracks(st) = {}
    /\ \A m, T : /\ Record(m, T).moves = m
                 /\ \A l : T = {Is("rt", l)} => /\ RtTracks(Record(m, T)) # {}
                                                /\ \A x \in RtTracks(Record(m, T)) : x.lay = l
                 /\ T = {} => RtTracks(Record(m, T)) = {}
    /\ \A T : RtMoves(Track(T)) = {}
    /\ \A l, a : LET T == {Is("surf", a), Is("rt", l)}
                 IN  RtTracks(Track(T)) # {} /\ \A x \in RtTracks(Track(T)) : x.lay = l
    /\ \A l : LET T == {Is("rt", l)}
              IN  RtTracks(Track(T)) # {} /\ \A x \in RtTracks(Track(T)) : x.lay = l
    /\ \A o, p, m, n : RtMoves(Record(<<To("frame", o, m), To("frame", p, n)>>, {})) = {}
<1>1. \A st : st.do # "record" => RtMoves(st) = {} /\ RtTracks(st) = {}
  BY DEF RtMoves, RtTracks
<1>2. \A m, T : /\ Record(m, T).moves = m
                /\ \A l : T = {Is("rt", l)} => /\ RtTracks(Record(m, T)) # {}
                                               /\ \A x \in RtTracks(Record(m, T)) : x.lay = l
                /\ T = {} => RtTracks(Record(m, T)) = {}
  <2>1. \A m, T : /\ Record(m, T).moves = m
                  /\ RtTracks(Record(m, T)) = {x \in T : x.img = "rt"}
    BY DEF RtTracks, Record
  <2>2. \A l : Is("rt", l).img = "rt" /\ Is("rt", l).lay = l
    BY DEF Is
  <2> QED  BY <2>1, <2>2
<1>3. \A T : RtMoves(Track(T)) = {}
  BY DEF RtMoves, Track
<1>4. \A l, a : LET T == {Is("surf", a), Is("rt", l)}
                IN  RtTracks(Track(T)) # {} /\ \A x \in RtTracks(Track(T)) : x.lay = l
  <2>1. \A T : RtTracks(Track(T)) = {x \in T : x.img = "rt"}
    BY DEF RtTracks, Track
  <2>2. \A i, l : Is(i, l).img = i /\ Is(i, l).lay = l
    BY DEF Is
  <2> QED  BY <2>1, <2>2
<1>5. \A l : LET T == {Is("rt", l)}
             IN  RtTracks(Track(T)) # {} /\ \A x \in RtTracks(Track(T)) : x.lay = l
  <2>1. \A T : RtTracks(Track(T)) = {x \in T : x.img = "rt"}
    BY DEF RtTracks, Track
  <2>2. \A i, l : Is(i, l).img = i /\ Is(i, l).lay = l
    BY DEF Is
  <2> QED  BY <2>1, <2>2
<1>6. \A o, p, m, n : RtMoves(Record(<<To("frame", o, m), To("frame", p, n)>>, {})) = {}
  BY DEF RtMoves, Record, To
<1> QED  BY <1>1, <1>2, <1>3, <1>4, <1>5, <1>6

\* Every function that uses the target is such a script.
LEMMA ShowScripts ==
    \A s \in RtFunctions : ShowSteps(Sites[s].steps, Records[s], Submits[s], Tracks[s], Leaves(s))
<1>1. ShowSteps(rt_tint.steps, 3, 6, 3, "color")
  <2> DEFINE step == rt_tint.steps
  <2> HIDE DEF step
  <2>1. \A k \in 1 .. 8 :
          /\ step[k].do = "record" => k = 3
          /\ step[k].do = "submit" => k = 6
          /\ step[k].do # "if"
    BY RtTintSteps, Fields DEF step
  <2>2. /\ step[3].do = "record" /\ TakesTo(step[3].moves, "color") /\ step[6].do = "submit"
        /\ RtTracks(step[3]) # {} /\ \A x \in RtTracks(step[3]) : x.lay = "color"
        /\ Len(step) = 8
    BY RtTintSteps, Fields, RtSteps, TakesColor DEF step
  <2> QED  BY <2>1, <2>2, RtSteps DEF ShowSteps, step
<1>2. ShowSteps(submit_clear_color.steps, 3, 6, 3, "color")
  <2> DEFINE step == submit_clear_color.steps
  <2> HIDE DEF step
  <2>1. \A k \in 1 .. 9 :
          /\ step[k].do = "record" => k = 3
          /\ step[k].do = "submit" => k = 6
          /\ step[k].do # "if"
    BY SubmitClearColorSteps, Fields DEF step
  <2>2. /\ step[3].do = "record" /\ TakesTo(step[3].moves, "color") /\ step[6].do = "submit"
        /\ RtTracks(step[3]) # {} /\ \A x \in RtTracks(step[3]) : x.lay = "color"
        /\ Len(step) = 9
    BY SubmitClearColorSteps, Fields, RtSteps, TakesColor DEF step
  <2> QED  BY <2>1, <2>2, RtSteps DEF ShowSteps, step
<1>3. ShowSteps(draw_rt.steps, 6, 9, 6, "color")
  <2> DEFINE step == draw_rt.steps
  <2> HIDE DEF step
  <2>1. \A k \in 1 .. 13 :
          /\ step[k].do = "record" => k = 6
          /\ step[k].do = "submit" => k = 9
          /\ step[k].do # "if"
    BY DrawRtSteps, Fields DEF step
  <2>2. /\ step[6].do = "record" /\ TakesTo(step[6].moves, "color") /\ step[9].do = "submit"
        /\ RtTracks(step[6]) # {} /\ \A x \in RtTracks(step[6]) : x.lay = "color"
        /\ Len(step) = 13
    BY DrawRtSteps, Fields, RtSteps, TakesColor DEF step
  <2> QED  BY <2>1, <2>2, RtSteps DEF ShowSteps, step
<1>4. ShowSteps(composite_over.steps, 3, 6, 3, "color")
  <2> DEFINE step == composite_over.steps
  <2> HIDE DEF step
  <2>1. \A k \in 1 .. 8 :
          /\ step[k].do = "record" => k = 3
          /\ step[k].do = "submit" => k = 6
          /\ step[k].do # "if"
    BY CompositeOverSteps, Fields DEF step
  <2>2. /\ step[3].do = "record" /\ TakesTo(step[3].moves, "color") /\ step[6].do = "submit"
        /\ RtTracks(step[3]) # {} /\ \A x \in RtTracks(step[3]) : x.lay = "color"
        /\ Len(step) = 8
    BY CompositeOverSteps, Fields, RtSteps, TakesColor DEF step
  <2> QED  BY <2>1, <2>2, RtSteps DEF ShowSteps, step
<1>5. ShowSteps(readback.steps, 6, 9, 12, "src")
  <2> DEFINE step == readback.steps
  <2> HIDE DEF step
  <2>1. \A k \in 1 .. 13 :
          /\ step[k].do = "record" => k \in {6, 12}
          /\ step[k].do = "submit" => k = 9
          /\ step[k].do # "if"
    BY ReadbackSteps, Fields DEF step
  <2>2. /\ step[6].do = "record" /\ TakesTo(step[6].moves, "src") /\ step[9].do = "submit"
        /\ RtTracks(step[12]) # {} /\ \A x \in RtTracks(step[12]) : x.lay = "src"
        /\ RtTracks(step[6]) = {} /\ RtMoves(step[12]) = {} /\ Len(step) = 13
    BY ReadbackSteps, Fields, RtSteps, TakesColor DEF step
  <2> QED  BY <2>1, <2>2, RtSteps DEF ShowSteps, step
<1>6. ShowSteps(present_surface.steps, 7, 10, 12, "src")
  <2> DEFINE step == present_surface.steps
  <2> HIDE DEF step
  <2>1. \A k \in 1 .. 14 :
          /\ step[k].do = "record" => k \in {7, 12}
          /\ step[k].do = "submit" => k = 10
          /\ step[k].do = "if" => k = 1
    BY PresentSurfaceSteps, Fields DEF step
  <2>2. /\ step[7].do = "record" /\ TakesTo(step[7].moves, "src") /\ step[10].do = "submit"
        /\ RtTracks(step[12]) # {} /\ \A x \in RtTracks(step[12]) : x.lay = "src"
        /\ RtTracks(step[7]) = {} /\ RtMoves(step[12]) = {} /\ Len(step) = 14 /\ step[1].n = 3
    BY PresentSurfaceSteps, Fields, RtSteps, TakesColor DEF step
  <2>3. ASSUME NEW k \in 1 .. 14, step[k].do = "if"
        PROVE  step[k].n \in Nat /\ \A x \in {7, 10, 12} : x \notin (k + 1) .. (k + step[k].n)
    BY <2>1, <2>2, <2>3
  <2> QED  BY <2>1, <2>2, <2>3, RtSteps DEF ShowSteps, step
<1>7. ASSUME NEW i \in {1, 2} PROVE ShowSteps(Sites[SendOf(i)].steps, 9, 13, 9, "color")
  <2> DEFINE step == Sites[SendOf(i)].steps
  <2>1. SendScript(step, Fence(i), Busy(i), IF i = 1 THEN "slot1.buf" ELSE "slot2.buf",
                   IF i = 1 THEN Set({"turn2"}) ELSE Free({"turn2"}))
    BY SendSteps
  <2>2. step[1].do \in {"set", "free"}
    BY <2>1, Fields DEF SendScript
  <2> HIDE DEF step
  <2>3. \A k \in 1 .. 18 :
          /\ step[k].do = "record" => k \in {9, 11}
          /\ step[k].do = "submit" => k = 13
          /\ step[k].do = "if" => k \in {2, 8, 10}
    BY <2>1, <2>2, Fields DEF SendScript
  <2>4. step[2].n = 2 /\ step[8].n = 1 /\ step[10].n = 1
    BY <2>1 DEF SendScript
  <2>5. /\ step[9].do = "record" /\ TakesTo(step[9].moves, "color") /\ step[13].do = "submit"
        /\ RtTracks(step[9]) # {} /\ (\A x \in RtTracks(step[9]) : x.lay = "color")
        /\ RtTracks(step[11]) = {} /\ RtMoves(step[11]) = {} /\ Len(step) = 18
    BY <2>1, Fields, RtSteps, TakesColor DEF SendScript
  <2>6. ASSUME NEW k \in 1 .. 18, step[k].do = "if"
        PROVE  /\ step[k].n \in Nat
               /\ \A x \in {9, 13, 9} : x \in (k + 1) .. (k + step[k].n) => x = 9
    BY <2>3, <2>4, <2>6
  <2> QED  BY <2>3, <2>5, <2>6, RtSteps DEF ShowSteps, step
<1>8. /\ Sites["rt_tint"] = rt_tint /\ Sites["readback"] = readback /\ Sites["draw_rt"] = draw_rt
       /\ Sites["composite_over"] = composite_over /\ Sites["present_surface"] = present_surface
       /\ Sites["submit_clear_color"] = submit_clear_color
  BY DEF Sites
<1>9. /\ ShowSteps(Sites["send_frame1"].steps, 9, 13, 9, "color")
      /\ ShowSteps(Sites["send_frame2"].steps, 9, 13, 9, "color")
  BY <1>7 DEF SendOf
<1> QED  BY <1>1, <1>2, <1>3, <1>4, <1>5, <1>6, <1>8, <1>9
  DEF RtFunctions, Records, Submits, Tracks, Leaves

-----------------------------------------------------------------------------
(* The invariant of the two threads. *)

Lays == {"none", "undef", "color", "src"}
Barriers == [old : Lays, new : Lays]
Marks == {"inside", "shared", "lost"}

LayoutTyped ==
    /\ run \in [Threads -> [fn : RtFunctions \cup {"none"}, at : Nat, barrier : Barriers,
                            marks : SUBSET Marks]]
    /\ layout \in Lays

\* Where thread t is in its function: past the record if it is inside, with the barrier
\* pending up to the submission; and, as long as no other thread uses the target, what it
\* has done to it stands.
Course(t, x, lay, img) ==
    LET r == Records[x.fn]
        u == Submits[x.fn]
        w == Tracks[x.fn]
        end == Leaves(x.fn)
    IN  IF x.fn = "none" THEN "inside" \notin x.marks
        ELSE /\ "inside" \notin x.marks => x.barrier = NoBarrier /\ (w # r => x.at <= r)
             /\ "inside" \in x.marks =>
                   /\ x.at > r
                   /\ x.at <= u => x.barrier.new = end
                   /\ "shared" \notin x.marks /\ x.at > w => lay = end
                   /\ x.marks = {"inside"} /\ x.at > u => img = end

\* Two threads inside have marked each other.
Marked == \A t \in Threads : Inside(t) /\ Inside(Other(t)) => "shared" \in run[t].marks

LayoutInv ==
    /\ LayoutTyped /\ Marked /\ RtLayoutTracked
    /\ \A t \in Threads : Course(t, run[t], layout, image)

\* Of the functions only this matters.
LEMMA Places ==
    ASSUME NEW s \in RtFunctions
    PROVE  /\ s # "none" /\ Leaves(s) \in {"color", "src"}
           /\ Records[s] \in Nat \ {0} /\ Submits[s] \in Nat /\ Tracks[s] \in Nat
           /\ Records[s] < Submits[s] /\ (Tracks[s] = Records[s] \/ Submits[s] < Tracks[s])
BY DEF RtFunctions, Records, Submits, Tracks, Leaves

\* A script is long enough for them.
LEMMA Lengths ==
    ASSUME NEW s \in RtFunctions
    PROVE  /\ Len(Sites[s].steps) \in Nat
           /\ Submits[s] <= Len(Sites[s].steps) /\ Tracks[s] <= Len(Sites[s].steps)
<1> DEFINE step == Sites[s].steps
           r == Records[s]
           u == Submits[s]
           w == Tracks[s]
<1>1. ShowSteps(step, r, u, w, Leaves(s))
  BY ShowScripts
<1> HIDE DEF step, r, u, w
<1>2. Len(step) \in Nat /\ {r, u, w} \subseteq 1 .. Len(step)
  BY <1>1, Zenon DEF ShowSteps
<1>3. u <= Len(step) /\ w <= Len(step)
  BY <1>2
<1> QED  BY <1>2, <1>3 DEF step, u, w

\* What a step of a script is, by its position.
StepShown(st, p, r, u, w, lay) ==
    /\ RtMoves(st) # {} => p = r
    /\ RtTracks(st) # {} => p = w
    /\ st.do = "submit" <=> p = u
    /\ p = r => RtMoves(st) # {} /\ TakesTo(st.moves, lay)
    /\ p = w => RtTracks(st) # {} /\ \A x \in RtTracks(st) : x.lay = lay
    /\ st.do = "if" => /\ st.n \in Nat
                       /\ \A x \in {r, u, w} : x \in (p + 1) .. (p + st.n) => x = r /\ w = r

LEMMA AtPlace ==
    ASSUME NEW s \in RtFunctions, NEW p \in 1 .. Len(Sites[s].steps)
    PROVE  StepShown(Sites[s].steps[p], p, Records[s], Submits[s], Tracks[s], Leaves(s))
<1> DEFINE step == Sites[s].steps
           r == Records[s]
           u == Submits[s]
           w == Tracks[s]
<1>1. ShowSteps(step, r, u, w, Leaves(s)) /\ p \in 1 .. Len(step)
  BY ShowScripts
<1> HIDE DEF step, r, u, w
<1>2. /\ RtMoves(step[p]) # {} => p = r
      /\ RtTracks(step[p]) # {} => p = w
      /\ step[p].do = "submit" => p = u
      /\ step[p].do = "if" =>
            /\ step[p].n \in Nat
            /\ \A x \in {r, u, w} : x \in (p + 1) .. (p + step[p].n) => x = r /\ w = r
  BY <1>1, Zenon DEF ShowSteps
<1>3. /\ step[r].do = "record" /\ TakesTo(step[r].moves, Leaves(s)) /\ step[u].do = "submit"
      /\ RtTracks(step[w]) # {} /\ \A x \in RtTracks(step[w]) : x.lay = Leaves(s)
  BY <1>1, Zenon DEF ShowSteps
<1>4. RtMoves(step[r]) # {}
  BY <1>3 DEF RtMoves, TakesTo
<1>5. StepShown(step[p], p, r, u, w, Leaves(s))
  BY <1>2, <1>3, <1>4, Zenon DEF StepShown
<1> QED  BY <1>5 DEF step, r, u, w

\* The barrier that is recorded takes the image to the layout the function leaves.
LEMMA LastMove ==
    ASSUME NEW m, NEW lay, TakesTo(m, lay), NEW mine, mine = {k \in 1 .. Len(m) : m[k].img = "rt"}
    PROVE  m[CHOOSE k \in mine : \A j \in mine : j <= k].new = lay
<1>1. PICK n \in 1 .. Len(m) : /\ m[n].img = "rt" /\ m[n].new = lay
                               /\ \A j \in (n + 1) .. Len(m) : m[j].img # "rt"
  BY DEF TakesTo
<1>2. Len(m) \in Nat
  BY DEF TakesTo
<1>3. n \in mine /\ (\A j \in mine : j <= n) /\ mine \subseteq Int
  BY <1>1, <1>2
<1> DEFINE c == CHOOSE k \in mine : \A j \in mine : j <= k
<1>4. c \in mine /\ \A j \in mine : j <= c
  BY <1>3
<1> HIDE DEF c
<1>5. c = n
  BY <1>3, <1>4
<1> QED  BY <1>1, <1>5 DEF c

-----------------------------------------------------------------------------
(* The invariant is kept. *)

LEMMA TwoThreads ==
    /\ Threads = {"drain", "tick"}
    /\ \A t \in Threads : Other(t) \in Threads /\ Other(t) # t /\ Other(Other(t)) = t
    /\ \A t \in Threads : Threads = {t, Other(t)}
BY DEF Threads, Other

\* What Uses does to the two threads.
LEMMA UsesEffect ==
    ASSUME LayoutTyped, NEW t \in Threads, NEW b \in Barriers, NEW M \in SUBSET Marks, Uses(t, b, M)
    PROVE  /\ run' \in [Threads -> [fn : RtFunctions \cup {"none"}, at : Nat, barrier : Barriers,
                                    marks : SUBSET Marks]]
           /\ run'[t].fn = run[t].fn /\ run'[t].at = run[t].at + 1 /\ run'[t].barrier = b
           /\ run'[t].marks = run[t].marks \cup M \cup {"inside"}
                              \cup (IF Inside(Other(t)) THEN {"shared"} ELSE {})
           /\ LET o == Other(t)
              IN  /\ run'[o].fn = run[o].fn /\ run'[o].at = run[o].at
                  /\ run'[o].barrier = run[o].barrier
                  /\ run'[o].marks = run[o].marks \cup (IF Inside(o) THEN {"shared"} ELSE {})
<1> DEFINE o == Other(t)
           sharing == IF Inside(o) THEN {"shared"} ELSE {}
           mt == run[t].marks \cup M \cup {"inside"} \cup sharing
           mo == run[o].marks \cup sharing
           xt == [fn |-> run[t].fn, at |-> run[t].at + 1, barrier |-> b, marks |-> mt]
           xo == [fn |-> run[o].fn, at |-> run[o].at, barrier |-> run[o].barrier, marks |-> mo]
<1>1. o \in Threads /\ o # t /\ Threads = {t, o}
  BY TwoThreads
<1>2. sharing \subseteq Marks /\ {"inside"} \subseteq Marks
  BY DEF Marks
<1>3. /\ run[t] \in [fn : RtFunctions \cup {"none"}, at : Nat, barrier : Barriers, marks : SUBSET Marks]
      /\ run[o] \in [fn : RtFunctions \cup {"none"}, at : Nat, barrier : Barriers, marks : SUBSET Marks]
  BY <1>1 DEF LayoutTyped
<1>4. run' = [run EXCEPT ![t].at = @ + 1, ![t].barrier = b,
                         ![t].marks = @ \cup M \cup {"inside"} \cup sharing,
                         ![o].marks = @ \cup sharing]
  BY DEF Uses
<1> HIDE DEF o, sharing, Inside
<1>5. run' \in [Threads -> [fn : RtFunctions \cup {"none"}, at : Nat, barrier : Barriers,
                            marks : SUBSET Marks]]
  <2> HIDE DEF Barriers, Marks
  <2> QED  BY <1>1, <1>2, <1>3, <1>4 DEF LayoutTyped
<1>6. /\ run'[t].fn = run[t].fn /\ run'[t].at = run[t].at + 1 /\ run'[t].barrier = b
      /\ run'[t].marks = mt
  BY <1>1, <1>3, <1>4 DEF LayoutTyped
<1>7. /\ run'[o].fn = run[o].fn /\ run'[o].at = run[o].at /\ run'[o].barrier = run[o].barrier
      /\ run'[o].marks = mo
  BY <1>1, <1>3, <1>4 DEF LayoutTyped
<1> QED  BY <1>5, <1>6, <1>7 DEF o, sharing

\* A thread that uses the target: its own course is what has to be shown.
LEMMA UsesKeeps ==
    ASSUME LayoutInv, NEW t \in Threads, NEW b \in Barriers, NEW M \in SUBSET Marks, Uses(t, b, M),
           layout' \in Lays, Course(t, run[t], layout, image)'
    PROVE  LayoutInv'
<1> DEFINE o == Other(t)
<1>1. o \in Threads /\ o # t /\ Threads = {t, o} /\ Other(o) = t
  BY TwoThreads
<1>2. LayoutTyped
  BY DEF LayoutInv
<1>3. LayoutTyped'
  BY <1>2, UsesEffect DEF LayoutTyped
<1>4. /\ "inside" \in run'[t].marks
      /\ run'[o].fn = run[o].fn /\ run'[o].at = run[o].at /\ run'[o].barrier = run[o].barrier
      /\ "inside" \in run'[o].marks => /\ "inside" \in run[o].marks
                                       /\ "shared" \in run'[o].marks /\ "shared" \in run'[t].marks
      /\ "inside" \in run[o].marks => "inside" \in run'[o].marks
      /\ run[o].marks \subseteq run'[o].marks
  BY <1>2, UsesEffect DEF Inside
<1>5. Marked'
  BY <1>1, <1>4 DEF Marked, Inside
<1>6. RtLayoutTracked'
  BY <1>4 DEF RtLayoutTracked, Inside
<1>7. Course(o, run[o], layout, image)'
  <2>1. Course(o, run[o], layout, image)
    BY <1>1 DEF LayoutInv
  <2>2. run'[o].marks # {"inside"}
    BY <1>4
  <2>3. CASE run[o].fn = "none"
    BY <1>4, <2>1, <2>3 DEF Course
  <2>4. CASE run[o].fn # "none"
    <3>1. CASE "inside" \notin run[o].marks
      BY <1>4, <2>1, <2>4, <3>1 DEF Course
    <3>2. CASE "inside" \in run[o].marks
      BY <1>4, <2>1, <2>2, <2>4, <3>2 DEF Course
    <3> QED  BY <3>1, <3>2
  <2> QED  BY <2>3, <2>4
<1> HIDE DEF o
<1>8. \A x \in Threads : Course(x, run[x], layout, image)'
  BY <1>1, <1>7
<1> QED  BY <1>3, <1>5, <1>6, <1>8 DEF LayoutInv

\* A thread of which only the place changes, or that ends: the other is where it was.
LEMMA AloneKeeps ==
    ASSUME LayoutInv, NEW t \in Threads, NEW x, run' = [run EXCEPT ![t] = x],
           x \in [fn : RtFunctions \cup {"none"}, at : Nat, barrier : Barriers, marks : SUBSET Marks],
           UNCHANGED <<layout, image>>, Course(t, x, layout, image),
           x.marks \in {{}, run[t].marks}, RtLayoutTracked'
    PROVE  LayoutInv'
<1> DEFINE o == Other(t)
<1>1. o \in Threads /\ o # t /\ Threads = {t, o} /\ Other(o) = t
  BY TwoThreads
<1>2. LayoutTyped /\ run'[t] = x /\ run'[o] = run[o]
  BY <1>1 DEF LayoutInv, LayoutTyped
<1>3. LayoutTyped'
  BY <1>2 DEF LayoutTyped
<1>4. Marked'
  BY <1>1, <1>2 DEF LayoutInv, Marked, Inside
<1>5. Course(o, run[o], layout, image)' /\ Course(t, run[t], layout, image)'
  BY <1>1, <1>2 DEF LayoutInv, Course
<1> HIDE DEF o
<1>6. \A y \in Threads : Course(y, run[y], layout, image)'
  BY <1>1, <1>5
<1> QED  BY <1>3, <1>4, <1>6 DEF LayoutInv

LEMMA LayoutStart == LayoutInit => LayoutInv
<1> SUFFICES ASSUME LayoutInit PROVE LayoutInv
  OBVIOUS
<1>1. \A t \in Threads : run[t] = NotRunning
  BY DEF LayoutInit
<1>2. NotRunning \in [fn : RtFunctions \cup {"none"}, at : Nat, barrier : Barriers, marks : SUBSET Marks]
  BY DEF NotRunning, NoBarrier, Barriers, Lays
<1>3. LayoutTyped
  BY <1>2 DEF LayoutInit, LayoutTyped, Lays
<1>4. NotRunning.fn = "none" /\ NotRunning.marks = {}
  BY DEF NotRunning
<1>5. Marked /\ RtLayoutTracked /\ \A t \in Threads : Course(t, run[t], layout, image)
  BY <1>1, <1>4 DEF Marked, RtLayoutTracked, Inside, Course, LayoutInit
<1> QED  BY <1>3, <1>5 DEF LayoutInv

\* A function begins.
LEMMA BeginKeeps ==
    ASSUME LayoutInv, NEW t \in Threads, NEW s \in RtFunctions, Begin(t, s)
    PROVE  LayoutInv'
<1> DEFINE x == [NotRunning EXCEPT !.fn = s, !.at = 1]
<1>1. /\ x.fn = s /\ x.at = 1 /\ x.barrier = NoBarrier /\ x.marks = {}
      /\ x \in [fn : RtFunctions \cup {"none"}, at : Nat, barrier : Barriers, marks : SUBSET Marks]
  BY DEF NotRunning, NoBarrier, Barriers, Lays
<1>2. run' = [run EXCEPT ![t] = x] /\ UNCHANGED <<layout, image, skewed>> /\ run[t].fn = "none"
  BY DEF Begin, Running
<1> HIDE DEF x
<1>3. Course(t, x, layout, image)
  BY <1>1, Places DEF Course
<1>4. "inside" \notin run[t].marks
  BY <1>2 DEF LayoutInv, Course
<1>5. RtLayoutTracked'
  <2>1. \A y \in Threads : Inside(y)' <=> Inside(y)
    BY <1>1, <1>2, <1>4 DEF Inside, LayoutInv, LayoutTyped
  <2> QED  BY <1>2, <2>1 DEF LayoutInv, RtLayoutTracked
<1> QED  BY <1>1, <1>2, <1>3, <1>5, AloneKeeps

\* A function ends.
LEMMA EndKeeps ==
    ASSUME LayoutInv, NEW t \in Threads, Finish(t) \/ Break(t)
    PROVE  LayoutInv'
<1> DEFINE o == Other(t)
           x == NotRunning
<1>1. o \in Threads /\ o # t /\ Threads = {t, o}
  BY TwoThreads
<1>2. /\ x.fn = "none" /\ x.marks = {}
      /\ x \in [fn : RtFunctions \cup {"none"}, at : Nat, barrier : Barriers, marks : SUBSET Marks]
  BY DEF NotRunning, NoBarrier, Barriers, Lays
<1>3. /\ run' = [run EXCEPT ![t] = x] /\ UNCHANGED <<layout, image>> /\ run[t].fn # "none"
      /\ ~Inside(t) => skewed' = skewed
  BY Zenon DEF Finish, Break, EndRun, AtStep, Running
<1>4. Inside(t) /\ ~skewed' => run[t].marks = {"inside"} /\ run[t].at = Len(Steps(t)) + 1
  <2>1. CASE Finish(t)
    BY <2>1, Zenon DEF Finish, EndRun
  <2>2. CASE Break(t)
    BY <2>2, Zenon DEF Break, EndRun
  <2> QED  BY <2>1, <2>2
<1>5. run'[t] = x /\ run'[o] = run[o]
  BY <1>1, <1>3 DEF LayoutInv, LayoutTyped
<1> HIDE DEF x
<1>6. Course(t, x, layout, image)
  BY <1>2 DEF Course
<1>7. RtLayoutTracked'
  <2> SUFFICES ASSUME \A y \in Threads : ~Inside(y)', ~skewed' PROVE layout \in {"undef", image}
    BY <1>3 DEF RtLayoutTracked
  <2>1. ~Inside(o)
    BY <1>1, <1>5 DEF Inside
  <2>2. CASE Inside(t)
    <3> DEFINE s == run[t].fn
    <3>1. s \in RtFunctions /\ run[t].at \in Nat
      BY <1>3 DEF LayoutInv, LayoutTyped
    <3>2. run[t].marks = {"inside"} /\ run[t].at = Len(Sites[s].steps) + 1
      BY <1>4, <2>2 DEF Steps
    <3>3. run[t].at > Submits[s] /\ run[t].at > Tracks[s]
      BY <3>1, <3>2, Lengths, Places
    <3>4. Course(t, run[t], layout, image)
      BY DEF LayoutInv
    <3>5. "inside" \in run[t].marks /\ "shared" \notin run[t].marks
      BY <3>2
    <3>6. layout = Leaves(s) /\ image = Leaves(s)
      BY <1>3, <3>2, <3>3, <3>4, <3>5 DEF Course
    <3> QED  BY <3>6
  <2>3. CASE ~Inside(t)
    BY <1>1, <1>3, <2>1, <2>3 DEF LayoutInv, RtLayoutTracked
  <2> QED  BY <2>2, <2>3
<1> QED  BY <1>2, <1>3, <1>6, <1>7, AloneKeeps

\* Where a running thread is.
LEMMA StepPlace ==
    ASSUME LayoutInv, NEW t \in Threads, AtStep(t)
    PROVE  /\ run[t].fn \in RtFunctions /\ run[t].at \in 1 .. Len(Sites[run[t].fn].steps)
           /\ StepOf(t) = Sites[run[t].fn].steps[run[t].at]
           /\ run[t].barrier \in Barriers
           /\ Course(t, run[t], layout, image)
BY DEF LayoutInv, LayoutTyped, AtStep, Running, StepOf, Steps

\* A barrier is recorded, or the layout set.
LEMMA RecordKeeps ==
    ASSUME LayoutInv, NEW t \in Threads, RecordRt(t)
    PROVE  LayoutInv'
<1> DEFINE s == run[t].fn
           st == StepOf(t)
           r == Records[s]
           u == Submits[s]
           w == Tracks[s]
           end == Leaves(s)
           b == Recorded(t)
<1>1. /\ AtStep(t) /\ (RtMoves(st) # {} \/ RtTracks(st) # {}) /\ Uses(t, b, {})
      /\ layout' = IF RtTracks(st) = {} THEN layout ELSE (CHOOSE x \in RtTracks(st) : TRUE).lay
      /\ image' = image
  BY DEF RecordRt
<1>2. /\ s \in RtFunctions /\ run[t].at \in 1 .. Len(Sites[s].steps)
      /\ st = Sites[s].steps[run[t].at] /\ run[t].barrier \in Barriers
      /\ Course(t, run[t], layout, image)
  BY <1>1, StepPlace
<1>3. /\ RtMoves(st) # {} => run[t].at = r
      /\ RtTracks(st) # {} => run[t].at = w
      /\ run[t].at = r => RtMoves(st) # {} /\ TakesTo(st.moves, end)
      /\ run[t].at = w => RtTracks(st) # {} /\ \A x \in RtTracks(st) : x.lay = end
  <2>1. StepShown(st, run[t].at, r, u, w, end)
    BY <1>2, AtPlace
  <2> HIDE DEF s, st, r, u, w, end
  <2> QED  BY <2>1, Zenon DEF StepShown
<1>4. /\ s # "none" /\ end \in {"color", "src"} /\ r \in Nat /\ u \in Nat /\ w \in Nat
      /\ r < u /\ (w = r \/ u < w)
  BY <1>2, Places
<1>5. layout \in Lays /\ LayoutTyped
  BY DEF LayoutInv, LayoutTyped
<1>6. layout' = (IF run[t].at = w THEN end ELSE layout) /\ layout' \in Lays
  <2>1. run[t].at # w => RtTracks(st) = {}
    BY <1>3
  <2>2. CASE RtTracks(st) = {}
    BY <1>1, <1>3, <1>5, <2>2
  <2>3. CASE RtTracks(st) # {}
    <3>1. (CHOOSE x \in RtTracks(st) : TRUE) \in RtTracks(st)
      BY <2>3
    <3>2. layout' = end
      BY <1>1, <1>3, <2>3, <3>1
    <3> QED  BY <1>3, <1>4, <2>3, <3>2 DEF Lays
  <2> QED  BY <2>2, <2>3
<1>7. CASE run[t].at = r
  <2>1. RtMoves(st) = {k \in 1 .. Len(st.moves) : st.moves[k].img = "rt"} /\ RtMoves(st) # {}
    BY <1>3, <1>7 DEF RtMoves
  <2>2. st.moves[CHOOSE k \in RtMoves(st) : \A j \in RtMoves(st) : j <= k].new = end
    <3> DEFINE m == st.moves
               mine == RtMoves(st)
    <3>1. TakesTo(m, end) /\ mine = {k \in 1 .. Len(m) : m[k].img = "rt"}
      BY <1>3, <1>7, <2>1
    <3> HIDE DEF m, mine, end
    <3>2. m[CHOOSE k \in mine : \A j \in mine : j <= k].new = end
      BY <3>1, LastMove
    <3> QED  BY <3>2 DEF m, mine
  <2>3. b = [old |-> layout, new |-> end]
    BY <2>1, <2>2 DEF Recorded
  <2>4. b \in Barriers /\ b.new = end
    BY <1>4, <1>5, <2>3 DEF Barriers, Lays
  <2> HIDE DEF b
  <2>5. /\ run'[t].fn = s /\ run'[t].at = r + 1 /\ run'[t].barrier = b /\ "inside" \in run'[t].marks
    BY <1>1, <1>5, <1>7, <2>4, UsesEffect
  <2>6. /\ r + 1 > r /\ ~(r + 1 > u) /\ (r + 1 > w => w = r)
    BY <1>4
  <2>7. layout' = IF w = r THEN end ELSE layout
    BY <1>6, <1>7
  <2> HIDE DEF r, u, w, s, end
  <2>8. Course(t, run[t], layout, image)'
    BY <1>4, <2>4, <2>5, <2>6, <2>7 DEF Course, r, u, w, s, end
  <2> QED  BY <1>1, <1>6, <2>4, <2>8, UsesKeeps
<1>8. CASE run[t].at # r
  <2>1. run[t].at = w /\ w # r /\ u < w
    BY <1>1, <1>3, <1>4, <1>8
  <2>2. "inside" \in run[t].marks
    <3>1. "inside" \notin run[t].marks => run[t].at <= r
      BY <1>2, <1>4, <2>1 DEF Course
    <3> QED  BY <1>4, <2>1, <3>1
  <2>3. b = run[t].barrier
    BY <1>3, <1>8 DEF Recorded
  <2>4. b \in Barriers
    BY <1>2, <2>3
  <2> HIDE DEF b
  <2>5. /\ run'[t].fn = s /\ run'[t].at = w + 1 /\ "inside" \in run'[t].marks
        /\ run[t].marks \subseteq run'[t].marks
    BY <1>1, <1>5, <2>1, <2>4, UsesEffect
  <2>6. /\ w + 1 > r /\ ~(w + 1 <= u) /\ run[t].at > u
    BY <1>4, <2>1
  <2>7. layout' = end
    BY <1>6, <2>1
  <2>8. run'[t].marks = {"inside"} => run[t].marks = {"inside"}
    BY <2>2, <2>5
  <2>9. run[t].marks = {"inside"} => image = end
    BY <1>2, <1>4, <2>2, <2>6 DEF Course
  <2> HIDE DEF r, u, w, s, end
  <2>10. Course(t, run[t], layout, image)'
    BY <1>1, <1>4, <2>5, <2>6, <2>7, <2>8, <2>9 DEF Course, r, u, w, s, end
  <2> QED  BY <1>1, <1>6, <2>4, <2>10, UsesKeeps
<1> QED  BY <1>7, <1>8

\* The barrier is submitted, or lost.
LEMMA SubmitKeeps ==
    ASSUME LayoutInv, NEW t \in Threads, SubmitRt(t)
    PROVE  LayoutInv'
<1> DEFINE s == run[t].fn
           r == Records[s]
           u == Submits[s]
           w == Tracks[s]
           end == Leaves(s)
<1>1. AtStep(t) /\ StepOf(t).do = "submit" /\ run[t].barrier # NoBarrier /\ layout' = layout
  BY DEF SubmitRt
<1>2. /\ s \in RtFunctions /\ run[t].at \in 1 .. Len(Sites[s].steps)
      /\ StepOf(t) = Sites[s].steps[run[t].at]
      /\ Course(t, run[t], layout, image)
  BY <1>1, StepPlace
<1>3. run[t].at = u
  <2>1. StepShown(StepOf(t), run[t].at, r, u, w, end)
    BY <1>2, AtPlace
  <2> HIDE DEF s, r, u, w, end
  <2> QED  BY <1>1, <2>1, Zenon DEF StepShown
<1>4. /\ s # "none" /\ r \in Nat /\ u \in Nat /\ w \in Nat /\ r < u /\ (w = r \/ u < w)
  BY <1>2, Places
<1>5. layout \in Lays /\ LayoutTyped
  BY DEF LayoutInv, LayoutTyped
<1>6. /\ "inside" \in run[t].marks /\ run[t].barrier.new = end
      /\ "shared" \notin run[t].marks /\ u > w => layout = end
  <2>1. "inside" \in run[t].marks
    BY <1>1, <1>2, <1>4 DEF Course
  <2>2. u <= u
    BY <1>4
  <2> QED  BY <1>2, <1>3, <1>4, <2>1, <2>2 DEF Course
<1>7. NoBarrier \in Barriers /\ {} \in SUBSET Marks /\ {"lost"} \in SUBSET Marks
  BY DEF NoBarrier, Barriers, Lays, Marks
<1>8. u + 1 > r /\ ~(u + 1 <= u) /\ (u + 1 > w => u > w)
  BY <1>4
<1>9. CASE Uses(t, NoBarrier, {}) /\ image' = run[t].barrier.new
  <2>1. /\ run'[t].fn = s /\ run'[t].at = u + 1 /\ "inside" \in run'[t].marks
        /\ run[t].marks \subseteq run'[t].marks
    BY <1>3, <1>5, <1>7, <1>9, UsesEffect
  <2>2. image' = end
    BY <1>6, <1>9
  <2> HIDE DEF r, u, w, s, end
  <2>3. Course(t, run[t], layout, image)'
    BY <1>1, <1>4, <1>6, <1>8, <2>1, <2>2 DEF Course, r, u, w, s, end
  <2> QED  BY <1>1, <1>5, <1>7, <1>9, <2>3, UsesKeeps
<1>10. CASE Uses(t, NoBarrier, {"lost"})
  <2>1. /\ run'[t].fn = s /\ run'[t].at = u + 1 /\ {"inside", "lost"} \subseteq run'[t].marks
        /\ run[t].marks \subseteq run'[t].marks
    BY <1>3, <1>5, <1>7, <1>10, UsesEffect
  <2>2. run'[t].marks # {"inside"}
    BY <2>1
  <2> HIDE DEF r, u, w, s, end
  <2>3. Course(t, run[t], layout, image)'
    BY <1>1, <1>4, <1>6, <1>8, <2>1, <2>2 DEF Course, r, u, w, s, end
  <2> QED  BY <1>1, <1>5, <1>7, <1>10, <2>3, UsesKeeps
<1> QED  BY <1>9, <1>10 DEF SubmitRt

\* Any other step.
LEMMA PassKeeps ==
    ASSUME LayoutInv, NEW t \in Threads, PassStep(t)
    PROVE  LayoutInv'
<1> DEFINE s == run[t].fn
           st == StepOf(t)
           p == run[t].at
           r == Records[s]
           u == Submits[s]
           w == Tracks[s]
           end == Leaves(s)
<1>1. /\ AtStep(t) /\ RtMoves(st) = {} /\ RtTracks(st) = {}
      /\ st.do = "submit" => run[t].barrier = NoBarrier
      /\ UNCHANGED <<layout, image, skewed>>
  BY DEF PassStep
<1>2. PICK n : n \in {1} \cup (IF st.do = "if" THEN {1 + st.n} ELSE {})
               /\ run' = [run EXCEPT ![t].at = @ + n]
  BY DEF PassStep
<1>3. /\ s \in RtFunctions /\ p \in 1 .. Len(Sites[s].steps) /\ st = Sites[s].steps[p]
      /\ run[t].barrier \in Barriers /\ Course(t, run[t], layout, image)
  BY <1>1, StepPlace
<1>4. /\ p # r /\ p # w
      /\ st.do = "submit" <=> p = u
      /\ st.do = "if" => /\ st.n \in Nat
                         /\ \A x \in {r, u, w} : x \in (p + 1) .. (p + st.n) => x = r /\ w = r
  <2>1. StepShown(st, p, r, u, w, end)
    BY <1>3, AtPlace
  <2> HIDE DEF s, st, p, r, u, w, end
  <2> QED  BY <1>1, <2>1, Zenon DEF StepShown
<1>5. /\ s # "none" /\ r \in Nat /\ u \in Nat /\ w \in Nat /\ r < u /\ (w = r \/ u < w) /\ p \in Nat
      /\ end # "none"
  <2>1. Len(Sites[s].steps) \in Nat
    BY <1>3, Lengths
  <2> QED  BY <1>3, <2>1, Places
<1>6. n \in Nat \ {0} /\ \A x \in {r, u, w} : x \in (p + 1) .. (p + n - 1) => x = r /\ w = r
  <2>1. CASE n = 1
    BY <1>5, <2>1
  <2>2. CASE n # 1
    <3>1. st.do = "if" /\ n = 1 + st.n
      BY <1>2, <2>2
    <3>2. st.n \in Nat /\ p + n - 1 = p + st.n
      BY <1>4, <1>5, <3>1
    <3> QED  BY <1>4, <3>1, <3>2
  <2> QED  BY <2>1, <2>2
<1> DEFINE x == [run[t] EXCEPT !.at = @ + n]
<1>7. /\ x.fn = s /\ x.at = p + n /\ x.barrier = run[t].barrier /\ x.marks = run[t].marks
      /\ x \in [fn : RtFunctions \cup {"none"}, at : Nat, barrier : Barriers, marks : SUBSET Marks]
      /\ run' = [run EXCEPT ![t] = x]
  <2>1. run[t] \in [fn : RtFunctions \cup {"none"}, at : Nat, barrier : Barriers, marks : SUBSET Marks]
    BY DEF LayoutInv, LayoutTyped
  <2> HIDE DEF Barriers
  <2> QED  BY <1>2, <1>6, <2>1 DEF LayoutInv, LayoutTyped
<1> HIDE DEF x
<1>8. Course(t, x, layout, image)
  <2>1. CASE "inside" \in run[t].marks
    <3>1. p > r /\ (p <= u => run[t].barrier.new = end)
      BY <1>3, <1>5, <2>1 DEF Course
    <3>2. p # u
      <4>1. p = u => run[t].barrier.new = end
        BY <1>5, <3>1
      <4>2. NoBarrier.new # end
        BY <1>5 DEF NoBarrier
      <4>3. p = u => run[t].barrier = NoBarrier
        BY <1>1, <1>4
      <4> QED  BY <4>1, <4>2, <4>3
    <3>3. p + n > r /\ (p + n <= u => p <= u) /\ (p + n > w => p > w) /\ (p + n > u => p > u)
      <4>1. \A y \in {u, w} : y > p => y \notin (p + 1) .. (p + n - 1)
        BY <1>5, <1>6, <3>1
      <4> HIDE DEF r, u, w, p
      <4>2. \A y \in {u, w} : p + n > y => p > y
        BY <1>4, <1>5, <1>6, <3>2, <4>1
      <4> QED  BY <1>5, <1>6, <3>1, <4>2
    <3> HIDE DEF r, u, w, s, end, p
    <3> QED  BY <1>3, <1>5, <1>7, <2>1, <3>1, <3>3 DEF Course, r, u, w, s, end, p
  <2>2. CASE "inside" \notin run[t].marks
    <3>1. run[t].barrier = NoBarrier /\ (w # r => p <= r)
      BY <1>3, <1>5, <2>2 DEF Course
    <3>2. w # r => p + n <= r
      BY <1>4, <1>5, <1>6, <3>1
    <3> HIDE DEF r, u, w, s, end, p
    <3> QED  BY <1>5, <1>7, <2>2, <3>1, <3>2 DEF Course, r, u, w, s, end, p
  <2> QED  BY <2>1, <2>2
<1>9. RtLayoutTracked'
  <2>1. \A y \in Threads : Inside(y)' <=> Inside(y)
    BY <1>7 DEF Inside, LayoutInv, LayoutTyped
  <2> QED  BY <1>1, <2>1 DEF LayoutInv, RtLayoutTracked
<1> QED  BY <1>1, <1>7, <1>8, <1>9, AloneKeeps

LEMMA LayoutStep ==
    ASSUME LayoutInv, [LayoutNext]_layoutVars
    PROVE  LayoutInv'
<1>1. CASE Handle
  <2>1. "drain" \in Threads
    BY DEF Threads
  <2> QED  BY <1>1, <2>1, BeginKeeps DEF Handle
<1>2. CASE lagfx_display_read_frame
  <2>1. "tick" \in Threads /\ "readback" \in RtFunctions
    BY DEF Threads, RtFunctions
  <2> QED  BY <1>2, <2>1, BeginKeeps DEF lagfx_display_read_frame
<1>3. ASSUME NEW t \in Threads, Finish(t) \/ Break(t) \/ RecordRt(t) \/ SubmitRt(t) \/ PassStep(t)
      PROVE  LayoutInv'
  BY <1>3, EndKeeps, RecordKeeps, SubmitKeeps, PassKeeps
<1>4. CASE UNCHANGED layoutVars
  BY <1>4 DEF layoutVars, LayoutInv, LayoutTyped, Marked, RtLayoutTracked, Inside, Course
<1> QED  BY <1>1, <1>2, <1>3, <1>4 DEF LayoutNext

\* However the steps of the two threads interleave and whichever calls fail, rt->layout is
\* right again as soon as one function has had the target for itself.
THEOREM RtLayoutTrackedAlways ==
    LayoutSpec => []RtLayoutTracked
<1>1. LayoutInv => RtLayoutTracked
  BY DEF LayoutInv
<1> QED  BY <1>1, LayoutStart, LayoutStep, PTL DEF LayoutSpec

=============================================================================
