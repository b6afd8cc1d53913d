------------------------------ MODULE RtLayout ------------------------------
(***************************************************************************)
(* The layout of a display's render target, which two threads change: the  *)
(* one that drains the rings runs the functions of GpuSites that draw to   *)
(* the target or read it, and the one of the display's timer reads it back *)
(* for the shell (lagfx_display_read_frame).  rt_lock is held to read      *)
(* rt_ready or to take the address of the target, never while the target   *)
(* is used, so the steps of the two interleave.                            *)
(*                                                                         *)
(* A target that has just been made; each thread runs one script at a      *)
(* time, any call failing.  Only barriers on the target are followed.      *)
(***************************************************************************)
EXTENDS GpuSites

CONSTANT MaxBroken   \* bound: calls that fail

ASSUME BrokenAssumption == MaxBroken \in Nat

VARIABLES
    run,      \* of each thread: the function it is in and where
    layout,   \* rt->layout, which the next barrier names as the old layout
    image,    \* the layout the submissions so far leave the image in
    broken,   \* calls that failed
    skewed,   \* history: a function was cut short or shared the target, and none since ran alone
    misnamed  \* history: a barrier named a layout the image did not have

layoutVars == <<run, layout, image, broken, skewed, misnamed>>

Threads == {"drain", "tick"}
Other(t) == IF t = "drain" THEN "tick" ELSE "drain"

\* The functions that give the image of the target a layout.
RtFunctions == {"rt_tint", "submit_clear_color", "readback", "draw_rt", "composite_over",
                "present_surface", "send_frame1", "send_frame2"}

\* barrier: the layouts between which the barriers recorded and not yet submitted take the
\* image.  marks: "inside" once the function has begun to use the target, "shared" if
\* another used it meanwhile, "lost" if its submission was.
NoBarrier == [old |-> "none", new |-> "none"]
NotRunning == [fn |-> "none", at |-> 0, barrier |-> NoBarrier, marks |-> {}]

Running(t) == run[t].fn # "none"
Steps(t) == Sites[run[t].fn].steps
StepOf(t) == Steps(t)[run[t].at]
Inside(t) == "inside" \in run[t].marks
AtStep(t) == Running(t) /\ run[t].at \in 1 .. Len(Steps(t))

\* Calls whose failure ends the function.
CanFail(st) ==
    \/ st.do \in {"make", "submit"} /\ st.must
    \/ st.do \in {"try", "reset"}
    \/ st.do = "wait" /\ st.late \in {"fail", "idle"}

LayoutInit ==
    /\ run = [t \in Threads |-> NotRunning]
    /\ layout = "undef" /\ image = "undef" /\ broken = 0
    /\ skewed = FALSE /\ misnamed = FALSE

Begin(t, fn) ==
    /\ ~Running(t)
    /\ run' = [run EXCEPT ![t] = [NotRunning EXCEPT !.fn = fn, !.at = 1]]
    /\ UNCHANGED <<layout, image, broken, skewed, misnamed>>

\* The drain runs a handler that uses the target.
Handle == \E fn \in RtFunctions : Begin("drain", fn)

lagfx_display_read_frame == Begin("tick", "readback")

\* Thread t is done with the function.
EndRun(t, clean) ==
    /\ run' = [run EXCEPT ![t] = NotRunning]
    /\ skewed' = IF Inside(t) THEN ~clean ELSE skewed
    /\ UNCHANGED <<layout, image, misnamed>>

Finish(t) ==
    /\ Running(t) /\ run[t].at = Len(Steps(t)) + 1
    /\ EndRun(t, run[t].marks = {"inside"}) /\ UNCHANGED broken

Break(t) ==
    /\ AtStep(t) /\ CanFail(StepOf(t)) /\ broken < MaxBroken
    /\ broken' = broken + 1 /\ EndRun(t, FALSE)

\* Thread t goes on, with a barrier pending or none, having used the target.
Uses(t, barrier, marks) ==
    LET sharing == IF Inside(Other(t)) THEN {"shared"} ELSE {}
    IN  run' = [run EXCEPT ![t].at = @ + 1, ![t].barrier = barrier,
                           ![t].marks = @ \cup marks \cup {"inside"} \cup sharing,
                           ![Other(t)].marks = @ \cup sharing]

\* The barriers on the target a step records, and the layouts it sets.
RtMoves(st) == IF st.do = "record" THEN {k \in 1 .. Len(st.moves) : st.moves[k].img = "rt"} ELSE {}
RtTracks(st) == IF st.do = "record" THEN {x \in st.tracks : x.img = "rt"} ELSE {}

\* The first of a function's barriers on the target names rt->layout as it is when the
\* barrier is recorded; rt->layout is set then, or by a later step.
Recorded(t) ==
    LET st   == StepOf(t)
        mine == RtMoves(st)
        last == st.moves[CHOOSE k \in mine : \A j \in mine : j <= k]
    IN  IF mine = {} THEN run[t].barrier ELSE [old |-> layout, new |-> last.new]

RecordRt(t) ==
    /\ AtStep(t) /\ (RtMoves(StepOf(t)) # {} \/ RtTracks(StepOf(t)) # {})
    /\ Uses(t, Recorded(t), {})
    /\ layout' = IF RtTracks(StepOf(t)) = {} THEN layout
                 ELSE (CHOOSE x \in RtTracks(StepOf(t)) : TRUE).lay
    /\ UNCHANGED <<image, broken, skewed, misnamed>>

\* The queue carries out the barriers in the order they are submitted.
SubmitRt(t) ==
    /\ AtStep(t) /\ StepOf(t).do = "submit" /\ run[t].barrier # NoBarrier
    /\ \/ /\ Uses(t, NoBarrier, {})
          /\ image' = run[t].barrier.new
          /\ misnamed' = (misnamed \/ run[t].barrier.old \notin {"undef", image})
          /\ UNCHANGED broken
       \/ /\ ~StepOf(t).must /\ broken < MaxBroken /\ broken' = broken + 1
          /\ Uses(t, NoBarrier, {"lost"})
          /\ UNCHANGED <<image, misnamed>>
    /\ UNCHANGED <<layout, skewed>>

\* Any other step; which way a test goes is left open.
PassStep(t) ==
    /\ AtStep(t) /\ RtMoves(StepOf(t)) = {} /\ RtTracks(StepOf(t)) = {}
    /\ StepOf(t).do = "submit" => run[t].barrier = NoBarrier
    /\ \E n \in {1} \cup (IF StepOf(t).do = "if" THEN {1 + StepOf(t).n} ELSE {}) :
          run' = [run EXCEPT ![t].at = @ + n]
    /\ UNCHANGED <<layout, image, broken, skewed, misnamed>>

LayoutNext ==
    \/ Handle \/ lagfx_display_read_frame
    \/ \E t \in Threads : Finish(t) \/ Break(t) \/ RecordRt(t) \/ SubmitRt(t) \/ PassStep(t)

LayoutSpec == LayoutInit /\ [][LayoutNext]_layoutVars

-----------------------------------------------------------------------------

\* When no function is using the target, rt->layout is the layout its image is in, or
\* UNDEFINED while the target is fresh - unless the last function to use it was cut short
\* or two of them used it at once.  What either of these leaves wrong lasts only until a
\* function has the target for itself: each of them names some layout, takes the image to
\* one of its own, and leaves that one in rt->layout, some when they record and some when
\* the GPU is done (render_target.c, draw_record.c, display_blit.c, composite.c, display.c).
RtLayoutTracked ==
    (\A t \in Threads : ~Inside(t)) /\ ~skewed => layout \in {"undef", image}

\* What rt_lock is for: with no call failing, a barrier submitted for the target names the
\* layout its image is in (display.h, render_target.h).
BarriersNameLayout == ~misnamed

=============================================================================
