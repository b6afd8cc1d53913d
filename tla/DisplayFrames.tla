---------------------------- MODULE DisplayFrames ----------------------------
(***************************************************************************)
(* A device with one display and one surface: the scripts of GpuSites      *)
(* carried out step by step, any call failing, while the GPU works through *)
(* its queue in order and may be later than the waits allow.               *)
(*                                                                         *)
(* This is the thread that drains the rings.  The shell's readback, in a   *)
(* thread of its own, makes and frees objects of its own by the script     *)
(* that handlers run here too; what the threads share is in RtLayout (the  *)
(* layout of the target) and in FrameDelivery (the frame flag).            *)
(*                                                                         *)
(* The cursor is never drawn: lagfx_display_cursor_glyph always stores     *)
(* captured_len = 0, so overlay_cursor returns and no glyph is uploaded.   *)
(***************************************************************************)
EXTENDS GpuSites

CONSTANTS
    Late,        \* whether the GPU can take longer than a timeout
    QueueMax,    \* bound: submissions the GPU holds
    MaxFailures  \* bound: calls that fail and waits that time out

ASSUME FramesAssumption == Late \in BOOLEAN /\ QueueMax \in Nat \ {0} /\ MaxFailures \in Nat

VARIABLES
    queue, at, cur,  \* functions to run, step of the first, its local state
    alive,           \* objects that exist and flags that are set
    gpu,             \* what each unfinished submission uses, oldest first
    failures,        \* failures so far
    early            \* history: draw objects freed and fences reset while in use

frameVars == <<queue, at, cur, alive, gpu, failures, early>>

\* What a failure of the function at work frees, and whether its submission was lost.
NoCur == [undo |-> {}, unsent |-> FALSE]

-----------------------------------------------------------------------------
(* Handlers: the functions a call from outside runs, in order. *)

DeviceParts == <<"vk_init", "create_pipeline_layout", "create_passthrough_pipeline",
                 "create_frame_image", "create_dummy_vb", "create_fallback_ds",
                 "create_cursor_pipeline_layout", "create_cursor_pipeline",
                 "create_cursor_resources", "empty_layout">>

SendFrame == <<"staging_ring_ensure", IF "turn2" \in alive THEN "send_frame2" ELSE "send_frame1">>

\* lagfx_emit_pending_draw into a surface: composited over the display or blitted
\* to it, then submitted.
EmitSurface ==
    {<<"draw_surface">> \o show \o SendFrame :
        show \in {<<"composite_ensure", "composite_over">>, <<"present_surface">>,
                  <<"clear_image", "present_surface">>}}

\* Bound: displays and surfaces are used on a device whose initialisation met no
\* failure; the embedder frees them before the device.
WholeDevice == (PipelineShutdown \cup {"pool", "messenger", "empty.layout"}) \subseteq alive

Handlers ==
    IF "device" \notin alive THEN {DeviceParts}
    ELSE (IF {"display", "surf.image"} \cap alive = {} THEN {<<"vk_shutdown">>} ELSE {})
         \cup (IF WholeDevice
               THEN {<<"submit_empty">>}
                    \cup (IF "surf.image" \in alive
                          THEN {<<"upload_pixels">>, <<"fill">>, <<"copy">>, <<"iosurface_destroy">>}
                          ELSE {<<"iosurface_create">>, <<"iosurface_create", "iosurface_clear">>})
                    \cup (IF "display" \in alive
                          THEN {<<"draw_rt">>, <<"submit_clear_color">>,
                                <<"submit_clear_color", "readback">>, SendFrame,
                                <<"readback", "keep_pixels">>, <<"display_free">>}
                               \cup (IF "surf.image" \in alive THEN EmitSurface ELSE {})
                          ELSE {<<"render_target_create">>, <<"render_target_wrap">>,
                                <<"render_target_create", "rt_tint">>,
                                <<"render_target_wrap", "rt_tint">>})
               ELSE {})

Idle == queue = <<>>

Start(h) ==
    /\ Idle
    /\ queue' = h /\ at' = 0 /\ cur' = NoCur
    /\ alive' = IF h[1] \in {"render_target_create", "render_target_wrap"}
                THEN alive \cup {"display"} ELSE alive

-----------------------------------------------------------------------------
(* Carrying out a script. *)

Step == Sites[queue[1]].steps[at]
At(kind) == ~Idle /\ at \in 1 .. Len(Sites[queue[1]].steps) /\ Step.do = kind
InFlight(o) == \E i \in 1 .. Len(gpu) : o \in gpu[i]
Advance == at' = at + 1 /\ UNCHANGED queue
Fault == failures < MaxFailures /\ failures' = failures + 1
NoEffect == UNCHANGED <<alive, early, gpu>>

\* The function returns, and as many of the calls behind it are not made.
Return(dropped) ==
    queue' = SubSeq(queue, 2 + dropped, Len(queue)) /\ at' = 0 /\ cur' = NoCur

\* What is made under the same name later is not what the GPU is using.
FreeNow(S) ==
    /\ alive' = alive \ S
    /\ gpu' = [k \in 1 .. Len(gpu) |-> gpu[k] \ S]
    /\ early' = early \cup {o \in S \cap alive \cap DrawTemporaries : InFlight(o)}

Fail == Fault /\ FreeNow(cur.undo) /\ Return(Sites[queue[1]].skips)

\* Entering a function: it returns if something it needs is missing.
Enter ==
    /\ ~Idle /\ at = 0
    /\ NoEffect
    /\ IF Sites[queue[1]].needs \subseteq alive
       THEN Advance /\ cur' = [NoCur EXCEPT !.undo = Sites[queue[1]].undo]
       ELSE Return(Sites[queue[1]].skips)
    /\ UNCHANGED failures

Leave ==
    /\ ~Idle /\ at = Len(Sites[queue[1]].steps) + 1
    /\ NoEffect /\ Return(0) /\ UNCHANGED failures

MakeStep ==
    /\ At("make")
    /\ \/ alive' = alive \cup {Step.obj} /\ Advance /\ UNCHANGED <<cur, early, gpu, failures>>
       \/ Step.must /\ Fail
       \/ ~Step.must /\ Fault /\ Advance /\ NoEffect /\ UNCHANGED cur

TryStep ==
    /\ At("try")
    /\ \/ Advance /\ NoEffect /\ UNCHANGED <<cur, failures>>
       \/ Fail

ResetStep ==
    /\ At("reset")
    /\ \/ /\ early' = early \cup {f \in {Step.fence} : InFlight(f)}
          /\ Advance /\ UNCHANGED <<cur, alive, gpu, failures>>
       \/ Fail

RecordStep == At("record") /\ Advance /\ NoEffect /\ UNCHANGED <<cur, failures>>

SubmitStep ==
    /\ At("submit")
    /\ \/ /\ Len(gpu) < QueueMax
          /\ gpu' = Append(gpu, Step.uses)
          /\ Advance /\ UNCHANGED <<cur, alive, early, failures>>
       \/ Step.must /\ Fail
       \/ /\ ~Step.must /\ Fault /\ Advance
          /\ cur' = [cur EXCEPT !.unsent = TRUE]
          /\ NoEffect

\* A wait returns when the fence is signalled, and otherwise after its timeout.  A
\* wait on a fence that was never created does not wait.  After a failed submission
\* only the blit encoder waits, for good.
Hung == At("wait") /\ cur.unsent /\ Step.late = "never"

WaitStep ==
    /\ At("wait") /\ ~Hung
    /\ \/ /\ ~InFlight(Step.fence) \/ Step.fence \notin alive
          /\ Advance /\ NoEffect /\ UNCHANGED <<cur, failures>>
       \/ /\ InFlight(Step.fence) /\ Step.fence \in alive /\ Late
          /\ \/ Step.late = "ignore" /\ Fault /\ Advance /\ NoEffect /\ UNCHANGED cur
             \/ Step.late = "fail" /\ Fail

\* vkDeviceWaitIdle after the timeout.
WaitIdle ==
    /\ At("wait") /\ Step.late = "idle" /\ Late /\ gpu = <<>>
    /\ Fail

OtherStep ==
    /\ \/ /\ At("free") /\ FreeNow(Step.objs) /\ Advance /\ UNCHANGED cur
       \/ /\ At("set") /\ alive' = alive \cup Step.objs
          /\ Advance /\ UNCHANGED <<cur, early, gpu>>
       \/ /\ At("undo") /\ cur' = [cur EXCEPT !.undo = Step.objs] /\ Advance /\ NoEffect
       \/ /\ At("if") /\ NoEffect /\ UNCHANGED <<cur, queue>>
          /\ \E b \in BOOLEAN :
                /\ Step.is # {} => b = ((Step.obj \in alive) \in Step.is)
                /\ at' = IF b THEN at + 1 ELSE at + 1 + Step.n
    /\ UNCHANGED failures

GpuDone ==
    /\ gpu # <<>> /\ gpu' = Tail(gpu)
    /\ UNCHANGED <<queue, at, cur, alive, failures, early>>

-----------------------------------------------------------------------------

FramesInit ==
    /\ queue = <<>> /\ at = 0 /\ cur = NoCur
    /\ alive = {} /\ gpu = <<>>
    /\ failures = 0 /\ early = {}

HostStep ==
    \/ Enter \/ Leave \/ MakeStep \/ TryStep \/ ResetStep \/ RecordStep \/ SubmitStep \/ WaitStep \/ WaitIdle \/ OtherStep

FramesNext ==
    \/ \E h \in Handlers : Start(h) /\ UNCHANGED <<gpu, failures, early>>
    \/ HostStep
    \/ GpuDone

FramesSpec == FramesInit /\ [][FramesNext]_frameVars

-----------------------------------------------------------------------------

\* Nothing is freed, recorded into or reset while the GPU may still use it: whatever a
\* draw made for itself is there until the GPU is done, even when the wait for its fence
\* times out (draw_record.c, draw_emit.c), and a slot of the staging ring is not used
\* again while the submission that last used it may be running, after a frame whose wait
\* timed out as well (display.c).
NothingFreedEarly == early = {}

\* Between calls only what belongs to the device, the display or the surface exists,
\* each of them whole, however its last call failed; and nothing outlives the device.
\* What the code does leak is named: the debug messenger of a device whose creation
\* failed, and the command buffer of clear_image, which goes with the pool.
NothingLeaks ==
    LET device  == PipelineShutdown \cup {"instance", "device", "messenger", "pool", "empty.layout", "clear.cb"}
        surface == {"surf.image", "surf.mem", "surf.view"}
        ring    == SlotObjects(1) \cup SlotObjects(2) \cup {"ring", "turn2"}
        whole(S, flag) == flag \notin alive => S \cap alive = {}
    IN  Idle => /\ alive \subseteq device \cup CompositeObjects \cup RenderTarget \cup surface \cup ring
                                  \cup {"display", "frame.new"}
                /\ whole(alive \ {"messenger"}, "device")
                /\ whole(CompositeObjects, "comp.ready")
                /\ whole(ring, "ring") /\ whole(surface, "surf.view")
                /\ whole(RenderTarget, "rt.ready") /\ whole(RenderTarget \cup ring, "display")

=============================================================================
