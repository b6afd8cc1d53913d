------------------------------ MODULE GpuSites ------------------------------
(***************************************************************************)
(* The functions of vulkan/, translate/blit_encoder.c and display.c that   *)
(* create Vulkan objects, record a command buffer, submit it, wait and     *)
(* clean up.  Each is a script: the calls that can fail in their order,    *)
(* the layout transitions it records, what it writes into the tracked      *)
(* layout and when, what it frees at the end and what on failure.          *)
(* DisplayFrames runs them for the objects they make and free, RtLayout    *)
(* for the layout of a display's target.                                   *)
(*                                                                         *)
(* Objects are named.  Sizes, formats and pixel contents are left out.     *)
(***************************************************************************)
EXTENDS Integers, Sequences, FiniteSets

(* Steps of a script. *)
Make(o)          == [do |-> "make", obj |-> o, must |-> TRUE]    \* failure ends the function
MakeOpt(o)       == [do |-> "make", obj |-> o, must |-> FALSE]   \* failure is tolerated
Try              == [do |-> "try"]                               \* a call that may fail and makes nothing
Record(m, t)     == [do |-> "record", moves |-> m, tracks |-> t] \* barriers; tracked layouts set at once
Track(t)         == [do |-> "record", moves |-> <<>>, tracks |-> t]
Submit(f, uses)  == [do |-> "submit", fence |-> f, uses |-> uses \cup {f}, must |-> TRUE]
SubmitOpt(f, uses) == [do |-> "submit", fence |-> f, uses |-> uses \cup {f}, must |-> FALSE]
\* What a timeout of the wait leads to: "fail", "ignore" (go on as if finished), "idle"
\* (vkDeviceWaitIdle, then fail) or "never" (no timeout).
Wait(f, late)    == [do |-> "wait", fence |-> f, late |-> late]
Reset(f)         == [do |-> "reset", fence |-> f]                \* vkResetFences
Free(S)          == [do |-> "free", objs |-> S]
Set(S)           == [do |-> "set", objs |-> S]                   \* flags, and objects that cannot fail
Undo(S)          == [do |-> "undo", objs |-> S]                  \* from here on failure frees S
\* The next n steps are taken if (or only if not) an object or flag is there, or
\* at the discretion of the caller's arguments.
If(o, steps)     == <<[do |-> "if", obj |-> o, is |-> {TRUE}, n |-> Len(steps)]>> \o steps
IfNot(o, steps)  == <<[do |-> "if", obj |-> o, is |-> {FALSE}, n |-> Len(steps)]>> \o steps
Maybe(steps)     == <<[do |-> "if", obj |-> "argument", is |-> {}, n |-> Len(steps)]>> \o steps

To(i, old, new)  == [img |-> i, old |-> old, new |-> new]   \* old = "tracked": the tracked layout
Is(i, l)         == [img |-> i, lay |-> l]

\* needs: without these the function returns at once; undo: freed on failure;
\* skips: how many of the calls queued behind it its failure cancels.
Site(needs, undo, skips, steps) ==
    [needs |-> needs, undo |-> undo, skips |-> skips, steps |-> steps]
All == 9

HostBuffer(b, m) == <<Make(b), Make(m), Try>>
CommandBuffer(c) == <<Make(c), Try>>

-----------------------------------------------------------------------------
(* Device.  pipeline_init stops at the first part that fails and keeps the *)
(* parts before it; vk_init goes on.                                       *)

create_instance == <<Make("instance")>>

create_messenger == <<MakeOpt("messenger")>>

pick_physical_device == <<Try>>

create_device == <<Make("device"), Try>>

vk_init ==
    Site({}, {"instance", "device", "pool"}, All,
         create_instance \o create_messenger \o pick_physical_device \o create_device \o <<Make("pool")>>)

create_pipeline_layout ==
    Site({"device"}, {"pass.dsl"}, 7, <<Make("pass.dsl"), Make("pass.layout")>>)

create_passthrough_pipeline ==
    Site({"device"}, {"pass.vs", "pass.fs"}, 6,
         <<Make("pass.vs"), Make("pass.fs"), Make("pass.pipeline"), Free({"pass.vs", "pass.fs"})>>)

create_frame_image ==
    Site({"device"}, {"frame.mem", "frame.image"}, 5,
         <<Make("frame.image"), Make("frame.mem"), Try, Make("frame.view")>>)

create_dummy_vb ==
    Site({"device"}, {"vb.buf", "vb.mem"}, 4, HostBuffer("vb.buf", "vb.mem"))

\* Without the descriptor set the pool stays, and so do the buffer and its memory.
fallback_set == HostBuffer("ubo.buf", "ubo.mem") \o <<Make("ubo.pool"), Undo({}), Try>>

draw_pool_and_samplers == <<MakeOpt("draw.pool"), MakeOpt("sampler"), MakeOpt("unnorm")>>

create_fallback_ds ==
    Site({"device"}, {"ubo.buf", "ubo.mem"}, 3, fallback_set \o draw_pool_and_samplers)

create_cursor_pipeline_layout ==
    Site({"device"}, {"cur.dsl"}, 2, <<Make("cur.dsl"), Make("cur.layout")>>)

create_cursor_pipeline ==
    Site({"device"}, {"cur.vs", "cur.fs"}, 1,
         <<Make("cur.vs"), Make("cur.fs"), Make("cur.pipeline"), Free({"cur.vs", "cur.fs"})>>)

cursor_set ==
    HostBuffer("cur.ubo", "cur.umem") \o <<Undo({}), Make("cur.pool"), Try, Make("cur.sampler")>>

cursor_glyph ==
    <<Undo({"glyph.image", "glyph.mem"}), Make("glyph.image"), Make("glyph.mem"), Try, Make("glyph.view")>>

create_cursor_resources ==
    Site({"device"}, {"cur.ubo", "cur.umem"}, 0, cursor_set \o cursor_glyph)

empty_layout == Site({"device"}, {}, 0, <<MakeOpt("empty.layout")>>)

DestroyFrameImage == {"frame.image", "frame.mem", "frame.view"}
DestroyDummyVb == {"vb.buf", "vb.mem"}
DestroyFallbackDs == {"ubo.buf", "ubo.mem", "ubo.pool", "draw.pool", "sampler", "unnorm"}
DestroyCursor == {"cur.ubo", "cur.umem", "cur.pool", "cur.sampler", "glyph.image", "glyph.mem",
                  "glyph.view", "cur.pipeline", "cur.layout", "cur.dsl"}
CompositeObjects == {"comp.pipeline", "comp.layout", "comp.pool", "comp.dsl", "comp.sampler", "comp.ready"}
PipelineShutdownForgets ==
    DestroyFrameImage \cup DestroyDummyVb \cup DestroyFallbackDs \cup
    {"pass.dsl", "pass.layout", "pass.pipeline"}

PipelineShutdown == PipelineShutdownForgets \cup DestroyCursor

\* Command buffers go with their pool.
vk_shutdown ==
    Site({"device"}, {}, 0,
         <<Free({"empty.layout"} \cup CompositeObjects \cup PipelineShutdown),
           Free({"pool", "clear.cb", "device", "messenger", "instance"})>>)

submit_empty ==
    Site({"device"}, {"empty.cb", "empty.fence"}, 0,
         CommandBuffer("empty.cb") \o
         <<Try, Make("empty.fence"), Submit("empty.fence", {"empty.cb"}),
           Wait("empty.fence", "fail"), Free({"empty.cb", "empty.fence"})>>)

-----------------------------------------------------------------------------
(* Render targets and the draw. *)

\* Two attempts, the second with plainer image parameters, differ in nothing here.
render_target_create ==
    Site({"device"}, {"rt.image", "rt.mem"}, All,
         <<Make("rt.image"), Make("rt.mem"), Try, Make("rt.view"), Set({"rt.ready"}),
           Track({Is("rt", "undef")})>>)

\* The display's target is the frame image itself.
render_target_wrap == Site({"device"}, {}, 0, <<Set({"rt.ready", "rt.wraps"}), Track({Is("rt", "undef")})>>)

\* render_target_destroy frees only what it owns.
RenderTarget == {"rt.image", "rt.mem", "rt.view", "rt.ready", "rt.wraps"}

RenderClear == Record(<<To("rt", "tracked", "color")>>, {Is("rt", "color")})

ReadbackForgets == {}

ReadbackTracks == {Is("rt", "src")}

readback_record ==
    CommandBuffer("rb.cb") \o <<Record(<<To("rt", "tracked", "src")>>, {}), Try>>

readback ==
    Site({"rt.ready"}, {"rb.buf", "rb.mem", "rb.cb", "rb.fence"}, 0,
         HostBuffer("rb.buf", "rb.mem") \o readback_record \o
         <<Make("rb.fence"), Submit("rb.fence", {"rb.cb", "rb.buf", "rt"}), Wait("rb.fence", "fail"), Try,
           Track(ReadbackTracks), Free({"rb.buf", "rb.mem", "rb.cb", "rb.fence"})>>)

\* lagfx_vk_draw_record_and_submit_bound with the buffers its caller made for it.
DrawCommands(tgt) ==
    CommandBuffer("draw.cb") \o <<Record(<<To(tgt, "tracked", "color")>>, {Is(tgt, "color")}), Try>>

DrawRecordTimesOut(tgt) ==
    DrawCommands(tgt) \o
    <<Make("draw.fence"), Submit("draw.fence", {"draw.cb", "draw.buf"}), Wait("draw.fence", "fail"),
      Free({"draw.cb", "draw.fence"})>>

DrawRecord(tgt) ==
    DrawCommands(tgt) \o
    <<Make("draw.fence"), Submit("draw.fence", {"draw.cb", "draw.buf"}), Wait("draw.fence", "idle"),
      Free({"draw.cb", "draw.fence"})>>

DrawTemporaries == {"draw.cb", "draw.fence", "draw.buf", "draw.mem"}

\* A draw to the display's target, and one to a surface: the surface is wrapped
\* afresh for every draw and declared sampleable before the draw is recorded.
draw_rt ==
    Site({"rt.ready"}, DrawTemporaries, 0,
         HostBuffer("draw.buf", "draw.mem") \o DrawRecord("rt")
         \o <<Free({"draw.buf", "draw.mem"}), Set({"frame.new"})>>)

draw_surface ==
    Site({"rt.ready", "surf.image"}, DrawTemporaries, All,
         <<Track({Is("pass", "undef"), Is("surf", "read")})>>
         \o HostBuffer("draw.buf", "draw.mem") \o DrawRecord("pass")
         \o <<Free({"draw.buf", "draw.mem"}), Set({"frame.new"})>>)

-----------------------------------------------------------------------------
(* Surfaces. *)

iosurface_create ==
    Site({"device"}, {"surf.image", "surf.mem"}, 1,
         <<Make("surf.image"), Make("surf.mem"), Try, Make("surf.view"),
           Track({Is("surf", "undef")})>>)

\* LAGFX_CLEAR_IOSURF: whatever fails, the surface is there.
iosurface_clear ==
    Site({"surf.image"}, {"sc.cb", "sc.fence"}, 0,
         CommandBuffer("sc.cb") \o
         <<Record(<<To("surf", "undef", "dst"), To("surf", "dst", "read")>>, {}), Try,
           MakeOpt("sc.fence"), Submit("sc.fence", {"sc.cb", "surf.image"}),
           Wait("sc.fence", "ignore"), Track({Is("surf", "read")}), Free({"sc.cb", "sc.fence"})>>)

upload_pixels ==
    Site({"surf.image"}, {"up.buf", "up.mem", "up.cb", "up.fence"}, 0,
         HostBuffer("up.buf", "up.mem") \o CommandBuffer("up.cb") \o
         <<Record(<<To("surf", "undef", "dst"), To("surf", "dst", "read")>>, {}), Try,
           MakeOpt("up.fence"), Submit("up.fence", {"up.cb", "up.buf", "surf.image"}),
           Wait("up.fence", "ignore"), Track({Is("surf", "read")}),
           Free({"up.buf", "up.mem", "up.cb", "up.fence"})>>)

iosurface_destroy ==
    Site({"surf.image"}, {}, 0, <<Free({"surf.image", "surf.mem", "surf.view"})>>)

-----------------------------------------------------------------------------
(* Composition. *)

composite_ensure ==
    Site({"device"}, CompositeObjects \cup {"comp.vs", "comp.fs"}, 1,
         IfNot("comp.ready",
               <<Make("comp.sampler"), Make("comp.dsl"), Make("comp.layout"), Make("comp.pool"), Try,
                 Make("comp.vs"), Make("comp.fs"), Make("comp.pipeline"),
                 Free({"comp.vs", "comp.fs"}), Set({"comp.ready"})>>))

composite_over ==
    Site({"rt.ready", "surf.image"}, {"over.cb", "over.fence"}, 0,
         CommandBuffer("over.cb") \o
         <<Record(<<To("rt", "tracked", "color")>>, {Is("rt", "color")}), Try, Make("over.fence"),
           SubmitOpt("over.fence", {"over.cb", "surf.image", "comp.pipeline"}),
           Wait("over.fence", "ignore"), Free({"over.cb", "over.fence"})>>)

\* The command buffer is not freed on any path.
clear_image ==
    Site({"surf.image"}, {"clear.fence"}, 0,
         CommandBuffer("clear.cb") \o
         <<Record(<<To("surf", "tracked", "dst")>>, {}), Try, Make("clear.fence"),
           Submit("clear.fence", {"clear.cb", "surf.image"}), Wait("clear.fence", "fail"),
           Free({"clear.fence"}), Track({Is("surf", "dst")})>>)

\* Only with a scanout address.
present_staging == Maybe(HostBuffer("ps.buf", "ps.mem"))

present_record ==
    CommandBuffer("ps.cb") \o
    <<Record(<<To("surf", "tracked", "src"), To("rt", "tracked", "dst"), To("surf", "src", "read"),
               To("rt", "dst", "src")>>, {}), Try>>

present_surface ==
    Site({"rt.ready", "surf.image"}, {"ps.buf", "ps.mem", "ps.cb", "ps.fence"}, 0,
         present_staging \o present_record \o
         <<Make("ps.fence"), Submit("ps.fence", {"ps.cb", "ps.buf", "surf.image"}),
           Wait("ps.fence", "fail"), Track({Is("surf", "read"), Is("rt", "src")}), Try,
           Free({"ps.buf", "ps.mem", "ps.cb", "ps.fence"})>>)

-----------------------------------------------------------------------------
(* translate/blit_encoder.c: assumed layouts, no tracking, no timeout.     *)

FillRecord == Record(<<To("surf", "undef", "dst"), To("surf", "dst", "general")>>, {})

CopyRecord == Record(<<To("surf", "general", "src"), To("surf", "src", "general")>>, {})

\* Both end alike: the submission's result is not looked at.
BlitSite(rec) ==
    Site({"surf.image"}, {"blit.cb"}, 0,
         CommandBuffer("blit.cb") \o
         <<rec, Try, Make("blit.fence"), SubmitOpt("blit.fence", {"blit.cb", "surf.image"}),
           Wait("blit.fence", "never"), Free({"blit.cb", "blit.fence"})>>)

fill_texture_color == BlitSite(FillRecord)

copy_texture_to_texture == BlitSite(CopyRecord)

-----------------------------------------------------------------------------
(* display.c *)

SlotNames(i) == IF i = 1 THEN [buf |-> "slot1.buf", mem |-> "slot1.mem", fence |-> "slot1.fence", busy |-> "slot1.busy"]
                ELSE [buf |-> "slot2.buf", mem |-> "slot2.mem", fence |-> "slot2.fence", busy |-> "slot2.busy"]
SlotObjects(i) == LET s == SlotNames(i) IN {s.buf, s.mem, s.fence, s.busy}

\* LAGFX_RT_INIT_TINT.
rt_tint ==
    Site({"rt.ready"}, {"tint.cb", "tint.fence"}, 0,
         CommandBuffer("tint.cb") \o
         <<RenderClear, Try, MakeOpt("tint.fence"), SubmitOpt("tint.fence", {"tint.cb"}),
           Wait("tint.fence", "ignore"), Free({"tint.cb", "tint.fence"})>>)

clear_commands == CommandBuffer("cc.cb") \o <<RenderClear, Try>>

submit_clear_color ==
    Site({"rt.ready"}, {"cc.cb", "cc.fence"}, All,
         clear_commands \o
         <<Make("cc.fence"), Submit("cc.fence", {"cc.cb"}), Wait("cc.fence", "fail"),
           Free({"cc.cb", "cc.fence"}), Set({"frame.new"})>>)

staging_slot_init(i) ==
    LET s == SlotNames(i) IN HostBuffer(s.buf, s.mem) \o <<Make(s.fence), Try>>

\* display_staging_ring_ensure: the frame image keeps its size, so the ring is
\* built once.
staging_ring_ensure ==
    Site({"frame.image"}, SlotObjects(1) \cup SlotObjects(2), 1,
         IfNot("ring", staging_slot_init(1) \o staging_slot_init(2) \o <<Set({"ring"})>>))

\* The rest of lagfx_display_submit_rendered_frame, with slot i.  The other slot is
\* next, whatever happens.  A display with a target of its own scans out the frame
\* image, assumed to be a colour attachment.
AwaitSlotNever(i) == <<Reset(SlotNames(i).fence)>>

AwaitSlot(i) ==
    LET s == SlotNames(i)
    IN  If(s.busy, <<Wait(s.fence, "fail"), Free({s.busy})>>) \o <<Reset(s.fence)>>

scanout_commands ==
    CommandBuffer("out.cb")
    \o If("rt.wraps", <<Record(<<To("rt", "tracked", "src"), To("rt", "src", "color")>>, {Is("rt", "color")})>>)
    \o IfNot("rt.wraps", <<Record(<<To("frame", "color", "src"), To("frame", "src", "color")>>, {})>>)
    \o <<Try>>

send_frame(i) ==
    LET s == SlotNames(i)
    IN  Site({"frame.image", "ring"}, {"out.cb"}, 0,
             <<IF i = 1 THEN Set({"turn2"}) ELSE Free({"turn2"})>> \o AwaitSlot(i)
             \o scanout_commands
             \o <<Submit(s.fence, {"out.cb", s.buf}), Set({s.busy}), Wait(s.fence, "fail"),
                  Free({s.busy}), Set({"frame.new"}), Free({"out.cb"})>>)

\* Without a scanout address the frame is read back into fallback_pixels, which
\* read_frame serves only while there is no render target, that is never.
keep_pixels == Site({"rt.ready"}, {}, 0, <<Set({"frame.new"})>>)

\* lagfx_display_free; the waits' results are not looked at.
display_free ==
    Site({"device"}, {}, 0,
         If("slot1.busy", <<Wait("slot1.fence", "ignore")>>) \o
         If("slot2.busy", <<Wait("slot2.fence", "ignore")>>) \o
         <<Free(SlotObjects(1) \cup SlotObjects(2) \cup {"ring", "turn2"}),
           Free(RenderTarget \cup {"frame.new", "display"})>>)

Sites ==
    [vk_init |-> vk_init, create_pipeline_layout |-> create_pipeline_layout,
     create_passthrough_pipeline |-> create_passthrough_pipeline,
     create_frame_image |-> create_frame_image, create_dummy_vb |-> create_dummy_vb,
     create_fallback_ds |-> create_fallback_ds,
     create_cursor_pipeline_layout |-> create_cursor_pipeline_layout,
     create_cursor_pipeline |-> create_cursor_pipeline,
     create_cursor_resources |-> create_cursor_resources, empty_layout |-> empty_layout,
     vk_shutdown |-> vk_shutdown, submit_empty |-> submit_empty,
     render_target_create |-> render_target_create, render_target_wrap |-> render_target_wrap,
     rt_tint |-> rt_tint, readback |-> readback, draw_rt |-> draw_rt, draw_surface |-> draw_surface,
     iosurface_create |-> iosurface_create, iosurface_clear |-> iosurface_clear,
     upload_pixels |-> upload_pixels, iosurface_destroy |-> iosurface_destroy,
     composite_ensure |-> composite_ensure, composite_over |-> composite_over,
     clear_image |-> clear_image, present_surface |-> present_surface,
     fill |-> fill_texture_color, copy |-> copy_texture_to_texture,
     submit_clear_color |-> submit_clear_color, staging_ring_ensure |-> staging_ring_ensure,
     send_frame1 |-> send_frame(1), send_frame2 |-> send_frame(2), keep_pixels |-> keep_pixels,
     display_free |-> display_free]

=============================================================================
