# Specifications of libapplegfx-vulkan

libapplegfx-vulkan is the host side of Apple's paravirtual GPU: an emulator
(the *shell*) maps a register BAR into a macOS guest, the guest's kext writes
commands into rings in its own memory, and the library drains those rings,
keeps the objects the commands define, translates the guest's shaders, renders
with Vulkan, hands frames to the shell and tells the guest what is finished.

These TLA+ modules model that path end to end: the rings and their completion,
the task table and task memory, surface lifetimes, the walk of command buffers,
guest address translation, the render state and the draw, the Vulkan objects
behind it, the display, and the reading and lowering of shaders.

Source paths below are relative to `src/src/` of the repository.
`PROJECT.json` maps every definition to its lines.

## 1. Inventory

| Component | State | Operations | Talks to |
|---|---|---|---|
| Stamp completion (`protocol/stamp.c`) | one `uint32_t` cell per slot in guest memory, `pending_stamps_bitmask` (atomic) | advance cell, set bit, raise MSI 0 | every drain loop; the guest's interrupt handler |
| MMIO registers and doorbells (`doorbell.c`, `*_door_dispatcher.c`) | ring geometry, `ring_armed`, `current_chan_id` | BAR reads and writes | start the drains |
| Root channel (`dispatchers/channel_0_dispatcher.c`) | `read_ptr`, host only | drain, opcode switch | task, memory, iosurface handlers; stamp slot 0 |
| Secondary channels (`channel_compute_dispatcher.c`, `channel_display_dispatcher.c`, `ring_common.c`) | cursors in guest memory, data pages behind a PFN array | drain, publish `read_ptr` | compute and display handlers |
| Task table (`handlers/task/task.c`) | 64 slots: id, shell object, heap, render state | define, define-host, delete | shell; registry |
| Resource registry, IOSurface commands and backings | entries keyed by (ref, task); reference-counted images | create, lookup, import, delete, unmap | draw path, display |
| Task memory (`memory/task.c`, `handlers/memory/memory.c`) | VA reservation and one memfd per task | create, map (alias or copy), unmap, destroy | mmap, mremap, shell |
| Command buffers (`handlers/compute/exec_cmdbuf.c`, `*_inner_ops.c`, `render_pass.c`, `info_replies.c`) | cursors into a command buffer | walk segments, one handler per inner opcode | resolver, draw path |
| Object resolver, address translation (`protocol/object_resolver.c`, `task_translate.h`) | task heap, root page | walk, read, look up, scan descriptors | guest memory |
| Draw path (`handlers/compute/draw_*.c`) | per-task render state, pipeline cache, frame-blit queue | build pipeline, bind, upload, record, composite | registry, Vulkan, display |
| Vulkan objects (`vulkan/`, `translate/blit_encoder.c`) | instance, images with tracked layouts, fences, staging slots | create, record, submit, wait, free | driver |
| Display handlers, timer, display object (`handlers/display`, `timer/`, `display.c`) | shared-state pages, masks, `new_frame_ready`, settle hold, staging ring | setup, submit, tick, read frame, scanout | guest page, MSI 0, shell |
| Device lifecycle (`device.c`, `protocol/lifecycle.c`) | device, displays, Vulkan context | new, free, reset | everything |
| Bitcode reader (`air/`) | bit cursor, abbreviations, arenas with raw pointers | open module, open body | translator |
| AIR to SPIR-V (`air2spv/`) | builder sections, id maps, spill and phi variables, helper registry | plan, lower, emit | pipelines |

### What is hard here

* **Concurrency.** Handlers run under the emulator's lock, so drains and MMIO
  writes are serial. Not serial: the guest's other virtual CPUs, which fill rings
  and rewrite descriptors and pages during a drain; the stamp mask, read by a BAR
  read on another thread; other threads of the process that map memory; the tick
  thread, which reads frames while the drain draws, over plain fields.
* **The GPU.** It may be later than any of the code's timeouts, and each function
  has its own answer to that.
* **Failure.** Guest memory accesses, system calls, Vulkan calls and allocations
  all may fail, half-way through anything.
* **Untrusted lengths.** Segments, commands, bitstream blocks and records are found
  by lengths the guest writes.
* **Wraps.** Cursors, ring offsets, stamps and reply offsets wrap at different widths.
* **Lifetimes.** Backings are counted, but not every operation releases; the reader's
  tables are raw pointers into arenas that move.
* **SSA.** Phis become variables, and ids are visible in one case of a switch only.

`PROJECT.json` lists the hazards at their lines with the properties aimed at them.

## 2. Modules

```
Stamps ──► ChannelRings ──implements──► CommandStream
   └─────► RootRing
TaskTable ──► Surfaces ──implements──► SharedBackings
TaskMemory
InnerOps ──► CommandBuffers
GuestMemory ──► ObjectResolver
DrawData ──► EncoderState
GpuSites ──► DisplayFrames, RtLayout
DisplayOnline
FrameDelivery
AirReader, BodyLowering, HelperPlan ──► ShaderPipeline
RootRingProofs (with Stamps), ChannelRingsProofs, SurfacesProofs (with TaskTable and
SharedBackings), DisplayProofs (DisplayOnline, DisplayFrames and RtLayout), TaskMemoryProofs,
CommandBuffersProofs (with ObjectResolver), EncoderStateProofs (with DrawData),
ShaderProofs (HelperPlan and AirReader)
MCChannelRings, MCSurfaces, MCObjectResolver, MCEncoderState, MCBodyLowering,
MCHelperPlan
MCCommandBuffers (CommandBuffers and MCObjectResolver)
MCDisplay (DisplayOnline, FrameDelivery, DisplayFrames and RtLayout)
```

**Stamps** models `stamp.c` with the two BAR registers it depends on. A
completion is three host steps (cell, bit, interrupt) that interleave with the
guest's handler (take interrupt, exchange-and-clear, serve each slot, return).
The cell keeps its width (`% StampMod`); `Faults` says which DMA calls may fail.
`done` and `replays` are history: the largest stamp completed, and completions
whose stamp was not a new maximum.

**ChannelRings** composes Stamps with a secondary channel: guest memory unit by
unit (a unit is `<<command, position>>`, so a torn or displaced read shows), the
descriptor, the guest's producer, and one action per step of the drain
(descriptor, header, body and dispatch, completion, advance, publish). A torn or
displaced header decodes to any length at all. Commands of a length in
`ExecLens` may be CmdExecIndirect2, whose handler completes the stamp before the
drain does (`complete_after_exec`). Compute and display drains have the same loop
and share the model. **CommandStream** is what a ring promises: in-order delivery
without gaps, and redelivery only from the acknowledged position.

**RootRing** composes Stamps with the four ring registers, both doorbells that
reach channel 0, the root drain and the device reset. The guest knows about free
space only from stamps (`seen`), as in the code, where `read_ptr` is private;
`twice` is history: stamps completed twice by an exec.

**TaskTable** has the table, the linear searches and the three commands' effects.
**Surfaces** extends it with the registry array, the counts, the five IOSurface
commands, task deletion, the two registrations a draw can make, presents and the
frame-blit queue. **SharedBackings** is the counting protocol without the array:
which key owns which backing, and which references were dropped without release.

**TaskMemory** models the address range of a shell task page by page, a map as one
action per system call, each of which may fail, with other threads mapping into a
hole between two of them. Offset and length are the guest's, and the check of their
sum is that of u64, modulo `Wrap`: a negative offset can pass it, and the map then
reaches the pages around the reservation, which the model has too. `punctured` is
history: pages whose restoring mmap failed. The shell's loop over the ranges of a
command is external.

**CommandBuffers** walks a buffer whose words are chosen when they are first read;
**InnerOps** has, for every inner opcode, the length its handler insists on and
the part of the body it reads.

**GuestMemory** has the radix walk, the page-wise and flat reads built on it and the
info replies; a read delivers the addresses its words came from. **ObjectResolver**
adds slots, function bytes and the scans of pipeline descriptors, each against a
definition of what it should find. The two lookups of function references differ as in
the code: the older reads a fixed window of 128 bytes and keeps two references
(`PairWindow`), the newer reads what the descriptor says it has, and keeps a list.

**EncoderState** is one task's render state: render pass, viewport, scissor,
bindings, the pipeline-state command with every creation failing by itself, and the
draw with its temporaries. The cached pipeline holds what it was built from, its
vertex stride included, and is looked up by what the cache looks at, which the stride
and the number of vertex streams are not part of. **DrawData** has the computations of a
draw: the read of guest bytes (the recorded backing first, then the placement, whose
sums are u64's and which ends at the first failed read), vertex layout, texture extent
with its fallbacks, and the drawn rectangle in u32. The task's record is found as
`tasks[task_id]` in some handlers and as `find_task(id)` in others; EncoderState has one
record, so a guest that makes the two differ is not covered. Creation of
descriptor-set and pipeline layouts is taken to succeed in the run
(`LayoutFails = FALSE`): when it fails the code takes the shaders to use no
resources and draws with the empty layout (section 5).

**GpuSites** writes every function that creates, records, submits, waits and frees
as a script of steps: what may fail, the layout transitions, the tracked layout and
when it is written, what is freed when; those of `display.c` too. **DisplayFrames** runs
them for a device with one display and one surface, one after the other as the drain's
thread does, against a GPU that works through its queue in order and may be late.
**RtLayout** has the two threads that share the display's target: the drain, in any
function that gives the target a layout, and the timer's thread in
`lagfx_display_read_frame`. `rt_lock` is not held while the target is used, so the model
interleaves their steps. **FrameDelivery** has the same two threads and the settle hold.
**DisplayOnline** has the shared-state pages and the vblank tick, one step per access:
the page's address is loaded, the enable word read, the pending word written, and the
interrupt raised after the last display, with the setup handler and the guest's own
writes between any two of these. `touched` is history: displays whose page the guest
wrote after the tick had read it.

**AirReader** walks a bitstream in which nothing is known: records take one unit, a
block's declared end is any place up to one past the buffer, a read fails whenever
it likes. A pointer is the generation of the arena it was computed from. The block
walkers differ in a few things (`walk_types`, `walk_constants`, ...) and share
their actions. The producer's abbreviation tables run beside the reader's.
Assumed: LLVM's writer emits FUNCTION records one after the other before any body
(`FunctionsAdjacent`), and no block inside VALUE_SYMTAB (`NoSymtabBlocks`).

**BodyLowering** recognises the shapes of a body, emits it block by block with the
id, spill and phi bookkeeping of `translate_function.c`, and then executes the
emitted code beside the SSA body. What an instruction computes is a token, new
every time. An emitter is the five things the bookkeeping needs to know of it: whether
it keeps the id bound beforehand, whether the pre-pass of dispatch infers its type,
whether it records an AIR type, what becomes of it when its operand has none (emitted,
dropped, undefined), and whether it gets a spill variable at its definition. One
function of the code is several emitters where its branches differ in these: casts
(numeric, to and from i1, bitcasts, of pointers), calls (intrinsics, those with an id of
their own, helpers, unknown, dropped), extracts (of a vector of bools). Operands are decoded as the code
does it: a reference forward wraps around to a number beyond every table. An alias is
an id of its own here. Left out: the obsolete SELECT record, PTRTOINT (an alias with an
integer's type), a bitcast of a compare's result.
**HelperPlan** plans a call graph, emits, fails and rewinds functions, and splices
local variables. The entry point is never planned as a helper, a call to something
that has no helper becomes an undefined value, and a call that has one may be refused
for its arguments. **ShaderPipeline** puts the three in sequence; the discovery of the
stage, the choice of the function and the stubs emitted when a translation fails are
left out.

Definitions are named after the function they model, or, where one function is
several steps, after the step. The definitions
that `PROJECT.json` lists under "mutants" as `as` are plausible slips in that code:
no specification uses them, and each shows that the property listed with it
notices the slip.

## 3. Runs

Times are with two workers. Every passing run is exhaustive.

| Run | Shows | Bounds |
|---|---|---|
| `stamps` (15 s) | no lost wakeup, cells bounded by what was completed, monotone, every completion reaches the guest | 2 slots, stamps 0..2, one replay per slot |
| `rings` (2.5 min) | in order and exactly once while no publication is lost, never torn; implements CommandStream; everything drained | ring of 3 scattered pages of 2 units, cursors mod 12 from 7, 4 commands of length 2, 3 or 4 (too long), drains of 2, failing descriptor and ring reads, one lost publication |
| `root` (1 min) | geometry in any register order, exactly once, drained | ring of 7 units (headers of 2 wrap), 3 commands, 2 boots, failing reads |
| `surfaces` (100 s) | task ids unique; handlers implement SharedBackings | 2 refs, 2 task ids, 2 registry places, 2 backings, queue of 1, counts to 2 |
| `memory` (100 s) | the range keeps no hole a successful restore could have closed; a map changes nothing outside its range, nor around the reservation unless its u64 sum wrapped | a range of 2 pages in an offset space of 8, 1 host page, which mremap may duplicate or fail on, offsets inside, at the end and below the base, commands of up to 2 ranges |
| `exec` (90 s) | reads follow the radix tree, replies stay in their buffers, descriptor scans find what is there; the walk and every handler stay in the bytes that arrived; the walk ends | pages of 4 words, fan-out 2, trees of up to 4 levels with holes, early leaves and unreadable frames; offsets at the 64-bit wrap; descriptors at the caps, shorter and longer than the fixed window; buffers of 8 words, 5 values per header word |
| `encoder` (70 s) | no dead handle is used, nothing is left behind, bindings are written, pipeline and region are those of the state, guest data is where it belongs | 2 objects per kind, 2 slots, 2 formats, the shader pairs, rectangles and buffers of MCEncoderState: entries that are unusable, unreadable or overflow, backings |
| `display` (70 s) | a display is announced once, never without an event only the guest itself took away, and if enabled for good; the hold ends and the last frame is shown; no draw object or fence is freed or reset while the GPU uses it, nothing leaks; the target's tracked layout is right again once a function had the target for itself | 3 displays (one beyond the table), 2 pages, which two displays may share, 1 fault; the code's hold of 8 periods, 2 failed readbacks; one surface, 2 submissions in flight, 2 failures or timeouts; two threads, 8 functions, 2 failing calls |
| `shader` (1 min) | bodies, pointers and abbreviations are the right ones; lowered code computes what the body computes, with ids defined where used; calls and locals are in place; every stage ends | streams of 5 units, tables of 2, arenas that grow; the bodies of MCBodyLowering (diamonds, rotated, guarded and chained loops, swap, lost copy, several exits, switches, pointers that walk, blocks out of order, operands without a type) with emitters of every kind; 72 call graphs of 4 functions, depth 2, 2 helpers |
| `rings_exec` | *violation*: see section 5 | as `rings` |
| `encoder_stride` | *violation*: see section 5 | as `encoder` |
| `layout_race` | *violation*: see section 5 | RtLayout by itself, no call failing |

*Why the bounds are enough.* Everything the code compares is reached on both
sides: rings fill and wrap, cursors wrap, headers and bodies straddle a page and
the ring's end, drains hit their cap, tables and the queue fill up, ids collide,
two entries share a backing, two displays share a page, a map fits exactly or is
one page too long, a segment ends with or one word before its command, arenas move
at every reservation of some behaviour, the plan meets its depth and its cap. One
channel is enough in `rings` because channels share only the stamp mask, whose
interaction between slots is what `stamps` checks with two. `CursorMod` is a
multiple of `RingSize` as 2^32 is of 2^16 and 2^12. In `surfaces` the count bound
cuts only self-imports that go on for ever. Backings are symmetric; that run has no
liveness property (`ImplementsSharing` is a safety formula). In `shader` a body is
lowered, or a call graph planned, by itself: neither keeps anything the other reads.
For the same reason `exec` runs the walk or the resolver, and `display` one of its four
views, while the rest stands still: the modules joined there share no variable, so every
behaviour of the whole is a behaviour of each part. The two failing calls of `display`
fall in two functions, in both threads, or one into the clean-up after the other; the
proofs of section 6 have no such bound.
`MaxIters` stands for the iteration cap of the dispatch loop. The two loop shapes have
none in the code: there the model stops executing after `MaxRounds` blocks
(`LeaveLoop`), and nothing is claimed about how long such a loop goes on.

Deadlock is checked in `shader`. Elsewhere it is not: a guest that has sent its
bounded number of commands may stop, a walk is over when it is over, and the bound
on faults or objects ends a behaviour.

*Properties with exceptions.* Some are stated up to what the code does not do, and
say so where they are defined:

* `NothingLeftBehind` up to what CmdDeleteTask forgets; `NothingFreedEarly` for draws
  and staging slots, whose code promises it;
* `OutsideUntouched`: what lies around the reservation, unless the u64 sum of offset and
  length wrapped;
* `InterruptFindsEvent`: unless the guest wrote the page since the tick read it;
* `RtLayoutTracked`: unless the last function to use the target was cut short, lost its
  submission or shared the target with the other thread;
* `DrawsAreCurrent`: the stride, unless the number of vertex streams changed since the
  pipeline was built (finding 2);
* `GuestDataLaidOut`: entries whose sizes add up to 2^64 are left out, a missing part has
  an unreadable word, and an image of 8-byte texels sized without a row length may take
  twice its backing, for the code counts texels of 4 bytes there;
* `DescriptorScans`: the older lookup is held to its window of 128 bytes, not to the
  descriptor's length, on either side;
* `PointersCurrent` but for three uses; `AbbrevsAgree` while no BLOCKINFO was given up,
  no block ran past the buffer and no block id gets more than `AbbrevCap` abbreviations;
* `SameValues` and `IdsDefined` for the bodies the translator undertakes to lower
  (`Emittable`). Operands come before their use (`InOrder`, section 5); every instruction
  that takes its type from an operand finds one, and no call is unknown or dropped
  (`Typed`). In dispatch, a value read in another block is from the entry block, or its
  type is inferred by the pre-pass, or known at its definition before, or it is an access
  chain or pointer cast over such values within the depth cap; a phi of pointers is not,
  since it has no spill variable and its phi variable may be one round ahead (`Carried`).
  In the loop shapes, what comes into the header's phis from the loop is an instruction
  that keeps its id, and a plain loop does not leave into a phi (`ForwardRefsKept`);
* `LocalsAtHome` unless a segment could not be recorded; `LastFrameShown` unless the
  newest picture was drawn during a readback or lost with a failed one;
* `TranslationEnds`: not the loops that the two loop shapes emit, and not streams with a
  block inside VALUE_SYMTAB (`NoSymtabBlocks`).

## 4. Fairness

* A completion, a drain, a walk, a read or a translation under way takes its
  remaining steps: straight-line code on one thread (weak fairness).
* A waiting doorbell is eventually taken: strong fairness in `rings` and `root`,
  since the drain of another doorbell disables it again and again but the
  emulator's lock is handed on.
* The guest serves interrupts, publishes what it wrote and rings for it.
* The vblank tick and the frame poll are called by the shell's timers; the drain
  signals the frame it drew; the clock goes on.
* Nothing is assumed about the guest producing commands, enabling a display or
  ringing again after a failure. Hence `EverythingDrained` and `RootDrained` say
  nothing once a DMA failed or a malformed command sits in the ring, and both need
  the guest to ring at least once per `DrainMax` commands: a capped drain does not
  re-arm itself.

## 5. Where code and documents disagree

Shown by a run:

1. `handlers/compute/exec_cmdbuf.c:563` calls its completion of the stamp
   "belt-and-suspenders" beside the drain's; completing is not idempotent
   (`stamp.c:55` writes `max(target, cur + 1)`), so each executed command buffer
   moves the cell one further, to the next command's stamp before that command was
   dispatched (`rings_exec`).

2. `compute_draw_internal.h:76` says that with separate vertex streams "the pipeline must
   use the tight reflected layout", and `draw_emit.c:808` means to force it. Whether
   there are separate streams depends on the slots bound at the draw, and the pipeline
   cache (`draw_emit.c:56`) does not look at them: a pipeline built before the second
   slot was bound draws the interleaved vertices with the descriptor's stride
   (`encoder_stride`).
3. `display.h:68` wants every access to the target guarded by `rt_lock`;
   `lagfx_display_read_frame` holds it only to read `rt_ready` (`display.c:478`), and the
   draws do not take it. With no call failing, a readback and a draw submit barriers
   that name a layout the image is not in (`layout_race`).

Met while modelling, each reproduced by the model as the code has it:

* `protocol/stamp.c:13` "never regresses": a failed read of the cell counts as 0 and
  the write goes ahead (`StampNeverRegresses` fails with `"cell_read"` in `Faults`;
  the theorem assumes it out).
* `lagfx_device_reset` is documented to clear in-flight state
  (`include/libapplegfx-vulkan.h:288`); it only logs, so `read_ptr` and all tables
  survive (`device.c:471`).
* A present queues a surface "so the next display submit composites it"; the submit
  resets the queue without compositing (`handlers/display/display.c:596`).
* The header says a NULL `host_addr` "leaves mapping zeroed"; the memfd at that offset
  keeps what an earlier copy or write put there (`memory/task.c:179`).
* `draw_emit.c:996` calls a surface "sampleable after render"; it is left in the
  colour-attachment layout, and `draw_descriptors.c:186` samples it.
* When layouts cannot be created, the shaders are committed as if they used no
  resources and are drawn with the empty layout and nothing bound
  (`compute_inner_ops.c:1415`).
* Waits of one second end before a late GPU does; readback, upload and present then
  free what is still in use (`render_target.c:592`, `display_blit.c:303`,
  `iosurface.c:344`). `blit_encoder.c:243` and `:430` ignore the result of the
  submission and wait for ever.
* `translate_function.c:6259` creates spill variables beforehand so that values used in
  a block emitted before their definition are loaded from them. `resolve_relative`
  (`:1004`) decodes a forward operand to a number that `resolve_value_spv` refuses
  before it looks at a spill variable (`:1025`): such a use is undefined on every path.
  Only what comes into a phi is decoded signed.
* The per-pass target starts from an undefined layout although a comment says that
  LOAD keeps the seed; a fill leaves GENERAL untracked.
* `vulkan/composite.c:165` never frees its command buffer; `device.c:350` leaks the
  protocol when Vulkan fails to initialise.
* A frame whose readback fails is dropped (`display.c:485`).
* Vertex fetch may reach past the uploaded bytes when attribute formats are unknown
  (`draw_emit.c:1067` and `pipeline_build.c:85` size them differently).
* A slot that straddles a page is read in one piece (`object_resolver.c:51`), and so
  is an info reply written (`info_replies.c:358`).
* The timer marks a display as announced although the write of the pending word
  failed; indices 8 to 15 can be installed and are never polled.
* A command with a bad length stops every later drain at the same place.
* The check of a map or unmap against the reservation is a u64 sum of guest words, which
  wraps (`memory/task.c:206`, `:308`).
* The two lookups of a pipeline's functions disagree: one reads 128 bytes and no more
  (`object_resolver.c:323`), as `:405` says itself.
* `translate_function.c:5430` says that results get their ids beforehand. LOAD, GEP,
  SHUFFLEVEC, INSERTVAL, casts between floats and i1 (`:2465`, `:2542`), pointer casts
  (`:2678`, `:2769`), `air.any`, `air.all` and derivatives (`:3649`, `:3673`), conversions
  to i1 (`:3349`), helper calls and extracts from a vector of bools (`:5085`) take new
  ones; calls nobody knows and numeric bitcasts of a value without a type become an undef
  (`:3713`, `:2738`). A loop-carried phi over one of them refers to an id never defined.
  The exit block of a plain loop loses its phis (`:5383`).
* The pre-pass of dispatch looks for the obsolete SELECT only (`:6315`); LLVM writes
  VSELECT, whose values are spilled at their definition and no earlier.
* Selects, extracts and inserts of values without a recorded type are dropped
  (`:5257`, `:4944`, `:5096`, `:5167`); results of INSERTVAL have none.
* A chain rebuilt in another case whose base cannot be resolved returns the id of its
  own case, where the comment says 0 (`:1024`).
* `spv_builder.c:204` "locals for this fn are dropped": they go to the function
  before it.
* The walker of VALUE_SYMTAB does not skip a nested block (`bitcode_reader.c:1446`).
* Abbreviations beyond 64 for one block id are dropped without an error
  (`bitcode_reader.c:660`); the block's own then get their ids.

## 6. Proofs

Each theorem holds for every value of the constants that satisfies the module's
named assumption; TLC evaluates the assumption in the module's run. None limits the
number of commands, objects, tasks, functions or bytes.

* **RootRingProofs: stamps.** `StampsTypeCorrect`. `NoLostWakeupHolds`: the property is
  inductive with the types and `LatchedOnlyServing` (bits are latched only while
  the handler serves them); any faults. `CellBoundHolds`: the bound is not
  inductive, because a completion that is about to write `cur + 1` must have room;
  `CompletionAccounted` says that `complete_stamp_slot` counted the stamp before
  the cell moves. `StampMonotone`: `StampNeverRegresses` when cell reads cannot
  fail and `MaxStamp + MaxReplay < StampMod`, that is, before the 32-bit wrap.
* **RootRingProofs: the root ring.** `GeometryAgreesAlways`: `GeometryInv` says what each
  register means once written, and the address in between. `RootExactlyOnceAlways`: the
  guest has only the stamp cell to go by, so the invariant ties the cell to the drain.
  During the first boot the cell shows no more than was dispatched (`StampInv`), every
  command behind what the guest has seen lies intact in memory (`RingOK`), and the host's
  cursors and a waiting doorbell stand behind commands of that window (`BellsOK`,
  `AtOK`); a cursor is a remainder, and the window is shorter than the ring, so it tells
  which command. After a reset nothing is claimed, as the property says.
* **ChannelRingsProofs.** `RingsSound`, `ExactlyOnceAlways` and `RingsImplementStream`, the
  refinement to CommandStream. The cursors wrap; the argument follows the byte positions
  they stand for, which do not. The guest keeps all it has not seen consumed within one
  ring (`RingOK`), so within it no two positions share a byte (`PagesAssumption`: the pages
  of a ring are different pages), a command stays intact, and a cursor names one command
  (`AtOK`). `LostInv` says when delivery and acknowledgement agree.
* **SurfacesProofs.** `TaskTableSound` and `TaskIdsUniqueAlways`: ids are unique and shell
  objects owned once, with the types and "a dead slot names no shell object"; the lemmas
  `FindTask`, `AllocSlot` and `FindOrAlloc` say what the linear searches return.
  `SurfacesImplementSharing`: as long as no two entries have one key (`RegOK`) the registry
  array is a map, and each in-place edit (append, overwrite, swap with the last, sweep of a
  task) is one operation of SharedBackings. Counting is proved of that abstraction, for any
  finite set of keys, and carried back: `CountingExact` and `RegistryNeverDangles` are
  about the handlers.
* **DisplayProofs: the online event.** `OnlineOnce` and `OnlineNotSpurious`, with the setup
  handler and the guest between any two accesses of a tick. `Latched`: the latch equals the
  displays announced, posted in this tick or missed, and no display is two of these; past
  the read, a tick is at a display not latched yet (`Looking`). `Found`: a page posted to
  still shows both words, and one read as enabled still is, unless the guest wrote it
  since. That needs the tick to write to the address it read from, whatever a setup has
  put in the table meanwhile.
* **DisplayProofs: frames.** The scripts are fixed, everything else is free: the order of
  calls, what fails and when, how much the GPU holds and how late it is.
  `NothingFreedEarlyAlways`, from `FrameInv`: a draw's objects are in flight only at that
  draw's own wait, and with them its fence (`DrawHeld`); a fence of the staging ring in
  flight has its busy flag set, but for the step between the two (`SlotHeld`); a ring that
  exists has its fences (`RingBuilt`), and no failure path but that of the ring's own
  construction frees them (`UndoOK`). The scripts that name none of this are shown so step
  by step; the two draws, the ring and the two frames are followed by position.
  `NothingLeaksAlways`, from `LeakInv`: between functions nothing is left over (`Resting`);
  within one, 26 scripts free on every path what they made for themselves, and nine that
  build or destroy what outlives a call are followed by position (`Working`); `Queued` and
  `Ready` say which function is called where.
* **DisplayProofs: the target's layout.** `RtLayoutTrackedAlways`, for any interleaving of
  the two threads and any failing calls, from `LayoutInv`. Each of the eight functions has
  a place where it records its barrier, one where it submits it and one where it writes
  `rt->layout`, and brings the image to the layout it leaves there (`ShowSteps`). `Course`
  follows a thread along these: what it has done to the field and to the image stands as
  long as no other thread was inside with it. `Marked`: two threads inside have marked
  each other, so neither counts as having had the target for itself.
* **TaskMemoryProofs.** `RangeStaysReserved` and `MapKeepsToItsRange`, from one
  inductive invariant: the u64 sum of a map under way passed the range check
  (`InBounds`), what it placed is still there when its protection changes (`Placed`), page p of the memfd
  backs only page p of the range (`OwnPage`), and a page without mapping is in the
  hole of the running call or in `punctured` (`Holes`, which strengthens
  `ReservationHeld` to the states inside a call). `AroundUntouched`: without a wrap the
  range lies in the reservation, so the pages around it are out of reach.
* **CommandBuffersProofs.** `HandlersReadTheirBody`: for each inner opcode and every body
  length, what the handler reads lies in the body. `WalkReadsInside`: `WalkInv` adds to the
  property where the cursors stand in each state of the walk, and that a word keeps its
  value once read; buffers of any length with anything in them.
* **CommandBuffersProofs: the resolver.** `ReadsFollowTheTreeAlways`, for radix trees of any
  depth and fan-out, pages of any size, holes, early leaves and unreadable frames anywhere:
  the walk is followed level by level beside the definition of what the tree maps, the
  read page by page. `StaysInBuffersAlways`: for all buffer sizes and failing
  allocations. `DescriptorScansAlways`: for descriptors of any length, by induction over
  each scan; the older lookup is the newer one's scan stopped at its window or at its
  second reference. Recursion here is by recursive functions. `SetInduction` and
  `RangeInduction` take the set of numbers a fact is true of, where the library's
  induction theorems take an operator, and `Iteration` says that a step which maps a set
  into itself can be repeated, which is what makes a recursive function defined at all.
* **EncoderStateProofs.** `ObjectsAccounted`: every Vulkan object that exists has one owner,
  the task's pipeline record, the handler in progress or nobody (`forgotten`), and what an
  owner names exists. `ObjectsExistAlways` and `NothingLeftBehindAlways` follow.
  `DrawsAreCurrentAlways`: the cached pipeline is dropped whenever the shaders, layout or
  inputs it was built from change, and its stride is the one its number of streams gave
  (`CacheCurrent`); viewport and scissor count as set only in the pass that set them, and
  the handlers accept no side above 16384, so that no u32 sum of the cut wraps (`RegionInv`,
  `DrawRectInside`). `BindingsWrittenAlways`: `Written` follows the descriptor writes; it
  assumes that every pair with bindings gets a layout (`LayoutsBuilt`), without which it
  is false (section 5).
* **EncoderStateProofs: guest data.** `PlacementInOrder`: the placement loop reads a first
  part of the words wanted, in order, and all of them unless one cannot be read, for
  descriptors of any length, in u64 arithmetic, as long as the sizes do not add up to 2^64.
  After each entry what it has read is that part of what the entries passed so far hold
  (`Placed`: still running, or cut off before an unreadable word). `AttributesApart`:
  offsets ascend for any number of attributes. `ExtentFits`: an image fits its backing,
  for backings of at least 64 texels (below that the code still makes a row of 64), or
  takes up to twice as much when 8-byte texels are sized without a row length.
  `GuestDataLaidOutAlways`, the property of the run, is an instance of the three.
* **ShaderProofs: helpers.** `CallsDefinedAlways` and `LocalsAtHomeAlways`, for every call
  graph, recursive ones too. `PlanInv`: the registry has no duplicates and not the entry
  point, what is emitted lies behind its cursor, the section opens each function once and
  before any call to it (`WordsOK`), a rewind restores the builder, and the segments cut
  the locals into consecutive pieces, each at its function (`SegsOK`, unless a mark was lost).
* **ShaderProofs: the reader.** `PointersCurrentAlways`, `BodiesBoundAlways` and
  `AbbrevsAgreeAlways`, from `ReaderInv`. `PhaseInv` says which block is under way;
  `PointerInv` that a walker's pointer to its table is current between records (that of
  VALUE_SYMTAB excepted) and so is a body's; `BoundInv` that as many functions with a body
  lie before the cursor as blocks were met (`CursorOK`; `Rank` counts them). The proof of
  `AbbrevsAgree` failed first, on two BLOCKINFO blocks that together exceed the cap for one
  block id: the code drops the rest in silence (`bitcode_reader.c:660`), TLC confirms it
  with a stream of 8 units and a cap of 1, and the property now says so.

*Only model-checked:*

* the liveness properties (`CompletionReachesGuest`, `EverythingDrained`, `RootDrained`,
  `EnabledIsAnnounced`, `StillPresents`, `LastFrameShown`, `WalkEnds`, `TranslationEnds`);
* `SameValues` and `IdsDefined`: BodyLowering declares RECURSIVE operators for the
  execution of access chains, so no theorem can be stated about it or ShaderPipeline.

`RaisedAfterDispatch`, `InterleavedIsPacked` and `BarriersNameLayout` are the properties
of the runs that show a violation. Every other property of a run is stated by a theorem.

## 7. Not modelled

* What a Vulkan driver does beyond finishing its queue in order and late; pixel
  contents, sizes and formats where no property tells them apart.
* What an AIR instruction computes, types, constants, decorations and the prologue of
  a shader; the instruction templates of `air2spv/emit_*.c`.
* Code without a caller: `air2spirv/` but for `metallib_extract.c`,
  `translate/render_encoder.c`, `begin_frame`, `end_frame`, `drain_pending`; and
  `vulkan/cursor.c` with the overlay, since `captured_len` is always 0
  (`handlers/display/display.c:250`). `submit_clear_color` and `submit_empty`, which
  only tests call, are modelled.
* Replies built from constants (`ops_misc.c`, `sync.c`, `util.c`), the shader
  catalogue, logging, dumps, environment diagnostics, test hooks.
* Raw pointers in the frame-blit queue may outlive their surface
  (`draw_emit.c:1394`), the queue drops what exceeds 16 places (`:1363`), a duplicate
  CmdDefineTask2 leaks the earlier shell object (`task.c:66`), a map of several ranges
  that fails later leaves the earlier ones (`memory.c:75`), and
  `12 + 24 * d + 16 * r` is computed in 32 bits from guest words
  (`exec_cmdbuf.c:510`): the code promises nothing about these, and no property is
  stated.

## 8. Plan

1. Type and constant caches of the translator (a rewound helper must not take shared
   types with it), and value numbering of module constants.
2. The table of displays in the device's lifecycle, and the remaining display commands.
3. The execution of access chains in BodyLowering as a recursive function, so that
   `IdsDefined` can be stated as a theorem.
