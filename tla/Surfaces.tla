------------------------------ MODULE Surfaces ------------------------------
(***************************************************************************)
(* IOSurface lifetimes: the resource registry (resource_registry.c, an     *)
(* array of entries keyed by ref and task), the reference-counted Vulkan   *)
(* backings (vulkan/iosurface.c), the root-channel commands 0x26..0x2a     *)
(* that manage both (handlers/iosurface), the task deletion that clears    *)
(* the registry, the draw path that creates surfaces on demand             *)
(* (draw_emit.c, draw_descriptors.c, draw_resources.c) and the             *)
(* frame-blit queue of surfaces waiting to be composited.                  *)
(*                                                                         *)
(* Handlers are serialised by the emulator's lock, so each is one action;  *)
(* a draw is two, because it may register two surfaces.  Every entry is a  *)
(* texture (no code registers another type), an entry's image and view go  *)
(* with its host_handle, and sizes and formats are left out.  The policies *)
(* of common/policy.h are at their defaults and the opt-in diagnostics of  *)
(* the environment (LAGFX_TILE_BLIT, LAGFX_M2_WHITEFB, ...) are off.       *)
(***************************************************************************)
EXTENDS TaskTable, Sequences

CONSTANTS
    Refs,         \* surface ids / resource refs (non-zero)
    MaxResources, \* LAGFX_MAX_RESOURCES
    Backings,     \* addresses malloc can return for a lagfx_vk_iosurface_t
    MaxQueue,     \* 16: the size of frame_blit_queue
    PresentChan,  \* current_chan_id while a display channel is drained, which
                  \* the present handler uses as a task id
    MaxRefs       \* bound: references per backing

ASSUME SurfaceAssumption ==
    /\ NULL \notin Backings
    /\ MaxResources \in Nat /\ MaxQueue \in Nat /\ MaxRefs \in Nat
    /\ PresentChan \in TaskIds

VARIABLES
    entries,    \* registry: entries[1..count]
    refs,       \* ios->refcount, 0 for memory that is not a backing
    sampleable, \* backings whose layout is SHADER_READ_ONLY
    queue,      \* frame_blit_queue[0..frame_blit_n); shown is history: the
                \* surface has been composited since it was queued
    draw,       \* a draw between its two steps
    lost        \* history: references dropped without a release

surfaceVars == <<entries, refs, sampleable, queue, draw, lost, tasks, shellLive>>

Idle == [task |-> 0, target |-> NULL, busy |-> FALSE]

SurfacesTypeOK ==
    /\ TaskTypeOK
    /\ Len(entries) <= MaxResources
    /\ \A i \in 1 .. Len(entries) :
          entries[i] \in [ref : Refs, task : TaskIds, handle : Backings \cup {NULL}]
    /\ refs \in [Backings -> 0 .. MaxRefs]
    /\ lost \in [Backings -> 0 .. MaxRefs]
    /\ \A b \in sampleable : refs[b] > 0
    /\ Len(queue) <= MaxQueue
    /\ \A i \in 1 .. Len(queue) : queue[i] \in [ios : Backings, shown : BOOLEAN]
    /\ draw \in [task : TaskIds, target : Backings \cup {NULL}, busy : BOOLEAN]

SurfacesInit ==
    /\ TaskInit
    /\ entries = <<>>
    /\ refs = [b \in Backings |-> 0]
    /\ sampleable = {}
    /\ queue = <<>>
    /\ draw = Idle
    /\ lost = [b \in Backings |-> 0]

-----------------------------------------------------------------------------
(* The registry.  An index of an entry is returned as a set: empty for NULL. *)

lagfx_resource_lookup(ent, r, t) ==
    FirstOf({i \in 1 .. Len(ent) : ent[i].ref = r /\ ent[i].task = t})

\* Task-agnostic: the first texture entry with this ref.
lagfx_resource_lookup_texture(ent, r) == FirstOf({i \in 1 .. Len(ent) : ent[i].ref = r})

\* An existing entry keeps its handle; a full table drops the registration.
lagfx_resource_register(ent, r, t) ==
    IF lagfx_resource_lookup(ent, r, t) # {} \/ Len(ent) >= MaxResources
    THEN ent
    ELSE Append(ent, [ref |-> r, task |-> t, handle |-> NULL])

\* The last entry takes the freed place.
lagfx_resource_unregister(ent, i) ==
    LET rest == SubSeq(ent, 1, Len(ent) - 1)
    IN  IF i = Len(ent) THEN rest ELSE [rest EXCEPT ![i] = ent[Len(ent)]]

\* The compaction of lagfx_resource_clear_task: an entry that is kept moves down to
\* the place behind those kept before it; no handle is released.
lagfx_resource_clear_task(ent, t) ==
    LET kept == {i \in 1 .. Len(ent) : ent[i].task # t}
        w(i) == Cardinality({j \in kept : j <= i})
    IN  [k \in 1 .. Cardinality(kept) |-> ent[CHOOSE i \in kept : w(i) = k]]

-----------------------------------------------------------------------------
(* Backings. *)

\* lagfx_vk_iosurface_create takes memory no backing uses; it may also fail.
Fresh == {b \in Backings : refs[b] = 0}

\* Counts after lagfx_vk_iosurface_release(h); at 0 the backing is destroyed.
lagfx_vk_iosurface_release(rc, h) ==
    [b \in Backings |-> IF b = h THEN rc[b] - 1 ELSE rc[b]]

iosurface_retain_dropped(rc, h) == rc

lagfx_vk_iosurface_retain(rc, h) ==
    [b \in Backings |-> IF b = h THEN rc[b] + 1 ELSE rc[b]]

\* History: a reference to h (if it is one) disappears without a release.
Lose(h) == [b \in Backings |-> IF b = h THEN lost[b] + 1 ELSE lost[b]]

\* Contents of new or destroyed backings are not sampleable.
KeepSampleable == sampleable' = {b \in sampleable : refs[b] > 0 /\ refs'[b] > 0}

-----------------------------------------------------------------------------
(* Root-channel commands.  The task table is left alone by the surface ones. *)

Quiet == ~draw.busy

\* 0x27: register under task 0, allocate, then swap the handle.  When the
\* allocation fails the entry stays without one; when the registry is full the
\* allocation is undone.
lagfx_iosurface_create_backing2(r) ==
    LET ent == lagfx_resource_register(entries, r, 0)
        hit == lagfx_resource_lookup(ent, r, 0)
    IN  /\ Quiet
        /\ \/ entries' = ent /\ UNCHANGED refs
           \/ \E b \in Fresh, i \in hit :
                 /\ entries' = [ent EXCEPT ![i].handle = b]
                 /\ refs' = [lagfx_vk_iosurface_release(refs, ent[i].handle)
                                EXCEPT ![b] = 1]
        /\ KeepSampleable
        /\ UNCHANGED <<queue, draw, lost, taskVars>>

\* 0x28: an unknown surface gets a tracker entry without backing.
lagfx_iosurface_lookup(r) ==
    /\ Quiet
    /\ entries' = lagfx_resource_register(entries, r, 0)
    /\ UNCHANGED <<refs, sampleable, queue, draw, lost, taskVars>>

\* 0x29: alias another task's backing.  A handle the local entry had is
\* overwritten; when local and remote are one entry it is retained all the same.
lagfx_iosurface_import_mach_port(lt, rt, rs, ls) ==
    \E i \in lagfx_resource_lookup(entries, rs, rt) :
       LET ent == lagfx_resource_register(entries, ls, lt)
           h   == ent[i].handle
       IN  /\ Quiet
           /\ h # NULL => refs[h] < MaxRefs
           /\ \E j \in lagfx_resource_lookup(ent, ls, lt) :
                 /\ entries' = [ent EXCEPT ![j].handle = h]
                 /\ refs' = lagfx_vk_iosurface_retain(refs, h)
                 /\ lost' = Lose(ent[j].handle)
           /\ UNCHANGED <<sampleable, queue, draw, taskVars>>

\* 0x26 and 0x2a (the same steps with the payload fields swapped).
release_and_unregister(r, t) ==
    \E i \in lagfx_resource_lookup(entries, r, t) :
       /\ Quiet
       /\ refs' = lagfx_vk_iosurface_release(refs, entries[i].handle)
       /\ entries' = lagfx_resource_unregister(entries, i)
       /\ KeepSampleable
       /\ UNCHANGED <<queue, draw, lost, taskVars>>

lagfx_iosurface_delete_backing2(r, t) == release_and_unregister(r, t)
lagfx_iosurface_unmap(t, r) == release_and_unregister(r, t)

lagfx_task_define_task2(id, length) ==
    /\ Quiet
    /\ define_task2(id, length)
    /\ UNCHANGED <<entries, refs, sampleable, queue, draw, lost>>

lagfx_define_host_task(slot_index) ==
    /\ Quiet
    /\ define_host_task(slot_index)
    /\ UNCHANGED <<entries, refs, sampleable, queue, draw, lost>>

\* 0x01: the slot is freed and the task's entries leave the registry.
lagfx_task_delete_task(id) ==
    \E s \in find_task(id) :
       LET gone(b) == {i \in 1 .. Len(entries) :
                          entries[i].task = id /\ entries[i].handle = b}
       IN  /\ Quiet
           /\ delete_task_slot(s)
           /\ entries' = lagfx_resource_clear_task(entries, id)
           /\ lost' = [b \in Backings |-> lost[b] + Cardinality(gone(b))]
           /\ UNCHANGED <<refs, sampleable, queue, draw>>

-----------------------------------------------------------------------------
(* Drawing and presenting. *)

\* Both writers of frame_blit_queue: no duplicates, and a full queue drops it.
blit_enqueue(q, h) ==
    IF Len(q) >= MaxQueue \/ \E i \in 1 .. Len(q) : q[i].ios = h
    THEN q
    ELSE Append(q, [ios |-> h, shown |-> FALSE])

\* A new surface b is stored under ref r.  texture_realize registers only when
\* no texture has the ref; the per-pass path always registers (r, t).  Both then
\* write to the first texture with the ref, whoever owns it, and destroy b when
\* the table was full.
attach(r, t, b, always) ==
    LET old == lagfx_resource_lookup_texture(entries, r)
        ent == IF old # {} /\ ~always THEN entries
               ELSE lagfx_resource_register(entries, r, t)
    IN  \E i \in lagfx_resource_lookup_texture(ent, r) :
           /\ entries' = [ent EXCEPT ![i].handle = b]
           /\ refs' = [refs EXCEPT ![b] = 1]
           /\ lost' = Lose(ent[i].handle)
           /\ sampleable' = sampleable \cup {b}

\* First half of a draw: the per-pass target (draw_emit.c).  The target's
\* surface is looked up, or seeded from guest memory, or created empty; without
\* one the draw goes to the display's own render target.
DrawTarget(t, tref) ==
    LET has == {i \in lagfx_resource_lookup_texture(entries, tref) :
                   entries[i].handle # NULL}
    IN  /\ Quiet
        /\ find_task(t) # {}
        /\ \/ \E i \in has :
                 /\ draw' = [task |-> t, target |-> entries[i].handle,
                             busy |-> TRUE]
                 /\ sampleable' = sampleable \cup {entries[i].handle}
                 /\ UNCHANGED <<entries, refs, lost>>
           \/ \E b \in Fresh, always \in BOOLEAN :
                 /\ has = {} /\ tref # 0
                 /\ draw' = [task |-> t, target |-> b, busy |-> TRUE]
                 /\ attach(tref, t, b, always)
           \/ /\ has = {}
              /\ draw' = [task |-> t, target |-> NULL, busy |-> TRUE]
              /\ UNCHANGED <<entries, refs, sampleable, lost>>
        /\ UNCHANGED <<queue, taskVars>>

\* Second half: bind the sampled texture (a surface that is not sampleable is
\* realized anew from guest memory), emit, and, when a translated draw landed in
\* a per-pass surface, queue it and composite the whole queue into display->rt.
\* A sampled texture that cannot be bound skips the draw; r = 0 samples none.
DrawEmit(r) ==
    LET hit  == lagfx_resource_lookup_texture(entries, r)
        bind == r = 0 \/ \E i \in hit : entries[i].handle \in sampleable
        land == /\ draw.target # NULL
                /\ queue' = LET q == blit_enqueue(queue, draw.target)
                            IN  [i \in 1 .. Len(q) |-> [q[i] EXCEPT !.shown = TRUE]]
    IN  /\ draw.busy
        /\ draw' = Idle
        /\ \/ bind /\ UNCHANGED <<entries, refs, sampleable, lost>>
              /\ (land \/ UNCHANGED queue)
           \/ \E b \in Fresh :
                 ~bind /\ attach(r, draw.task, b, FALSE) /\ (land \/ UNCHANGED queue)
           \/ ~bind /\ UNCHANGED <<entries, refs, sampleable, lost, queue>>
        /\ UNCHANGED taskVars

\* vchan 0x06/0x07: the entry of the channel's "task", else of task 0.
lagfx_display_present_surface_by_id(r) ==
    LET mine == lagfx_resource_lookup(entries, r, PresentChan)
        re   == IF mine # {} THEN mine ELSE lagfx_resource_lookup(entries, r, 0)
    IN  \E i \in re :
           /\ Quiet
           /\ entries[i].handle # NULL
           /\ queue' = blit_enqueue(queue, entries[i].handle)
           /\ UNCHANGED <<entries, refs, sampleable, draw, lost, taskVars>>

\* vchan display submit: the queue is reset, then display->rt is read back.
lagfx_display_vchan_display_submit ==
    /\ Quiet
    /\ queue # <<>>
    /\ queue' = <<>>
    /\ UNCHANGED <<entries, refs, sampleable, draw, lost, taskVars>>

-----------------------------------------------------------------------------

SurfacesNext ==
    \/ \E r \in Refs : \/ lagfx_iosurface_create_backing2(r)
                       \/ lagfx_iosurface_lookup(r)
                       \/ lagfx_display_present_surface_by_id(r)
    \/ \E r, ls \in Refs, lt, rt \in TaskIds :
          lagfx_iosurface_import_mach_port(lt, rt, r, ls)
    \/ \E r \in Refs, t \in TaskIds : \/ lagfx_iosurface_delete_backing2(r, t)
                                      \/ lagfx_iosurface_unmap(t, r)
    \/ \E t \in TaskIds, n \in 0 .. 1 : lagfx_task_define_task2(t, n)
    \/ \E t \in TaskIds, low \in 0 .. 1 : lagfx_define_host_task(2 * t + low)
    \/ \E t \in TaskIds : lagfx_task_delete_task(t)
    \/ \E t \in TaskIds, tref \in Refs \cup {0} : DrawTarget(t, tref)
    \/ \E sref \in Refs \cup {0} : DrawEmit(sref)
    \/ lagfx_display_vchan_display_submit

SurfacesSpec == SurfacesInit /\ [][SurfacesNext]_surfaceVars

-----------------------------------------------------------------------------
(* Properties. *)

\* The registry as a map from keys to handles.
Keys == Refs \X TaskIds

owner ==
    [k \in Keys |->
        LET hit == lagfx_resource_lookup(entries, k[1], k[2])
        IN  IF hit = {} THEN NULL ELSE entries[CHOOSE i \in hit : TRUE].handle]

B == INSTANCE SharedBackings WITH NoBacking <- NULL

\* The handlers implement the abstract sharing protocol: each one replaces,
\* overwrites, aliases, releases or forgets owners, and nothing else.
ImplementsSharing == B!BackingsSpec

=============================================================================
