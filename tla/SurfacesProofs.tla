--------------------------- MODULE SurfacesProofs ---------------------------
(***************************************************************************)
(* Proofs about the task table and about the surfaces built on it, for     *)
(* every table size, every set of ids, every shell and any backings.       *)
(*                                                                         *)
(* The invariants of the task table are inductive together: that a define  *)
(* finds the slot of an existing task (TaskIdsUnique) and that a slot      *)
(* without a live task names no shell object (ShellTasksOwned).            *)
(*                                                                         *)
(* The registry is an array that commands, draws and task deletions edit   *)
(* in place; as long as no two entries have one key it is a map, and each  *)
(* edit is one operation of SharedBackings on that map.                    *)
(* Counting is proved of that abstraction and carried back to the handlers.*)
(***************************************************************************)
EXTENDS Surfaces, WellFoundedInduction, FunctionTheorems, FiniteSetTheorems,
        SequenceTheorems, TLAPS

-----------------------------------------------------------------------------
(* The task table. *)

TaskInv == TaskTypeOK /\ TaskIdsUnique /\ ShellTasksOwned

-----------------------------------------------------------------------------

\* A search of a part of the array that is not empty finds something.
LEMMA FirstExists ==
    ASSUME NEW S \in SUBSET Nat, S # {}
    PROVE  FirstOf(S) # {}
<1> DEFINE R == {ss \in Nat \X Nat : ss[1] < ss[2]}
<1>1. R = OpToRel(<, Nat)
  BY Zenon DEF OpToRel
<1>2. IsWellFoundedOn(R, Nat)
  BY <1>1, NatLessThanWellFounded, Zenon
<1>3. PICK x \in S : \A y \in S : ~ (<<y, x>> \in R)
  <2> HIDE DEF R
  <2> QED  BY <1>2, WFMin
<1>4. \A y \in S : x <= y
  <2> SUFFICES ASSUME NEW y \in S, ~(x <= y) PROVE FALSE
    OBVIOUS
  <2>1. x \in Nat /\ y \in Nat
    OBVIOUS
  <2>2. y < x
    BY <2>1
  <2>3. <<y, x>> \in R
    BY <2>1, <2>2
  <2> QED  BY <1>3, <2>3
<1> QED  BY <1>4 DEF FirstOf

\* lagfx_protocol_find_task returns a live slot with the id, and NULL only if
\* there is none.
LEMMA FindTask ==
    ASSUME NEW id
    PROVE  /\ \A i \in find_task(id) : i \in TaskSlot /\ tasks[i].live /\ tasks[i].id = id
           /\ find_task(id) = {} => \A i \in TaskSlot : tasks[i].live => tasks[i].id # id
<1> DEFINE S == {i \in TaskSlot : tasks[i].live /\ tasks[i].id = id}
<1>1. S \in SUBSET Nat
  BY TaskAssumption DEF TaskSlot
<1>2. find_task(id) = FirstOf(S)
  BY DEF find_task
<1>3. FirstOf(S) \subseteq S
  BY DEF FirstOf
<1>4. FirstOf(S) = {} => S = {}
  BY <1>1, FirstExists
<1> QED  BY <1>2, <1>3, <1>4

\* lagfx_protocol_alloc_task_slot returns a slot that is not live.
LEMMA AllocSlot ==
    \A i \in alloc_task_slot : i \in TaskSlot /\ ~tasks[i].live
BY DEF alloc_task_slot, FirstOf

\* A define writes to a slot that no other live task with this id has.
LEMMA FindOrAlloc ==
    ASSUME TaskInv, NEW id, NEW i \in find_or_alloc(id)
    PROVE  /\ i \in TaskSlot
           /\ tasks[i].live => tasks[i].id = id
           /\ \A j \in TaskSlot \ {i} : tasks[j].live => tasks[j].id # id
<1>1. CASE find_task(id) # {}
  <2>1. i \in find_task(id)
    BY <1>1 DEF find_or_alloc
  <2>2. i \in TaskSlot /\ tasks[i].live /\ tasks[i].id = id
    BY <2>1, FindTask
  <2> QED  BY <2>2 DEF TaskInv, TaskIdsUnique
<1>2. CASE find_task(id) = {}
  <2>1. i \in alloc_task_slot
    BY <1>2 DEF find_or_alloc
  <2> QED  BY <2>1, <1>2, FindTask, AllocSlot
<1> QED  BY <1>1, <1>2

-----------------------------------------------------------------------------

LEMMA DefineTask2Step ==
    ASSUME TaskInv, NEW id \in TaskIds, NEW length, define_task2(id, length)
    PROVE  TaskInv'
<1>1. PICK i \in find_or_alloc(id), shell \in create_task \cup {NULL} :
          /\ tasks' = [tasks EXCEPT ![i] =
                          [live |-> TRUE, id |-> id, shell_task |-> shell]]
          /\ shellLive' = shellLive \cup ({shell} \ {NULL})
  BY DEF define_task2
<1>2. /\ i \in TaskSlot
      /\ \A j \in TaskSlot \ {i} : tasks[j].live => tasks[j].id # id
  BY FindOrAlloc
<1>3. shell = NULL \/ (shell \in ShellTasks /\ shell \notin shellLive)
  BY DEF create_task
<1>4. TaskTypeOK'
  BY <1>1, <1>2, <1>3 DEF TaskInv, TaskTypeOK
<1>5. /\ tasks'[i] = [live |-> TRUE, id |-> id, shell_task |-> shell]
      /\ \A j \in TaskSlot \ {i} : tasks'[j] = tasks[j]
  BY <1>1, <1>2 DEF TaskInv, TaskTypeOK
<1>6. TaskIdsUnique'
  BY <1>2, <1>5 DEF TaskInv, TaskIdsUnique
<1>7. ShellTasksOwned'
  BY <1>1, <1>2, <1>3, <1>5 DEF TaskInv, ShellTasksOwned
<1> QED  BY <1>4, <1>6, <1>7 DEF TaskInv

LEMMA DefineHostTaskStep ==
    ASSUME TaskInv, NEW slot_index, slot_index \div 2 \in TaskIds,
           define_host_task(slot_index)
    PROVE  TaskInv'
<1> DEFINE id == slot_index \div 2
<1>1. PICK i \in find_or_alloc(id) :
          tasks' = [tasks EXCEPT ![i].id = id, ![i].live = TRUE]
  BY DEF define_host_task
<1>2. shellLive' = shellLive
  BY DEF define_host_task
<1> HIDE DEF id
<1>3. id \in TaskIds
  BY DEF id
<1>4. /\ i \in TaskSlot
      /\ \A j \in TaskSlot \ {i} : tasks[j].live => tasks[j].id # id
  BY FindOrAlloc
<1>5. /\ tasks'[i] = [live |-> TRUE, id |-> id, shell_task |-> tasks[i].shell_task]
      /\ \A j \in TaskSlot \ {i} : tasks'[j] = tasks[j]
  BY <1>1, <1>4 DEF TaskInv, TaskTypeOK
<1>6. TaskTypeOK'
  BY <1>1, <1>2, <1>3, <1>4 DEF TaskInv, TaskTypeOK
<1>7. TaskIdsUnique'
  BY <1>4, <1>5 DEF TaskInv, TaskIdsUnique
<1>8. ShellTasksOwned'
  BY <1>2, <1>4, <1>5 DEF TaskInv, ShellTasksOwned
<1> QED  BY <1>6, <1>7, <1>8 DEF TaskInv

LEMMA DeleteTaskStep ==
    ASSUME TaskInv, NEW i \in TaskSlot, delete_task_slot(i)
    PROVE  TaskInv'
<1>1. /\ tasks'[i] = FreeSlot
      /\ \A j \in TaskSlot \ {i} : tasks'[j] = tasks[j]
  BY DEF delete_task_slot, TaskInv, TaskTypeOK
<1>2. TaskTypeOK'
  BY TaskAssumption DEF delete_task_slot, TaskInv, TaskTypeOK, FreeSlot
<1>3. TaskIdsUnique'
  BY <1>1 DEF TaskInv, TaskIdsUnique, FreeSlot
<1>4. ShellTasksOwned'
  BY <1>1 DEF TaskInv, ShellTasksOwned, FreeSlot, delete_task_slot
<1> QED  BY <1>2, <1>3, <1>4 DEF TaskInv

\* In every reachable state no two live slots have the same task id and every
\* shell object is owned by exactly one slot: CmdDefineTask2, CmdDefineHostTask
\* and CmdDeleteTask (handlers/task/task.c, channel_0_dispatcher.c) keep the
\* array a map and never destroy a shell task twice.
THEOREM TaskTableSound == TaskSpec => [](TaskIdsUnique /\ ShellTasksOwned)
<1>1. TaskInit => TaskInv
  BY TaskAssumption DEF TaskInit, TaskInv, TaskTypeOK, TaskIdsUnique,
     ShellTasksOwned, FreeSlot
<1>2. TaskInv /\ [TaskNext]_taskVars => TaskInv'
  <2> SUFFICES ASSUME TaskInv, [TaskNext]_taskVars PROVE TaskInv'
    OBVIOUS
  <2>1. CASE \E id \in TaskIds, length \in 0 .. 1 : define_task2(id, length)
    BY <2>1, DefineTask2Step
  <2>2. CASE \E id \in TaskIds, low \in 0 .. 1 : define_host_task(2 * id + low)
    <3>1. PICK id \in TaskIds, low \in 0 .. 1 : define_host_task(2 * id + low)
      BY <2>2
    <3>2. (2 * id + low) \div 2 \in TaskIds
      <4>1. id \in Nat /\ (low = 0 \/ low = 1)
        BY TaskAssumption
      <4>2. (2 * id + low) \div 2 = id
        BY <4>1
      <4> QED  BY <4>2
    <3> QED  BY <3>1, <3>2, DefineHostTaskStep
  <2>3. CASE \E i \in TaskSlot : \E id \in TaskIds :
                i \in find_task(id) /\ delete_task_slot(i)
    BY <2>3, DeleteTaskStep
  <2>4. CASE UNCHANGED taskVars
    BY <2>4 DEF taskVars, TaskInv, TaskTypeOK, TaskIdsUnique, ShellTasksOwned
  <2> QED  BY <2>1, <2>2, <2>3, <2>4 DEF TaskNext
<1>3. TaskInv => TaskIdsUnique /\ ShellTasksOwned
  BY DEF TaskInv
<1> QED  BY <1>1, <1>2, <1>3, PTL DEF TaskSpec

-----------------------------------------------------------------------------
(* The registry as a map. *)

Entry == [ref : Refs, task : TaskIds, handle : Backings \cup {NULL}]
KeyOf(e) == <<e.ref, e.task>>

RegOK(ent) ==
    /\ ent \in Seq(Entry)
    /\ \A i, j \in 1 .. Len(ent) : KeyOf(ent[i]) = KeyOf(ent[j]) => i = j

OwnerOf(ent) ==
    [k \in Keys |->
        LET hit == lagfx_resource_lookup(ent, k[1], k[2])
        IN  IF hit = {} THEN NULL ELSE ent[CHOOSE i \in hit : TRUE].handle]

LEMMA EntryFields ==
    ASSUME NEW ent, RegOK(ent), NEW i \in 1 .. Len(ent)
    PROVE  /\ ent[i] \in Entry
           /\ ent[i].ref \in Refs /\ ent[i].task \in TaskIds
           /\ ent[i].handle \in Backings \cup {NULL}
           /\ ent[i] = [ref |-> ent[i].ref, task |-> ent[i].task, handle |-> ent[i].handle]
           /\ KeyOf(ent[i]) \in Keys
<1>1. ent[i] \in Entry
  BY DEF RegOK
<1> QED  BY <1>1 DEF Entry, KeyOf, Keys

\* A search by ref and task finds the entry with that key.
LEMMA Lookup ==
    ASSUME NEW ent, RegOK(ent), NEW r, NEW t
    PROVE  lagfx_resource_lookup(ent, r, t) = {i \in 1 .. Len(ent) : KeyOf(ent[i]) = <<r, t>>}
<1> DEFINE S == {i \in 1 .. Len(ent) : ent[i].ref = r /\ ent[i].task = t}
<1>1. S = {i \in 1 .. Len(ent) : KeyOf(ent[i]) = <<r, t>>}
  BY DEF KeyOf
<1>2. \A i, j \in S : i = j
  BY <1>1 DEF RegOK
<1>3. \A i \in S : i <= i
  OBVIOUS
<1> HIDE DEF S
<1>4. FirstOf(S) = S
  BY <1>2, <1>3 DEF FirstOf
<1> QED  BY <1>1, <1>4 DEF lagfx_resource_lookup, S

\* What a key owns is the handle of its entry.
LEMMA OwnerFound ==
    ASSUME NEW ent, RegOK(ent), NEW i \in 1 .. Len(ent)
    PROVE  OwnerOf(ent)[KeyOf(ent[i])] = ent[i].handle
<1> DEFINE k == KeyOf(ent[i])
           hit == lagfx_resource_lookup(ent, k[1], k[2])
<1>1. k \in Keys /\ k = <<k[1], k[2]>>
  BY EntryFields DEF KeyOf
<1>2. hit = {j \in 1 .. Len(ent) : KeyOf(ent[j]) = k}
  BY <1>1, Lookup
<1>3. hit = {i}
  BY <1>2 DEF RegOK
<1> HIDE DEF hit, k
<1>4. OwnerOf(ent)[k] = ent[CHOOSE j \in hit : TRUE].handle
  BY <1>1, <1>3 DEF OwnerOf, hit
<1>5. (CHOOSE j \in hit : TRUE) = i
  BY <1>3
<1> QED  BY <1>4, <1>5 DEF k

LEMMA OwnerMissing ==
    ASSUME NEW ent, RegOK(ent), NEW k \in Keys, \A i \in 1 .. Len(ent) : KeyOf(ent[i]) # k
    PROVE  OwnerOf(ent)[k] = NULL
<1>1. k = <<k[1], k[2]>>
  BY DEF Keys
<1>2. lagfx_resource_lookup(ent, k[1], k[2]) = {}
  BY <1>1, Lookup
<1> QED  BY <1>2 DEF OwnerOf

\* A map o is the registry's if it agrees with every entry and has nothing else.
LEMMA OwnerIs ==
    ASSUME NEW ent, RegOK(ent), NEW o, o = [k \in Keys |-> o[k]],
           \A i \in 1 .. Len(ent) : o[KeyOf(ent[i])] = ent[i].handle,
           \A k \in Keys : (\A i \in 1 .. Len(ent) : KeyOf(ent[i]) # k) => o[k] = NULL
    PROVE  OwnerOf(ent) = o
<1>1. ASSUME NEW k \in Keys PROVE OwnerOf(ent)[k] = o[k]
  <2>1. CASE \E i \in 1 .. Len(ent) : KeyOf(ent[i]) = k
    BY <2>1, OwnerFound
  <2>2. CASE \A i \in 1 .. Len(ent) : KeyOf(ent[i]) # k
    BY <2>2, OwnerMissing
  <2> QED  BY <2>1, <2>2
<1>2. OwnerOf(ent) = [k \in Keys |-> OwnerOf(ent)[k]]
  BY DEF OwnerOf
<1> QED  BY <1>1, <1>2

LEMMA OwnerShape == ASSUME NEW ent PROVE OwnerOf(ent) = [k \in Keys |-> OwnerOf(ent)[k]]
BY DEF OwnerOf

-----------------------------------------------------------------------------
(* The edits of the registry. *)

\* Registering keeps the map and every entry's place.
LEMMA Register ==
    ASSUME NEW ent, RegOK(ent), NEW r \in Refs, NEW t \in TaskIds
    PROVE  /\ RegOK(lagfx_resource_register(ent, r, t))
           /\ OwnerOf(lagfx_resource_register(ent, r, t)) = OwnerOf(ent)
           /\ \A i \in 1 .. Len(ent) : /\ i \in 1 .. Len(lagfx_resource_register(ent, r, t))
                                       /\ lagfx_resource_register(ent, r, t)[i] = ent[i]
<1> DEFINE e == [ref |-> r, task |-> t, handle |-> NULL]
           ent2 == lagfx_resource_register(ent, r, t)
<1>1. CASE ent2 = ent
  BY <1>1
<1>2. CASE ent2 # ent
  <2>1. ent2 = Append(ent, e) /\ lagfx_resource_lookup(ent, r, t) = {}
    BY <1>2 DEF lagfx_resource_register
  <2>2. e \in Entry /\ KeyOf(e) = <<r, t>> /\ e.handle = NULL /\ ent \in Seq(Entry)
    BY DEF Entry, KeyOf, RegOK
  <2> HIDE DEF e, ent2
  <2>3. /\ ent2 \in Seq(Entry) /\ Len(ent2) = Len(ent) + 1 /\ ent2[Len(ent) + 1] = e
        /\ Len(ent) \in Nat /\ \A i \in 1 .. Len(ent) : ent2[i] = ent[i]
    BY <2>1, <2>2
  <2>4. \A i \in 1 .. Len(ent) : KeyOf(ent[i]) # <<r, t>>
    <3>1. {i \in 1 .. Len(ent) : KeyOf(ent[i]) = <<r, t>>} = {}
      BY <2>1, Lookup, ZenonT(30)
    <3> QED  BY <3>1
  <2>5. RegOK(ent2)
    BY <2>2, <2>3, <2>4 DEF RegOK
  <2>6. OwnerOf(ent2) = OwnerOf(ent)
    <3>1. \A i \in 1 .. Len(ent2) : OwnerOf(ent)[KeyOf(ent2[i])] = ent2[i].handle
      <4> SUFFICES ASSUME NEW i \in 1 .. Len(ent2)
                   PROVE  OwnerOf(ent)[KeyOf(ent2[i])] = ent2[i].handle
        OBVIOUS
      <4>1. CASE i \in 1 .. Len(ent)
        BY <2>3, <4>1, OwnerFound
      <4>2. CASE i = Len(ent) + 1
        <5>1. KeyOf(e) \in Keys
          BY <2>2 DEF Keys
        <5> QED  BY <2>2, <2>3, <2>4, <4>2, <5>1, OwnerMissing
      <4> QED  BY <2>3, <4>1, <4>2
    <3>2. ASSUME NEW k \in Keys, \A i \in 1 .. Len(ent2) : KeyOf(ent2[i]) # k
          PROVE  OwnerOf(ent)[k] = NULL
      <4>1. \A i \in 1 .. Len(ent) : KeyOf(ent[i]) # k
        BY <2>3, <3>2
      <4> QED  BY <4>1, OwnerMissing
    <3> QED  BY <2>5, <3>1, <3>2, OwnerIs, OwnerShape
  <2> QED  BY <2>3, <2>5, <2>6 DEF ent2
<1> QED  BY <1>1, <1>2

\* Storing a handle in an entry.
Stored(ent, i, h) == [ent EXCEPT ![i].handle = h]

LEMMA SetHandle ==
    ASSUME NEW ent, RegOK(ent), NEW i \in 1 .. Len(ent), NEW h \in Backings \cup {NULL}
    PROVE  /\ RegOK(Stored(ent, i, h))
           /\ OwnerOf(Stored(ent, i, h)) = [OwnerOf(ent) EXCEPT ![KeyOf(ent[i])] = h]
<1> DEFINE ent2 == [ent EXCEPT ![i].handle = h]
           o == [OwnerOf(ent) EXCEPT ![KeyOf(ent[i])] = h]
<1>1. /\ ent \in Seq(Entry) /\ KeyOf(ent[i]) \in Keys
      /\ \A j \in 1 .. Len(ent) : ent[j] \in Entry
  BY EntryFields DEF RegOK
<1> DEFINE e == [ref |-> ent[i].ref, task |-> ent[i].task, handle |-> h]
<1>2. [ent[i] EXCEPT !.handle = h] = e
  <2> DEFINE x == ent[i]
  <2>1. x = [ref |-> x.ref, task |-> x.task, handle |-> x.handle]
    BY EntryFields
  <2> QED  BY <2>1
<1>3. e \in Entry /\ KeyOf(e) = KeyOf(ent[i]) /\ e.handle = h
  BY EntryFields DEF KeyOf, Entry
<1>4. ent2 = [j \in 1 .. Len(ent) |-> IF j = i THEN e ELSE ent[j]] /\ Len(ent) \in Nat
  <2> HIDE DEF e
  <2> QED  BY <1>1, <1>2
<1> HIDE DEF ent2, e
<1>5. /\ ent2 \in Seq(Entry) /\ Len(ent2) = Len(ent) /\ ent2[i] = e
      /\ \A j \in 1 .. Len(ent) : j # i => ent2[j] = ent[j]
  BY <1>1, <1>3, <1>4
<1>6. \A j \in 1 .. Len(ent) : KeyOf(ent2[j]) = KeyOf(ent[j])
  BY <1>3, <1>5
<1>7. RegOK(ent2)
  BY <1>5, <1>6 DEF RegOK
<1>8. o = [k \in Keys |-> o[k]] /\ o[KeyOf(ent[i])] = h
      /\ \A k \in Keys : k # KeyOf(ent[i]) => o[k] = OwnerOf(ent)[k]
  <2>1. OwnerOf(ent) = [k \in Keys |-> OwnerOf(ent)[k]]
    BY OwnerShape
  <2> QED  BY <1>1, <2>1
<1> HIDE DEF o
<1>9. ASSUME NEW j \in 1 .. Len(ent2) PROVE o[KeyOf(ent2[j])] = ent2[j].handle
  <2>1. j \in 1 .. Len(ent)
    BY <1>5
  <2>2. CASE j = i
    BY <1>3, <1>5, <1>8, <2>2
  <2>3. CASE j # i
    <3>1. KeyOf(ent[j]) \in Keys /\ KeyOf(ent[j]) # KeyOf(ent[i]) /\ ent2[j] = ent[j]
      BY <1>5, <2>1, <2>3, EntryFields DEF RegOK
    <3> QED  BY <1>8, <2>1, <3>1, OwnerFound
  <2> QED  BY <2>2, <2>3
<1>10. ASSUME NEW k \in Keys, \A j \in 1 .. Len(ent2) : KeyOf(ent2[j]) # k PROVE o[k] = NULL
  <2>1. \A j \in 1 .. Len(ent) : KeyOf(ent[j]) # k
    BY <1>5, <1>6, <1>10
  <2> QED  BY <1>8, <2>1, OwnerMissing
<1>11. OwnerOf(ent2) = o
  BY <1>7, <1>8, <1>9, <1>10, OwnerIs
<1> QED  BY <1>7, <1>11 DEF Stored, ent2, o

\* Unregistering an entry; the last one may move into its place.
LEMMA Unregister ==
    ASSUME NEW ent, RegOK(ent), NEW i \in 1 .. Len(ent)
    PROVE  /\ RegOK(lagfx_resource_unregister(ent, i))
           /\ OwnerOf(lagfx_resource_unregister(ent, i))
                = [OwnerOf(ent) EXCEPT ![KeyOf(ent[i])] = NULL]
<1> DEFINE n == Len(ent)
           ent2 == lagfx_resource_unregister(ent, i)
           o == [OwnerOf(ent) EXCEPT ![KeyOf(ent[i])] = NULL]
           from == [j \in 1 .. (n - 1) |-> IF j = i THEN n ELSE j]
<1>1. ent \in Seq(Entry) /\ n \in Nat \ {0} /\ n \in 1 .. n
  BY DEF RegOK
<1>2. ent2 \in Seq(Entry) /\ Len(ent2) = n - 1 /\ \A j \in 1 .. (n - 1) : ent2[j] = ent[from[j]]
  <2> DEFINE rest == SubSeq(ent, 1, n - 1)
  <2>1. \A j \in 1 .. (n - 1) : ent[j] \in Entry
    BY <1>1
  <2>2. /\ rest \in Seq(Entry) /\ Len(rest) = n - 1
        /\ \A j \in 1 .. (n - 1) : rest[j] = ent[j]
    <3> DEFINE m == n - 1
    <3>1. m \in Nat /\ m <= n /\ \A j \in 1 .. m : ent[j] \in Entry
      BY <1>1, <2>1
    <3> HIDE DEF m, n
    <3>2. /\ SubSeq(ent, 1, m) \in Seq(Entry) /\ Len(SubSeq(ent, 1, m)) = m
          /\ \A j \in 1 .. m : SubSeq(ent, 1, m)[j] = ent[j]
      BY <1>1, <3>1 DEF n
    <3> QED  BY <3>2 DEF m
  <2> HIDE DEF rest
  <2>3. CASE i = n
    BY <1>1, <2>2, <2>3 DEF lagfx_resource_unregister, rest
  <2>4. CASE i # n
    <3>1. ent2 = [rest EXCEPT ![i] = ent[n]] /\ ent[n] \in Entry /\ i \in 1 .. (n - 1)
      BY <1>1, <2>4 DEF lagfx_resource_unregister, rest
    <3> HIDE DEF ent2
    <3>2. ent2 \in Seq(Entry) /\ Len(ent2) = n - 1
      BY <1>1, <2>2, <3>1
    <3> QED  BY <1>1, <2>2, <3>1, <3>2
  <2> QED  BY <2>3, <2>4
<1> HIDE DEF ent2
<1>3. /\ \A j \in 1 .. (n - 1) : from[j] \in 1 .. n /\ from[j] # i
      /\ \A j, k \in 1 .. (n - 1) : from[j] = from[k] => j = k
      /\ \A j \in 1 .. n : j # i => \E k \in 1 .. (n - 1) : from[k] = j
  <2>1. \A j \in 1 .. (n - 1) : from[j] = IF j = i THEN n ELSE j
    OBVIOUS
  <2> HIDE DEF from
  <2>2. ASSUME NEW j \in 1 .. n, j # i PROVE \E k \in 1 .. (n - 1) : from[k] = j
    <3>1. CASE j = n
      <4>1. i \in 1 .. (n - 1) /\ from[i] = j
        BY <1>1, <2>1, <2>2, <3>1
      <4> QED  BY <4>1
    <3>2. CASE j # n
      <4>1. j \in 1 .. (n - 1) /\ from[j] = j
        BY <1>1, <2>1, <2>2, <3>2
      <4> QED  BY <4>1
    <3> QED  BY <3>1, <3>2
  <2>3. ASSUME NEW j \in 1 .. (n - 1) PROVE from[j] \in 1 .. n /\ from[j] # i
    <3>1. j \in Int /\ j <= n - 1
      BY <1>1
    <3> QED  BY <1>1, <2>1, <3>1
  <2>4. ASSUME NEW j \in 1 .. (n - 1), NEW k \in 1 .. (n - 1), from[j] = from[k] PROVE j = k
    <3>1. j \in Int /\ j <= n - 1 /\ k \in Int /\ k <= n - 1
      BY <1>1
    <3> QED  BY <1>1, <2>1, <2>4, <3>1
  <2> QED  BY <2>2, <2>3, <2>4
<1> HIDE DEF from
<1>4. RegOK(ent2)
  <2> SUFFICES ASSUME NEW j \in 1 .. (n - 1), NEW k \in 1 .. (n - 1),
                      KeyOf(ent2[j]) = KeyOf(ent2[k])
               PROVE  j = k
    BY <1>2 DEF RegOK
  <2>1. /\ from[j] \in 1 .. n /\ ent2[j] = ent[from[j]]
        /\ from[k] \in 1 .. n /\ ent2[k] = ent[from[k]]
    BY <1>2, <1>3
  <2>2. \A a, b \in 1 .. n : KeyOf(ent[a]) = KeyOf(ent[b]) => a = b
    BY DEF RegOK
  <2>3. from[j] = from[k]
    <3> HIDE DEF n
    <3> QED  BY <2>1, <2>2
  <2> QED  BY <1>3, <2>3
<1>5. KeyOf(ent[i]) \in Keys
  BY EntryFields
<1>6. o = [k \in Keys |-> o[k]] /\ o[KeyOf(ent[i])] = NULL
      /\ \A k \in Keys : k # KeyOf(ent[i]) => o[k] = OwnerOf(ent)[k]
  <2>1. OwnerOf(ent) = [k \in Keys |-> OwnerOf(ent)[k]]
    BY OwnerShape
  <2> QED  BY <1>5, <2>1
<1> HIDE DEF o
<1>7. ASSUME NEW j \in 1 .. Len(ent2) PROVE o[KeyOf(ent2[j])] = ent2[j].handle
  <2>1. from[j] \in 1 .. n /\ from[j] # i /\ ent2[j] = ent[from[j]]
    BY <1>2, <1>3
  <2>2. KeyOf(ent[from[j]]) \in Keys /\ KeyOf(ent[from[j]]) # KeyOf(ent[i])
    BY <2>1, EntryFields DEF RegOK
  <2> QED  BY <1>6, <2>1, <2>2, OwnerFound
<1>8. ASSUME NEW k \in Keys, \A j \in 1 .. Len(ent2) : KeyOf(ent2[j]) # k PROVE o[k] = NULL
  <2>1. CASE k = KeyOf(ent[i])
    BY <1>6, <2>1
  <2>2. CASE k # KeyOf(ent[i])
    <3>1. \A j \in 1 .. n : KeyOf(ent[j]) # k
      <4> SUFFICES ASSUME NEW j \in 1 .. n, KeyOf(ent[j]) = k PROVE FALSE
        OBVIOUS
      <4>1. j # i
        BY <2>2
      <4>2. PICK m \in 1 .. (n - 1) : from[m] = j
        BY <1>3, <4>1
      <4> QED  BY <1>2, <1>8, <4>2
    <3> QED  BY <1>6, <2>2, <3>1, OwnerMissing
  <2> QED  BY <2>1, <2>2
<1>9. OwnerOf(ent2) = o
  BY <1>4, <1>6, <1>7, <1>8, OwnerIs
<1> QED  BY <1>4, <1>9 DEF ent2, o

\* The places of a compaction: the number of kept indices up to one of them counts
\* through 1, 2, ...
LEMMA Places ==
    ASSUME NEW n \in Nat, NEW kept \in SUBSET (1 .. n)
    PROVE  /\ Cardinality(kept) \in Nat
           /\ \A i \in kept : Cardinality({j \in kept : j <= i}) \in 1 .. Cardinality(kept)
           /\ \A i, k \in kept :
                 Cardinality({j \in kept : j <= i}) = Cardinality({j \in kept : j <= k}) => i = k
           /\ \A p \in 1 .. Cardinality(kept) :
                 \E i \in kept : Cardinality({j \in kept : j <= i}) = p
<1> DEFINE upto(i) == {j \in kept : j <= i}
           f == [i \in kept |-> Cardinality(upto(i))]
           c == Cardinality(kept)
<1>1. IsFiniteSet(kept) /\ c \in Nat
  <2>1. IsFiniteSet(1 .. n)
    BY FS_Interval
  <2>2. IsFiniteSet(kept)
    BY <2>1, FS_Subset
  <2> QED  BY <2>2, FS_CardinalityType
<1>2. ASSUME NEW i \in kept
      PROVE  /\ IsFiniteSet(upto(i)) /\ Cardinality(upto(i)) \in Nat
             /\ Cardinality(upto(i)) <= c /\ Cardinality(upto(i)) # 0
  <2>1. upto(i) \in SUBSET kept /\ i \in upto(i)
    OBVIOUS
  <2> HIDE DEF upto
  <2>2. IsFiniteSet(upto(i)) /\ Cardinality(upto(i)) <= c
    BY <1>1, <2>1, FS_Subset
  <2>3. Cardinality(upto(i)) \in Nat
    BY <2>2, FS_CardinalityType
  <2>4. Cardinality(upto(i)) # 0
    BY <2>1, <2>2, FS_EmptySet
  <2> QED  BY <2>2, <2>3, <2>4
<1>3. ASSUME NEW i \in kept, NEW k \in kept, i < k
      PROVE  Cardinality(upto(i)) # Cardinality(upto(k))
  <2>1. upto(i) \in SUBSET upto(k) /\ k \in upto(k) /\ k \notin upto(i)
    <3>1. i \in Int /\ k \in Int /\ k <= k /\ ~(k <= i)
      BY <1>3
    <3>2. ASSUME NEW j \in kept, j <= i PROVE j <= k
      BY <1>3, <3>2
    <3> QED  BY <3>1, <3>2
  <2>2. IsFiniteSet(upto(k))
    BY <1>2
  <2> HIDE DEF upto
  <2>3. Cardinality(upto(k)) = Cardinality(upto(i)) => upto(k) = upto(i)
    BY <2>1, <2>2, FS_Subset
  <2> QED  BY <2>1, <2>3
<1>4. \A i, k \in kept : Cardinality(upto(i)) = Cardinality(upto(k)) => i = k
  <2> SUFFICES ASSUME NEW i \in kept, NEW k \in kept,
                      Cardinality(upto(i)) = Cardinality(upto(k))
               PROVE  i = k
    OBVIOUS
  <2>1. i \in Int /\ k \in Int
    OBVIOUS
  <2>2. ~(i < k) /\ ~(k < i)
    BY <1>3
  <2> QED  BY <2>1, <2>2
<1>5. \A i \in kept : Cardinality(upto(i)) \in 1 .. c
  <2> HIDE DEF upto, c
  <2> QED  BY <1>1, <1>2
<1> HIDE DEF upto, c
<1>6. f \in [kept -> 1 .. c] /\ \A i \in kept : f[i] = Cardinality(upto(i))
  BY <1>5
<1> HIDE DEF f
<1>7. f \in Injection(kept, 1 .. c)
  BY <1>4, <1>6 DEF Injection, IsInjective
<1>8. IsFiniteSet(1 .. c) /\ Cardinality(1 .. c) = c
  BY <1>1, FS_Interval
<1>9. f \in Surjection(kept, 1 .. c)
  BY <1>7, <1>8, FS_Injection DEF c
<1>10. \A p \in 1 .. c : \E i \in kept : f[i] = p
  BY <1>9 DEF Surjection
<1> QED  BY <1>1, <1>4, <1>5, <1>6, <1>10 DEF upto, c

\* Deleting a task takes the keys of the task out of the map.
LEMMA ClearTask ==
    ASSUME NEW ent, RegOK(ent), NEW t
    PROVE  /\ RegOK(lagfx_resource_clear_task(ent, t))
           /\ OwnerOf(lagfx_resource_clear_task(ent, t))
                = [k \in Keys |-> IF k[2] = t THEN NULL ELSE OwnerOf(ent)[k]]
<1> DEFINE n == Len(ent)
           kept == {i \in 1 .. n : ent[i].task # t}
           w(i) == Cardinality({j \in kept : j <= i})
           c == Cardinality(kept)
           from == [p \in 1 .. c |-> CHOOSE i \in kept : w(i) = p]
           ent2 == lagfx_resource_clear_task(ent, t)
           o == [k \in Keys |-> IF k[2] = t THEN NULL ELSE OwnerOf(ent)[k]]
<1>1. ent \in Seq(Entry) /\ n \in Nat /\ kept \in SUBSET (1 .. n)
  BY DEF RegOK
<1>2. ent2 = [p \in 1 .. c |-> ent[from[p]]]
  BY DEF lagfx_resource_clear_task
<1>3. \A i \in kept : i \in 1 .. n /\ ent[i].task # t
  OBVIOUS
<1>4. \A i \in 1 .. n : ent[i].task # t => i \in kept
  OBVIOUS
<1> HIDE DEF kept
<1>5. /\ c \in Nat /\ \A i \in kept : w(i) \in 1 .. c
      /\ \A i, k \in kept : w(i) = w(k) => i = k
      /\ \A p \in 1 .. c : \E i \in kept : w(i) = p
  BY <1>1, Places
<1> HIDE DEF w, c
<1>6. \A p \in 1 .. c : from[p] \in kept /\ w(from[p]) = p
  <2> SUFFICES ASSUME NEW p \in 1 .. c PROVE from[p] \in kept /\ w(from[p]) = p
    OBVIOUS
  <2>1. from[p] = CHOOSE i \in kept : w(i) = p
    OBVIOUS
  <2>2. \E i \in kept : w(i) = p
    BY <1>5
  <2> HIDE DEF from
  <2> QED  BY <2>1, <2>2
<1> HIDE DEF from, ent2
<1>7. /\ ent2 \in Seq(Entry) /\ Len(ent2) = c
      /\ \A p \in 1 .. c : ent2[p] = ent[from[p]]
  <2>1. \A p \in 1 .. c : ent[from[p]] \in Entry
    BY <1>3, <1>6, EntryFields
  <2> QED  BY <1>2, <1>5, <2>1
<1>8. RegOK(ent2)
  <2> SUFFICES ASSUME NEW p \in 1 .. c, NEW q \in 1 .. c, KeyOf(ent2[p]) = KeyOf(ent2[q])
               PROVE  p = q
    BY <1>7 DEF RegOK
  <2>1. from[p] = from[q]
    BY <1>3, <1>6, <1>7, ZenonT(30) DEF RegOK
  <2> QED  BY <1>6, <2>1
<1>9. ASSUME NEW p \in 1 .. Len(ent2) PROVE o[KeyOf(ent2[p])] = ent2[p].handle
  <2>1. from[p] \in 1 .. n /\ ent[from[p]].task # t /\ ent2[p] = ent[from[p]]
    BY <1>3, <1>6, <1>7
  <2>2. KeyOf(ent2[p]) \in Keys /\ KeyOf(ent2[p])[2] # t
    BY <2>1, EntryFields DEF KeyOf
  <2> QED  BY <2>1, <2>2, OwnerFound
<1>10. ASSUME NEW k \in Keys, \A p \in 1 .. Len(ent2) : KeyOf(ent2[p]) # k PROVE o[k] = NULL
  <2>1. CASE k[2] = t
    BY <2>1
  <2>2. CASE k[2] # t
    <3>1. \A j \in 1 .. n : KeyOf(ent[j]) # k
      <4> SUFFICES ASSUME NEW j \in 1 .. n, KeyOf(ent[j]) = k PROVE FALSE
        OBVIOUS
      <4>1. j \in kept
        BY <1>4, <2>2 DEF KeyOf
      <4>2. w(j) \in 1 .. c /\ from[w(j)] = j
        BY <1>5, <1>6, <4>1
      <4> QED  BY <1>7, <1>10, <4>2
    <3> QED  BY <2>2, <3>1, OwnerMissing
  <2> QED  BY <2>1, <2>2
<1> HIDE DEF o
<1>11. o = [k \in Keys |-> o[k]]
  BY DEF o
<1>12. OwnerOf(ent2) = o
  BY <1>8, <1>9, <1>10, <1>11, OwnerIs
<1> QED  BY <1>8, <1>12 DEF ent2, o

\* The entries of a task that hold a backing are as many as its keys that own it.
TaskHolding(ent, t, b) == {i \in 1 .. Len(ent) : ent[i].task = t /\ ent[i].handle = b}
KeysHolding(ent, b) == {k \in Keys : OwnerOf(ent)[k] = b}
TaskKeys(t) == {k \in Keys : k[2] = t}

LEMMA HoldersCounted ==
    ASSUME NEW ent, RegOK(ent), NEW t, NEW b \in Backings
    PROVE  Cardinality(TaskHolding(ent, t, b)) = Cardinality(KeysHolding(ent, b) \cap TaskKeys(t))
<1> DEFINE S == {i \in 1 .. Len(ent) : ent[i].task = t /\ ent[i].handle = b}
           T == {k \in Keys : OwnerOf(ent)[k] = b} \cap {k \in Keys : k[2] = t}
           f == [i \in S |-> KeyOf(ent[i])]
<1>1. Len(ent) \in Nat /\ S \in SUBSET (1 .. Len(ent))
  BY DEF RegOK
<1>2. IsFiniteSet(S)
  <2>1. IsFiniteSet(1 .. Len(ent))
    BY <1>1, FS_Interval
  <2> QED  BY <1>1, <2>1, FS_Subset
<1>3. \A i \in S : KeyOf(ent[i]) \in T
  BY EntryFields, OwnerFound DEF KeyOf
<1>4. \A i, j \in S : KeyOf(ent[i]) = KeyOf(ent[j]) => i = j
  BY DEF RegOK
<1>5. \A k \in T : \E i \in S : KeyOf(ent[i]) = k
  <2> SUFFICES ASSUME NEW k \in T PROVE \E i \in S : KeyOf(ent[i]) = k
    OBVIOUS
  <2>1. k \in Keys /\ OwnerOf(ent)[k] = b /\ b # NULL /\ k[2] = t
    BY SurfaceAssumption
  <2>2. PICK i \in 1 .. Len(ent) : KeyOf(ent[i]) = k
    BY <2>1, OwnerMissing
  <2>3. ent[i].handle = b /\ ent[i].task = t
    BY <2>1, <2>2, OwnerFound DEF KeyOf
  <2> QED  BY <2>2, <2>3
<1> HIDE DEF S, T
<1>6. f \in [S -> T] /\ \A i \in S : f[i] = KeyOf(ent[i])
  BY <1>3
<1> HIDE DEF f
<1>7. f \in Injection(S, T) /\ f \in Surjection(S, T)
  BY <1>4, <1>5, <1>6 DEF Injection, IsInjective, Surjection
<1>8. Cardinality(T) = Cardinality(S)
  BY <1>2, <1>7, FS_Surjection
<1> QED  BY <1>8 DEF S, T, TaskHolding, KeysHolding, TaskKeys

-----------------------------------------------------------------------------
(* The steps. *)

SurfInv ==
    /\ TaskInv
    /\ RegOK(entries)
    /\ refs = [b \in Backings |-> refs[b]]
    /\ lost = [b \in Backings |-> lost[b]]

\* What a step of the registry and the backings must be.
Shared == B!BackingsNext \/ UNCHANGED B!backingVars

LEMMA OwnerNow == owner = OwnerOf(entries) /\ owner' = OwnerOf(entries')
BY DEF owner, OwnerOf

\* The instance's cardinality is the module's.
LEMMA SameCardinality == ASSUME NEW S PROVE B!Cardinality(S) = Cardinality(S)
BY DEF B!Cardinality, B!IsFiniteSet, Cardinality, IsFiniteSet

LEMMA TasksKept == ASSUME TaskInv, UNCHANGED taskVars PROVE TaskInv'
BY DEF taskVars, TaskInv, TaskTypeOK, TaskIdsUnique, ShellTasksOwned

\* A step that leaves the registry's map and the counts alone.
LEMMA StutterStep ==
    ASSUME SurfInv, TaskInv', RegOK(entries'), OwnerOf(entries') = OwnerOf(entries),
           UNCHANGED <<refs, lost>>
    PROVE  SurfInv' /\ Shared
<1>1. UNCHANGED B!backingVars
  BY OwnerNow DEF B!backingVars
<1>2. SurfInv'
  BY DEF SurfInv
<1> QED  BY <1>1, <1>2 DEF Shared

LEMMA CreateStep ==
    ASSUME SurfInv, NEW r \in Refs, lagfx_iosurface_create_backing2(r)
    PROVE  SurfInv' /\ Shared
<1> DEFINE ent == lagfx_resource_register(entries, r, 0)
           hit == lagfx_resource_lookup(ent, r, 0)
<1>1. TaskInv' /\ lost' = lost
  BY TasksKept DEF SurfInv, lagfx_iosurface_create_backing2
<1>2. 0 \in TaskIds /\ RegOK(entries)
  BY TaskAssumption DEF SurfInv
<1>3. RegOK(ent) /\ OwnerOf(ent) = OwnerOf(entries)
  BY <1>2, Register
<1>4. \/ entries' = ent /\ UNCHANGED refs
      \/ \E b \in Fresh, i \in hit :
            /\ entries' = [ent EXCEPT ![i].handle = b]
            /\ refs' = [lagfx_vk_iosurface_release(refs, ent[i].handle) EXCEPT ![b] = 1]
  BY DEF lagfx_iosurface_create_backing2
<1> HIDE DEF ent
<1>5. CASE entries' = ent /\ UNCHANGED refs
  BY <1>1, <1>3, <1>5, StutterStep
<1>6. CASE \E b \in Fresh, i \in hit :
             /\ entries' = [ent EXCEPT ![i].handle = b]
             /\ refs' = [lagfx_vk_iosurface_release(refs, ent[i].handle) EXCEPT ![b] = 1]
  <2>1. PICK b \in Fresh, i \in hit :
             /\ entries' = [ent EXCEPT ![i].handle = b]
             /\ refs' = [lagfx_vk_iosurface_release(refs, ent[i].handle) EXCEPT ![b] = 1]
    BY <1>6
  <2> DEFINE k == <<r, 0>>
  <2>2. i \in 1 .. Len(ent) /\ KeyOf(ent[i]) = k /\ k \in Keys
    BY <1>2, <1>3, Lookup DEF Keys
  <2>3. b \in Backings /\ refs[b] = 0
    BY DEF Fresh
  <2> HIDE DEF k
  <2>4. RegOK(entries') /\ OwnerOf(entries') = [OwnerOf(ent) EXCEPT ![k] = b]
    <3>1. b \in Backings \cup {NULL} /\ entries' = Stored(ent, i, b)
      BY <2>1, <2>3 DEF Stored
    <3> QED  BY <1>3, <2>2, <3>1, SetHandle
  <2>5. owner' = [owner EXCEPT ![k] = b]
    BY <1>3, <2>4, OwnerNow
  <2>6. owner[k] = ent[i].handle
    BY <1>3, <2>2, OwnerFound, OwnerNow
  <2>7. refs' = [c \in Backings |-> IF c = b THEN 1 ELSE IF c = owner[k] THEN refs[c] - 1
                                                        ELSE refs[c]]
    BY <2>1, <2>3, <2>6 DEF lagfx_vk_iosurface_release
  <2>8. B!Replace(k, b)
    BY <1>1, <2>3, <2>5, <2>7 DEF B!Replace
  <2>9. SurfInv'
    BY <1>1, <2>4, <2>7 DEF SurfInv
  <2> QED  BY <2>2, <2>3, <2>8, <2>9 DEF Shared, B!BackingsNext
<1> QED  BY <1>4, <1>5, <1>6

LEMMA LookupStep ==
    ASSUME SurfInv, NEW r \in Refs, lagfx_iosurface_lookup(r)
    PROVE  SurfInv' /\ Shared
<1>1. /\ TaskInv' /\ UNCHANGED <<refs, lost>>
      /\ entries' = lagfx_resource_register(entries, r, 0)
  BY TasksKept DEF SurfInv, lagfx_iosurface_lookup
<1>2. RegOK(entries) /\ 0 \in TaskIds
  BY TaskAssumption DEF SurfInv
<1>3. RegOK(entries') /\ OwnerOf(entries') = OwnerOf(entries)
  BY <1>1, <1>2, Register
<1> QED  BY <1>1, <1>3, StutterStep

LEMMA ImportStep ==
    ASSUME SurfInv, NEW lt \in TaskIds, NEW rt \in TaskIds, NEW rs \in Refs, NEW ls \in Refs,
           lagfx_iosurface_import_mach_port(lt, rt, rs, ls)
    PROVE  SurfInv' /\ Shared
<1> DEFINE ent == lagfx_resource_register(entries, ls, lt)
           k == <<ls, lt>>
           k0 == <<rs, rt>>
<1>1. PICK i \in lagfx_resource_lookup(entries, rs, rt) :
        /\ \E j \in lagfx_resource_lookup(ent, ls, lt) :
              /\ entries' = [ent EXCEPT ![j].handle = ent[i].handle]
              /\ refs' = lagfx_vk_iosurface_retain(refs, ent[i].handle)
              /\ lost' = Lose(ent[j].handle)
        /\ UNCHANGED taskVars
  BY DEF lagfx_iosurface_import_mach_port
<1> DEFINE h == ent[i].handle
<1>2. PICK j \in lagfx_resource_lookup(ent, ls, lt) :
        /\ entries' = Stored(ent, j, h)
        /\ refs' = lagfx_vk_iosurface_retain(refs, h)
        /\ lost' = Lose(ent[j].handle)
  BY <1>1 DEF Stored
<1>3. TaskInv' /\ RegOK(entries)
  BY <1>1, TasksKept DEF SurfInv
<1>4. /\ RegOK(ent) /\ OwnerOf(ent) = OwnerOf(entries)
      /\ \A m \in 1 .. Len(entries) : m \in 1 .. Len(ent) /\ ent[m] = entries[m]
  BY <1>3, Register
<1> HIDE DEF ent
<1>5. i \in 1 .. Len(ent) /\ KeyOf(ent[i]) = k0 /\ k0 \in Keys
  BY <1>3, <1>4, Lookup DEF Keys
<1>6. j \in 1 .. Len(ent) /\ KeyOf(ent[j]) = k /\ k \in Keys
  BY <1>4, Lookup DEF Keys
<1> HIDE DEF k, k0
<1>7. h \in Backings \cup {NULL} /\ owner[k0] = h /\ owner[k] = ent[j].handle
  BY <1>4, <1>5, <1>6, EntryFields, OwnerFound, OwnerNow, ZenonT(30)
<1> HIDE DEF h
<1>8. RegOK(entries') /\ OwnerOf(entries') = [OwnerOf(ent) EXCEPT ![k] = h]
  BY <1>2, <1>4, <1>6, <1>7, SetHandle
<1>9. owner' = [owner EXCEPT ![k] = h]
  BY <1>4, <1>8, OwnerNow
<1>10. /\ refs' = [c \in Backings |-> IF c = h THEN refs[c] + 1 ELSE refs[c]]
       /\ lost' = [c \in Backings |-> IF c = owner[k] THEN lost[c] + 1 ELSE lost[c]]
  BY <1>2, <1>7 DEF lagfx_vk_iosurface_retain, Lose
<1>11. k0 \in B!Holders(h)
  BY <1>5, <1>7 DEF B!Holders
<1>12. B!Alias(k, h)
  BY <1>9, <1>10, <1>11 DEF B!Alias
<1>13. SurfInv'
  BY <1>3, <1>8, <1>10 DEF SurfInv
<1> QED  BY <1>6, <1>7, <1>12, <1>13 DEF Shared, B!BackingsNext

LEMMA ReleaseStep ==
    ASSUME SurfInv, NEW r \in Refs, NEW t \in TaskIds, release_and_unregister(r, t)
    PROVE  SurfInv' /\ Shared
<1> DEFINE k == <<r, t>>
<1>1. PICK i \in lagfx_resource_lookup(entries, r, t) :
        /\ refs' = lagfx_vk_iosurface_release(refs, entries[i].handle)
        /\ entries' = lagfx_resource_unregister(entries, i)
        /\ UNCHANGED <<lost, taskVars>>
  BY DEF release_and_unregister
<1>2. TaskInv' /\ RegOK(entries)
  BY <1>1, TasksKept DEF SurfInv
<1>3. i \in 1 .. Len(entries) /\ KeyOf(entries[i]) = k /\ k \in Keys
  BY <1>2, Lookup DEF Keys
<1> HIDE DEF k
<1>4. owner[k] = entries[i].handle
  BY <1>2, <1>3, OwnerFound, OwnerNow
<1>5. RegOK(entries') /\ OwnerOf(entries') = [OwnerOf(entries) EXCEPT ![k] = NULL]
  BY <1>1, <1>2, <1>3, Unregister
<1>6. owner' = [owner EXCEPT ![k] = NULL]
  BY <1>5, OwnerNow
<1>7. refs' = [c \in Backings |-> IF c = owner[k] THEN refs[c] - 1 ELSE refs[c]]
  BY <1>1, <1>4 DEF lagfx_vk_iosurface_release
<1>8. B!Release(k)
  BY <1>1, <1>6, <1>7 DEF B!Release
<1>9. SurfInv'
  BY <1>1, <1>2, <1>5, <1>7 DEF SurfInv
<1> QED  BY <1>3, <1>8, <1>9 DEF Shared, B!BackingsNext

LEMMA DeleteStep ==
    ASSUME SurfInv, NEW id \in TaskIds, lagfx_task_delete_task(id)
    PROVE  SurfInv' /\ Shared
<1> DEFINE gone(b) == TaskHolding(entries, id, b)
           K == TaskKeys(id)
<1>1. PICK s \in find_task(id) :
        /\ delete_task_slot(s)
        /\ entries' = lagfx_resource_clear_task(entries, id)
        /\ lost' = [b \in Backings |-> lost[b] + Cardinality(gone(b))]
        /\ UNCHANGED refs
  BY DEF lagfx_task_delete_task, TaskHolding
<1>2. RegOK(entries) /\ TaskInv
  BY DEF SurfInv
<1>3. TaskInv'
  <2>1. s \in TaskSlot
    BY DEF find_task, FirstOf
  <2> QED  BY <1>1, <1>2, <2>1, DeleteTaskStep
<1>4. /\ RegOK(entries')
      /\ OwnerOf(entries') = [k \in Keys |-> IF k[2] = id THEN NULL ELSE OwnerOf(entries)[k]]
  BY <1>1, <1>2, ClearTask
<1>5. owner' = [k \in Keys |-> IF k \in K THEN NULL ELSE owner[k]]
  BY <1>4, OwnerNow DEF TaskKeys
<1>6. ASSUME NEW b \in Backings PROVE Cardinality(gone(b)) = Cardinality(B!Holders(b) \cap K)
  <2>1. B!Holders(b) = KeysHolding(entries, b)
    BY OwnerNow DEF B!Holders, KeysHolding
  <2> QED  BY <1>2, <2>1, HoldersCounted
<1> HIDE DEF gone, K
<1>7. lost' = [c \in Backings |-> lost[c] + Cardinality(B!Holders(c) \cap K)]
  BY <1>1, <1>6
<1>8. K \in SUBSET Keys
  BY DEF K, TaskKeys
<1>9. B!Forget(K)
  BY <1>1, <1>5, <1>7, SameCardinality DEF B!Forget
<1>10. SurfInv'
  BY <1>1, <1>3, <1>4, <1>7 DEF SurfInv
<1> QED  BY <1>8, <1>9, <1>10 DEF Shared, B!BackingsNext

LEMMA DefineStep ==
    ASSUME SurfInv, NEW id \in TaskIds, NEW length, lagfx_task_define_task2(id, length)
    PROVE  SurfInv' /\ Shared
<1>1. define_task2(id, length) /\ UNCHANGED <<entries, refs, lost>>
  BY DEF lagfx_task_define_task2
<1>2. TaskInv'
  BY <1>1, DefineTask2Step DEF SurfInv
<1> QED  BY <1>1, <1>2, StutterStep DEF SurfInv

LEMMA HostStep ==
    ASSUME SurfInv, NEW slot_index, slot_index \div 2 \in TaskIds,
           lagfx_define_host_task(slot_index)
    PROVE  SurfInv' /\ Shared
<1>1. define_host_task(slot_index) /\ UNCHANGED <<entries, refs, lost>>
  BY DEF lagfx_define_host_task
<1>2. TaskInv'
  BY <1>1, DefineHostTaskStep DEF SurfInv
<1> QED  BY <1>1, <1>2, StutterStep DEF SurfInv

\* A draw stores a new surface in the first entry with the ref, whichever task's.
LEMMA AttachStep ==
    ASSUME SurfInv, NEW r \in Refs, NEW t \in TaskIds, NEW b \in Fresh, NEW always \in BOOLEAN,
           attach(r, t, b, always), UNCHANGED taskVars
    PROVE  SurfInv' /\ Shared
<1> DEFINE ent == IF lagfx_resource_lookup_texture(entries, r) # {} /\ ~always THEN entries
                  ELSE lagfx_resource_register(entries, r, t)
<1>1. PICK i \in lagfx_resource_lookup_texture(ent, r) :
        /\ entries' = Stored(ent, i, b)
        /\ refs' = [refs EXCEPT ![b] = 1]
        /\ lost' = Lose(ent[i].handle)
  BY DEF attach, Stored
<1>2. TaskInv' /\ RegOK(entries)
  BY TasksKept DEF SurfInv
<1>3. RegOK(ent) /\ OwnerOf(ent) = OwnerOf(entries)
  BY <1>2, Register
<1> HIDE DEF ent
<1>4. i \in 1 .. Len(ent)
  BY DEF lagfx_resource_lookup_texture, FirstOf
<1> DEFINE k == KeyOf(ent[i])
<1>5. k \in Keys /\ owner[k] = ent[i].handle
  BY <1>3, <1>4, EntryFields, OwnerFound, OwnerNow
<1>6. b \in Backings /\ refs[b] = 0
  BY DEF Fresh
<1>7. RegOK(entries') /\ OwnerOf(entries') = [OwnerOf(ent) EXCEPT ![k] = b]
  <2>1. b \in Backings \cup {NULL}
    BY <1>6
  <2> QED  BY <1>1, <1>3, <1>4, <2>1, SetHandle
<1> HIDE DEF k
<1>8. owner' = [owner EXCEPT ![k] = b]
  BY <1>3, <1>7, OwnerNow
<1>9. /\ lost' = [c \in Backings |-> IF c = owner[k] THEN lost[c] + 1 ELSE lost[c]]
      /\ refs' = [refs EXCEPT ![b] = 1]
  BY <1>1, <1>5 DEF Lose
<1>10. B!Overwrite(k, b)
  BY <1>6, <1>8, <1>9 DEF B!Overwrite
<1>11. SurfInv'
  BY <1>2, <1>7, <1>9 DEF SurfInv
<1> QED  BY <1>5, <1>6, <1>10, <1>11 DEF Shared, B!BackingsNext

LEMMA DrawTargetStep ==
    ASSUME SurfInv, NEW t \in TaskIds, NEW tref \in Refs \cup {0}, DrawTarget(t, tref)
    PROVE  SurfInv' /\ Shared /\ draw'.task = t
<1>1. /\ UNCHANGED taskVars
      /\ \/ UNCHANGED <<entries, refs, lost>>
         \/ \E b \in Fresh, always \in BOOLEAN : tref # 0 /\ attach(tref, t, b, always)
  BY DEF DrawTarget
<1>2. draw'.task = t
  BY DEF DrawTarget
<1>3. TaskInv'
  BY <1>1, TasksKept DEF SurfInv
<1>4. CASE UNCHANGED <<entries, refs, lost>>
  BY <1>2, <1>3, <1>4, StutterStep DEF SurfInv
<1>5. CASE \E b \in Fresh, always \in BOOLEAN : tref # 0 /\ attach(tref, t, b, always)
  BY <1>1, <1>2, <1>5, AttachStep
<1> QED  BY <1>1, <1>4, <1>5

LEMMA DrawEmitStep ==
    ASSUME SurfInv, draw.task \in TaskIds, NEW r \in Refs \cup {0}, DrawEmit(r)
    PROVE  SurfInv' /\ Shared /\ draw'.task \in TaskIds
<1>1. /\ UNCHANGED taskVars
      /\ \/ UNCHANGED <<entries, refs, lost>>
         \/ \E b \in Fresh : r # 0 /\ attach(r, draw.task, b, FALSE)
  BY DEF DrawEmit
<1>2. draw'.task \in TaskIds
  BY TaskAssumption DEF DrawEmit, Idle
<1>3. TaskInv'
  BY <1>1, TasksKept DEF SurfInv
<1>4. CASE UNCHANGED <<entries, refs, lost>>
  BY <1>2, <1>3, <1>4, StutterStep DEF SurfInv
<1>5. CASE \E b \in Fresh : r # 0 /\ attach(r, draw.task, b, FALSE)
  BY <1>1, <1>2, <1>5, AttachStep
<1> QED  BY <1>1, <1>4, <1>5

-----------------------------------------------------------------------------

SurfacesInv == SurfInv /\ draw.task \in TaskIds

LEMMA SurfacesStep ==
    ASSUME SurfacesInv, [SurfacesNext]_surfaceVars
    PROVE  SurfacesInv' /\ Shared
<1> USE DEF SurfacesInv
<1>1. ASSUME NEW r \in Refs, lagfx_iosurface_create_backing2(r) PROVE SurfacesInv' /\ Shared
  <2>1. draw' = draw
    BY <1>1 DEF lagfx_iosurface_create_backing2
  <2> QED  BY <1>1, <2>1, CreateStep
<1>2. ASSUME NEW r \in Refs, lagfx_iosurface_lookup(r) PROVE SurfacesInv' /\ Shared
  <2>1. draw' = draw
    BY <1>2 DEF lagfx_iosurface_lookup
  <2> QED  BY <1>2, <2>1, LookupStep
<1>3. ASSUME NEW r \in Refs, NEW ls \in Refs, NEW lt \in TaskIds, NEW rt \in TaskIds,
             lagfx_iosurface_import_mach_port(lt, rt, r, ls)
      PROVE  SurfacesInv' /\ Shared
  <2>1. draw' = draw
    BY <1>3 DEF lagfx_iosurface_import_mach_port
  <2> QED  BY <1>3, <2>1, ImportStep
<1>4. ASSUME NEW r \in Refs, NEW t \in TaskIds, release_and_unregister(r, t)
      PROVE  SurfacesInv' /\ Shared
  <2>1. draw' = draw
    BY <1>4 DEF release_and_unregister
  <2> QED  BY <1>4, <2>1, ReleaseStep
<1>5. ASSUME NEW t \in TaskIds, lagfx_task_delete_task(t) PROVE SurfacesInv' /\ Shared
  <2>1. draw' = draw
    BY <1>5 DEF lagfx_task_delete_task
  <2> QED  BY <1>5, <2>1, DeleteStep
<1>6. ASSUME NEW t \in TaskIds, NEW n \in 0 .. 1, lagfx_task_define_task2(t, n)
      PROVE  SurfacesInv' /\ Shared
  <2>1. draw' = draw
    BY <1>6 DEF lagfx_task_define_task2
  <2> QED  BY <1>6, <2>1, DefineStep
<1>7. ASSUME NEW t \in TaskIds, NEW low \in 0 .. 1, lagfx_define_host_task(2 * t + low)
      PROVE  SurfacesInv' /\ Shared
  <2>1. draw' = draw
    BY <1>7 DEF lagfx_define_host_task
  <2>2. (2 * t + low) \div 2 = t
    BY TaskAssumption
  <2> QED  BY <1>7, <2>1, <2>2, HostStep
<1>8. ASSUME NEW t \in TaskIds, NEW tref \in Refs \cup {0}, DrawTarget(t, tref)
      PROVE  SurfacesInv' /\ Shared
  BY <1>8, DrawTargetStep
<1>9. ASSUME NEW sref \in Refs \cup {0}, DrawEmit(sref) PROVE SurfacesInv' /\ Shared
  BY <1>9, DrawEmitStep
<1>10. ASSUME UNCHANGED <<entries, refs, lost, taskVars, draw>> PROVE SurfacesInv' /\ Shared
  <2>1. TaskInv'
    BY <1>10, TasksKept DEF SurfInv
  <2> QED  BY <1>10, <2>1, StutterStep DEF SurfInv
<1>11. ASSUME NEW r \in Refs, lagfx_display_present_surface_by_id(r)
       PROVE  SurfacesInv' /\ Shared
  BY <1>10, <1>11 DEF lagfx_display_present_surface_by_id
<1>12. ASSUME lagfx_display_vchan_display_submit PROVE SurfacesInv' /\ Shared
  BY <1>10, <1>12 DEF lagfx_display_vchan_display_submit
<1>13. ASSUME UNCHANGED surfaceVars PROVE SurfacesInv' /\ Shared
  BY <1>10, <1>13 DEF surfaceVars, taskVars
<1> QED
  BY <1>1, <1>2, <1>3, <1>4, <1>5, <1>6, <1>7, <1>8, <1>9, <1>11, <1>12, <1>13
  DEF SurfacesNext, lagfx_iosurface_delete_backing2, lagfx_iosurface_unmap

LEMMA SurfacesStart == SurfacesInit => SurfacesInv /\ B!BackingsInit
<1> SUFFICES ASSUME SurfacesInit PROVE SurfacesInv /\ B!BackingsInit
  OBVIOUS
<1>1. TaskInv
  BY TaskAssumption DEF SurfacesInit, TaskInit, TaskInv, TaskTypeOK, TaskIdsUnique,
                        ShellTasksOwned, FreeSlot
<1>2. /\ entries = <<>> /\ refs = [b \in Backings |-> 0] /\ lost = [b \in Backings |-> 0]
      /\ draw.task \in TaskIds
  BY TaskAssumption DEF SurfacesInit, Idle
<1>3. RegOK(entries)
  BY <1>2 DEF RegOK
<1>4. owner = [k \in Keys |-> NULL]
  <2>1. \A k \in Keys : OwnerOf(entries)[k] = NULL
    BY <1>2, <1>3, OwnerMissing
  <2> QED  BY <2>1, OwnerNow, OwnerShape
<1> QED  BY <1>1, <1>2, <1>3, <1>4 DEF SurfacesInv, SurfInv, B!BackingsInit

\* The task ids stay unique when the handlers run with all their effects, draws and
\* surface commands interleaved with definitions and deletions of tasks.
THEOREM TaskIdsUniqueAlways == SurfacesSpec => []TaskIdsUnique
<1>1. SurfacesInv /\ [SurfacesNext]_surfaceVars => SurfacesInv'
  BY SurfacesStep
<1>2. SurfacesInit => SurfacesInv
  BY SurfacesStart
<1>3. SurfacesInv => TaskIdsUnique
  BY DEF SurfacesInv, SurfInv, TaskInv
<1> QED  BY <1>1, <1>2, <1>3, PTL DEF SurfacesSpec

\* The registry with its in-place edits (resource_registry.c), the commands 0x26..0x2a,
\* the draw path and the deletion of tasks implement SharedBackings: whatever entries
\* move, are found first or are dropped, each step is one operation on one key, or one
\* task's keys, of the map.
THEOREM SurfacesImplementSharing == SurfacesSpec => ImplementsSharing
<1>1. SurfacesInv /\ [SurfacesNext]_surfaceVars
        => SurfacesInv' /\ [B!BackingsNext]_(B!backingVars)
  BY SurfacesStep DEF Shared
<1>2. SurfacesInit => SurfacesInv /\ B!BackingsInit
  BY SurfacesStart
<1> QED  BY <1>1, <1>2, PTL DEF SurfacesSpec, ImplementsSharing, B!BackingsSpec

-----------------------------------------------------------------------------
(* Counting: what SharedBackings promises, and therefore the registry. *)

Counted == \A b \in Backings : refs[b] = Cardinality(B!Holders(b)) + lost[b]

BackingsInv == B!BackingsTypeOK /\ Counted

\* The keys that own c when o gives the owners.
OwnersOf(o, c) == {k \in Keys : o[k] = c}

\* How the number of owners of c, before cn and after pn, changes when k's
\* backing becomes nb.
Moved(o, k, nb, c, cn, pn) ==
    /\ cn \in Nat /\ pn \in Nat
    /\ nb = c /\ o[k] = c => pn = cn
    /\ nb = c /\ o[k] # c => pn = cn + 1
    /\ nb # c /\ o[k] = c => pn = cn - 1
    /\ nb # c /\ o[k] # c => pn = cn

LEMMA OwnersAfterMove ==
    ASSUME IsFiniteSet(Keys), NEW o, NEW p, NEW k \in Keys, NEW nb, NEW c,
           o \in [Keys -> Backings \cup {NULL}],
           p = [o EXCEPT ![k] = nb]
    PROVE  Moved(o, k, nb, c, Cardinality(OwnersOf(o, c)), Cardinality(OwnersOf(p, c)))
<1>1. IsFiniteSet(OwnersOf(o, c)) /\ IsFiniteSet(OwnersOf(p, c))
  BY FS_Subset DEF OwnersOf
<1>2. /\ Cardinality(OwnersOf(o, c)) \in Nat
      /\ Cardinality(OwnersOf(p, c)) \in Nat
  BY <1>1, FS_CardinalityType
<1>3. k \in OwnersOf(o, c) <=> o[k] = c
  BY DEF OwnersOf
<1>4. nb = c => OwnersOf(p, c) = OwnersOf(o, c) \cup {k}
  BY DEF OwnersOf
<1>5. nb # c => OwnersOf(p, c) = OwnersOf(o, c) \ {k}
  BY DEF OwnersOf
<1>6. /\ k \in OwnersOf(o, c) =>
           Cardinality(OwnersOf(o, c) \cup {k}) = Cardinality(OwnersOf(o, c))
      /\ k \notin OwnersOf(o, c) =>
           Cardinality(OwnersOf(o, c) \cup {k}) = Cardinality(OwnersOf(o, c)) + 1
  BY <1>1, FS_AddElement
<1>7. /\ k \in OwnersOf(o, c) =>
           Cardinality(OwnersOf(o, c) \ {k}) = Cardinality(OwnersOf(o, c)) - 1
      /\ k \notin OwnersOf(o, c) =>
           Cardinality(OwnersOf(o, c) \ {k}) = Cardinality(OwnersOf(o, c))
  BY <1>1, FS_RemoveElement
<1>8. CASE nb = c
  BY <1>2, <1>3, <1>4, <1>6, <1>8 DEF Moved
<1>9. CASE nb # c
  BY <1>2, <1>3, <1>5, <1>7, <1>9 DEF Moved
<1> QED  BY <1>8, <1>9

\* A backing without references has no owners and no lost references; a
\* backing with an owner has a positive count.
LEMMA CountFacts ==
    ASSUME IsFiniteSet(Keys), BackingsInv, NEW c \in Backings
    PROVE  /\ refs[c] \in Nat /\ lost[c] \in Nat
           /\ Cardinality(B!Holders(c)) \in Nat
           /\ refs[c] = Cardinality(B!Holders(c)) + lost[c]
           /\ refs[c] = 0 => B!Holders(c) = {} /\ lost[c] = 0
           /\ B!Holders(c) # {} => refs[c] > 0 /\ Cardinality(B!Holders(c)) > 0
<1>1. IsFiniteSet(B!Holders(c))
  BY FS_Subset DEF B!Holders
<1>2. Cardinality(B!Holders(c)) \in Nat
  BY <1>1, FS_CardinalityType
<1>3. Cardinality(B!Holders(c)) = 0 <=> B!Holders(c) = {}
  BY <1>1, FS_EmptySet
<1> QED  BY <1>2, <1>3 DEF BackingsInv, B!BackingsTypeOK, Counted

LEMMA CountReplace ==
    ASSUME IsFiniteSet(Keys), BackingsInv,
           NEW k \in Keys, NEW b \in Backings, B!Replace(k, b)
    PROVE  BackingsInv'
<1>1. owner[k] # b
  BY CountFacts DEF B!Replace, B!Holders
<1>2. ASSUME NEW c \in Backings
      PROVE  refs'[c] \in Nat /\ refs'[c] = Cardinality(B!Holders(c)') + lost'[c]
  <2>1. refs'[c] = IF c = b THEN 1 ELSE IF c = owner[k] THEN refs[c] - 1 ELSE refs[c]
    BY DEF B!Replace
  <2>2. lost'[c] = lost[c] /\ owner' = [owner EXCEPT ![k] = b]
    BY DEF B!Replace
  <2>3. c = b => refs[c] = 0
    BY DEF B!Replace
  <2>4. c = owner[k] => B!Holders(c) # {}
    BY DEF B!Holders
  <2>8. Moved(owner, k, b, c, Cardinality(B!Holders(c)), Cardinality(B!Holders(c)'))
    <3>1. B!Holders(c) = OwnersOf(owner, c) /\ B!Holders(c)' = OwnersOf(owner', c)
      BY DEF B!Holders, OwnersOf
    <3>2. owner \in [Keys -> Backings \cup {NULL}]
      BY DEF BackingsInv, B!BackingsTypeOK
    <3>3. Moved(owner, k, b, c, Cardinality(OwnersOf(owner, c)),
                Cardinality(OwnersOf(owner', c)))
      BY <2>2, <3>2, OwnersAfterMove, Zenon
    <3> QED  BY <3>1, <3>3
  <2>9. /\ refs[c] \in Nat /\ lost[c] \in Nat /\ Cardinality(B!Holders(c)) \in Nat
        /\ refs[c] = Cardinality(B!Holders(c)) + lost[c]
        /\ refs[c] = 0 => B!Holders(c) = {} /\ lost[c] = 0
        /\ B!Holders(c) # {} => refs[c] > 0 /\ Cardinality(B!Holders(c)) > 0
    BY CountFacts
  <2> QED  BY <1>1, <2>1, <2>2, <2>3, <2>4, <2>8, <2>9 DEF Moved
<1>3. B!BackingsTypeOK'
  BY <1>2 DEF B!Replace, BackingsInv, B!BackingsTypeOK
<1> QED  BY <1>2, <1>3 DEF BackingsInv, Counted

LEMMA CountOverwrite ==
    ASSUME IsFiniteSet(Keys), BackingsInv,
           NEW k \in Keys, NEW b \in Backings, B!Overwrite(k, b)
    PROVE  BackingsInv'
<1>1. owner[k] # b
  BY CountFacts DEF B!Overwrite, B!Holders
<1>2. ASSUME NEW c \in Backings
      PROVE  /\ refs'[c] \in Nat /\ lost'[c] \in Nat
             /\ refs'[c] = Cardinality(B!Holders(c)') + lost'[c]
  <2>1. refs'[c] = IF c = b THEN 1 ELSE refs[c]
    BY DEF B!Overwrite, BackingsInv, B!BackingsTypeOK
  <2>2. /\ lost'[c] = IF c = owner[k] THEN lost[c] + 1 ELSE lost[c]
        /\ owner' = [owner EXCEPT ![k] = b]
    BY DEF B!Overwrite
  <2>3. c = b => refs[c] = 0
    BY DEF B!Overwrite
  <2>8. Moved(owner, k, b, c, Cardinality(B!Holders(c)), Cardinality(B!Holders(c)'))
    <3>1. B!Holders(c) = OwnersOf(owner, c) /\ B!Holders(c)' = OwnersOf(owner', c)
      BY DEF B!Holders, OwnersOf
    <3>2. owner \in [Keys -> Backings \cup {NULL}]
      BY DEF BackingsInv, B!BackingsTypeOK
    <3>3. Moved(owner, k, b, c, Cardinality(OwnersOf(owner, c)),
                Cardinality(OwnersOf(owner', c)))
      BY <2>2, <3>2, OwnersAfterMove, Zenon
    <3> QED  BY <3>1, <3>3
  <2>9. /\ refs[c] \in Nat /\ lost[c] \in Nat /\ Cardinality(B!Holders(c)) \in Nat
        /\ refs[c] = Cardinality(B!Holders(c)) + lost[c]
        /\ refs[c] = 0 => B!Holders(c) = {} /\ lost[c] = 0
        /\ B!Holders(c) # {} => refs[c] > 0 /\ Cardinality(B!Holders(c)) > 0
    BY CountFacts
  <2>10. CASE c = b
    BY <1>1, <2>1, <2>2, <2>3, <2>8, <2>9, <2>10 DEF Moved
  <2>11. CASE c # b
    BY <2>1, <2>2, <2>8, <2>9, <2>11 DEF Moved
  <2> QED  BY <2>10, <2>11
<1>3. B!BackingsTypeOK'
  BY <1>2 DEF B!Overwrite, BackingsInv, B!BackingsTypeOK
<1> QED  BY <1>2, <1>3 DEF BackingsInv, Counted

LEMMA CountAlias ==
    ASSUME IsFiniteSet(Keys), BackingsInv,
           NEW k \in Keys, NEW b \in Backings \cup {NULL}, B!Alias(k, b)
    PROVE  BackingsInv'
<1>1. ASSUME NEW c \in Backings
      PROVE  /\ refs'[c] \in Nat /\ lost'[c] \in Nat
             /\ refs'[c] = Cardinality(B!Holders(c)') + lost'[c]
  <2>1. refs'[c] = IF c = b THEN refs[c] + 1 ELSE refs[c]
    BY DEF B!Alias
  <2>2. /\ lost'[c] = IF c = owner[k] THEN lost[c] + 1 ELSE lost[c]
        /\ owner' = [owner EXCEPT ![k] = b]
    BY DEF B!Alias
  <2>8. Moved(owner, k, b, c, Cardinality(B!Holders(c)), Cardinality(B!Holders(c)'))
    <3>1. B!Holders(c) = OwnersOf(owner, c) /\ B!Holders(c)' = OwnersOf(owner', c)
      BY DEF B!Holders, OwnersOf
    <3>2. owner \in [Keys -> Backings \cup {NULL}]
      BY DEF BackingsInv, B!BackingsTypeOK
    <3>3. Moved(owner, k, b, c, Cardinality(OwnersOf(owner, c)),
                Cardinality(OwnersOf(owner', c)))
      BY <2>2, <3>2, OwnersAfterMove, Zenon
    <3> QED  BY <3>1, <3>3
  <2>9. /\ refs[c] \in Nat /\ lost[c] \in Nat /\ Cardinality(B!Holders(c)) \in Nat
        /\ refs[c] = Cardinality(B!Holders(c)) + lost[c]
        /\ refs[c] = 0 => B!Holders(c) = {} /\ lost[c] = 0
        /\ B!Holders(c) # {} => refs[c] > 0 /\ Cardinality(B!Holders(c)) > 0
    BY CountFacts
  <2> QED  BY <2>1, <2>2, <2>8, <2>9 DEF Moved
<1>2. B!BackingsTypeOK'
  BY <1>1 DEF B!Alias, BackingsInv, B!BackingsTypeOK
<1> QED  BY <1>1, <1>2 DEF BackingsInv, Counted

LEMMA CountRelease ==
    ASSUME IsFiniteSet(Keys), BackingsInv,
           NEW k \in Keys, B!Release(k)
    PROVE  BackingsInv'
<1>1. ASSUME NEW c \in Backings
      PROVE  refs'[c] \in Nat /\ refs'[c] = Cardinality(B!Holders(c)') + lost'[c]
  <2>1. refs'[c] = IF c = owner[k] THEN refs[c] - 1 ELSE refs[c]
    BY DEF B!Release
  <2>2. lost'[c] = lost[c] /\ owner' = [owner EXCEPT ![k] = NULL]
    BY DEF B!Release
  <2>3. c = owner[k] => B!Holders(c) # {}
    BY DEF B!Holders
  <2>8. Moved(owner, k, NULL, c, Cardinality(B!Holders(c)), Cardinality(B!Holders(c)'))
    <3>1. B!Holders(c) = OwnersOf(owner, c) /\ B!Holders(c)' = OwnersOf(owner', c)
      BY DEF B!Holders, OwnersOf
    <3>2. owner \in [Keys -> Backings \cup {NULL}]
      BY DEF BackingsInv, B!BackingsTypeOK
    <3>3. Moved(owner, k, NULL, c, Cardinality(OwnersOf(owner, c)),
                Cardinality(OwnersOf(owner', c)))
      BY <2>2, <3>2, OwnersAfterMove, Zenon
    <3> QED  BY <3>1, <3>3
  <2>9. /\ refs[c] \in Nat /\ lost[c] \in Nat /\ Cardinality(B!Holders(c)) \in Nat
        /\ refs[c] = Cardinality(B!Holders(c)) + lost[c]
        /\ refs[c] = 0 => B!Holders(c) = {} /\ lost[c] = 0
        /\ B!Holders(c) # {} => refs[c] > 0 /\ Cardinality(B!Holders(c)) > 0
    BY CountFacts
  <2> QED  BY <2>1, <2>2, <2>3, <2>8, <2>9, SurfaceAssumption DEF Moved
<1>2. B!BackingsTypeOK'
  BY <1>1 DEF B!Release, BackingsInv, B!BackingsTypeOK
<1> QED  BY <1>1, <1>2 DEF BackingsInv, Counted

LEMMA CountForget ==
    ASSUME IsFiniteSet(Keys), BackingsInv,
           NEW K \in SUBSET Keys, B!Forget(K)
    PROVE  BackingsInv'
<1>1. ASSUME NEW c \in Backings
      PROVE  lost'[c] \in Nat /\ refs'[c] = Cardinality(B!Holders(c)') + lost'[c]
  <2>1. B!Holders(c)' = B!Holders(c) \ K
    BY SurfaceAssumption DEF B!Forget, B!Holders
  <2>2. IsFiniteSet(B!Holders(c))
    BY FS_Subset DEF B!Holders
  <2>3. Cardinality(B!Holders(c) \ K) = Cardinality(B!Holders(c)) - Cardinality(B!Holders(c) \cap K)
    BY <2>2, FS_Difference
  <2>4. Cardinality(B!Holders(c) \cap K) \in Nat
    BY <2>2, FS_Intersection, FS_CardinalityType
  <2>5. /\ refs'[c] = refs[c]
        /\ lost'[c] = lost[c] + Cardinality(B!Holders(c) \cap K)
    BY SameCardinality DEF B!Forget
  <2> QED  BY <2>1, <2>3, <2>4, <2>5, CountFacts
<1>2. B!BackingsTypeOK'
  BY <1>1 DEF B!Forget, BackingsInv, B!BackingsTypeOK
<1> QED  BY <1>1, <1>2 DEF BackingsInv, Counted

LEMMA BackingsInvariant ==
    ASSUME IsFiniteSet(Keys)
    PROVE  B!BackingsSpec => []BackingsInv
<1>1. B!BackingsInit => BackingsInv
  <2> SUFFICES ASSUME B!BackingsInit PROVE BackingsInv
    OBVIOUS
  <2>1. \A c \in Backings : B!Holders(c) = {}
    BY SurfaceAssumption DEF B!BackingsInit, B!Holders
  <2> QED  BY <2>1, FS_EmptySet DEF B!BackingsInit, BackingsInv, B!BackingsTypeOK, Counted
<1>2. BackingsInv /\ [B!BackingsNext]_(B!backingVars) => BackingsInv'
  <2> SUFFICES ASSUME BackingsInv, [B!BackingsNext]_(B!backingVars) PROVE BackingsInv'
    OBVIOUS
  <2>1. CASE \E k \in Keys, b \in Backings : B!Replace(k, b) \/ B!Overwrite(k, b)
    BY <2>1, CountReplace, CountOverwrite
  <2>2. CASE \E k \in Keys, b \in Backings \cup {NULL} : B!Alias(k, b)
    BY <2>2, CountAlias
  <2>3. CASE \E k \in Keys : B!Release(k)
    BY <2>3, CountRelease
  <2>4. CASE \E K \in SUBSET Keys : B!Forget(K)
    BY <2>4, CountForget
  <2>5. CASE UNCHANGED B!backingVars
    BY <2>5 DEF B!backingVars, BackingsInv, B!BackingsTypeOK, Counted, B!Holders
  <2> QED  BY <2>1, <2>2, <2>3, <2>4, <2>5 DEF B!BackingsNext
<1> QED  BY <1>1, <1>2, PTL DEF B!BackingsSpec

\* A backing's refcount is the number of registry keys that own it plus the references
\* that import, realize and CmdDeleteTask lost, whatever the commands were.
THEOREM CountingExact ==
    ASSUME IsFiniteSet(Refs), IsFiniteSet(TaskIds)
    PROVE  SurfacesSpec => []B!RefcountExact
<1>1. IsFiniteSet(Keys)
  BY FS_Product DEF Keys
<1>2. B!BackingsSpec => []BackingsInv
  BY <1>1, BackingsInvariant
<1>3. BackingsInv => B!RefcountExact
  BY SameCardinality DEF BackingsInv, Counted, B!RefcountExact
<1> QED  BY <1>2, <1>3, SurfacesImplementSharing, PTL DEF ImplementsSharing

\* No surface command, draw or task deletion leaves a registry entry whose backing has
\* been destroyed: every handle the registry holds has a positive reference count.
THEOREM RegistryNeverDangles ==
    ASSUME IsFiniteSet(Refs), IsFiniteSet(TaskIds)
    PROVE  SurfacesSpec => []B!NoDanglingHandle
<1>1. IsFiniteSet(Keys)
  BY FS_Product DEF Keys
<1>2. B!BackingsSpec => []BackingsInv
  BY <1>1, BackingsInvariant
<1>3. BackingsInv => B!NoDanglingHandle
  <2> SUFFICES ASSUME BackingsInv, NEW k \in Keys, owner[k] # NULL
               PROVE  refs[owner[k]] > 0
    BY DEF B!NoDanglingHandle
  <2>1. owner[k] \in Backings
    BY DEF BackingsInv, B!BackingsTypeOK
  <2>2. k \in B!Holders(owner[k])
    BY DEF B!Holders
  <2> QED  BY <1>1, <2>1, <2>2, CountFacts
<1> QED  BY <1>2, <1>3, SurfacesImplementSharing, PTL DEF ImplementsSharing

=============================================================================
