----------------------------- MODULE TaskTable -----------------------------
(***************************************************************************)
(* The task table of the protocol state: a fixed array of slots, searched  *)
(* linearly (state.h), filled by CmdDefineTask2 (0x00) and                 *)
(* CmdDefineHostTask (0x38) and emptied by CmdDeleteTask (0x01).  A task   *)
(* defined with a non-zero length owns an object of the shell, made by     *)
(* shell.create_task and given back by shell.destroy_task.                 *)
(*                                                                         *)
(* This module has the table and the parts of the handlers that change it; *)
(* Surfaces completes the handlers with their effect on the registry.      *)
(***************************************************************************)
EXTENDS Integers, FiniteSets

CONSTANTS
    TaskIds,    \* the task ids guests use; 0 is one of them
    MaxTasks,   \* LAGFX_MAX_TASKS
    ShellTasks, \* what create_task can return besides NULL
    NULL

ASSUME TaskAssumption ==
    /\ TaskIds \subseteq Nat /\ 0 \in TaskIds
    /\ MaxTasks \in Nat \ {0}
    /\ NULL \notin ShellTasks

VARIABLES
    tasks,     \* the array
    shellLive  \* shell: the tasks created and not destroyed

taskVars == <<tasks, shellLive>>

TaskSlot == 1 .. MaxTasks

\* memset(entry, 0, sizeof(*entry))
FreeSlot == [live |-> FALSE, id |-> 0, shell_task |-> NULL]

TaskTypeOK ==
    /\ tasks \in [TaskSlot -> [live : BOOLEAN, id : TaskIds,
                               shell_task : ShellTasks \cup {NULL}]]
    /\ shellLive \subseteq ShellTasks

TaskInit ==
    /\ tasks = [i \in TaskSlot |-> FreeSlot]
    /\ shellLive = {}

-----------------------------------------------------------------------------

\* The linear searches stop at the first hit.  They return NULL or a slot, here
\* as the empty set or a singleton.
FirstOf(S) == {i \in S : \A j \in S : i <= j}

find_task(id) == FirstOf({i \in TaskSlot : tasks[i].live /\ tasks[i].id = id})

alloc_task_slot == FirstOf({i \in TaskSlot : ~tasks[i].live})

find_or_alloc_always(id) == alloc_task_slot

\* A define re-uses the slot of a task with this id; otherwise it takes a free
\* one, and a full table drops the command (the set is empty).
find_or_alloc(id) ==
    IF find_task(id) # {} THEN find_task(id) ELSE alloc_task_slot

\* shell.create_task: a task the shell does not have yet, or NULL.
create_task == (ShellTasks \ shellLive) \cup {NULL}

\* CmdDefineTask2: calls create_task when length > 0.  A duplicate define
\* overwrites shell_task, and the earlier object is not given back.
define_task2(id, length) ==
    \E i \in find_or_alloc(id),
       shell \in IF length > 0 THEN create_task ELSE {NULL} :
          /\ tasks' = [tasks EXCEPT ![i] =
                          [live |-> TRUE, id |-> id, shell_task |-> shell]]
          /\ shellLive' = shellLive \cup ({shell} \ {NULL})

\* CmdDefineHostTask: task_id = slot_index >> 1, so ids 2n and 2n+1 meet; an
\* existing task keeps its shell object.
define_host_task(slot_index) ==
    \E i \in find_or_alloc(slot_index \div 2) :
       /\ tasks' = [tasks EXCEPT ![i].id = slot_index \div 2, ![i].live = TRUE]
       /\ UNCHANGED shellLive

\* CmdDeleteTask on the slot that holds the task.
delete_task_slot(i) ==
    /\ shellLive' = shellLive \ {tasks[i].shell_task}
    /\ tasks' = [tasks EXCEPT ![i] = FreeSlot]

TaskNext ==
    \/ \E id \in TaskIds, length \in 0 .. 1 : define_task2(id, length)
    \/ \E id \in TaskIds, low \in 0 .. 1 : define_host_task(2 * id + low)
    \/ \E i \in TaskSlot : \E id \in TaskIds : i \in find_task(id) /\ delete_task_slot(i)

TaskSpec == TaskInit /\ [][TaskNext]_taskVars

-----------------------------------------------------------------------------

\* The task table is a map: no two live slots have one id, although
\* CmdDefineTask2 and CmdDefineHostTask fill it independently, with different
\* encodings of the id.
TaskIdsUnique ==
    \A i, j \in TaskSlot :
        tasks[i].live /\ tasks[j].live /\ tasks[i].id = tasks[j].id => i = j

\* Every shell object a slot names is alive in the shell and named by no other
\* slot, so destroy_task is never called twice for one object.
ShellTasksOwned ==
    \A i \in TaskSlot :
        tasks[i].shell_task # NULL =>
            /\ tasks[i].live
            /\ tasks[i].shell_task \in shellLive
            /\ \A j \in TaskSlot \ {i} :
                  tasks[j].shell_task # tasks[i].shell_task

=============================================================================
