---------------------------- MODULE MCAlgorithms -----------------------------
(***************************************************************************)
(* The algorithms of the kernel that do not depend on anything else, side  *)
(* by side: the searches in the table of tasks and in the bitmap of        *)
(* frames, printing a number, moving the mouse pointer.  They have nothing *)
(* to do with each other, so a behaviour is about one of them.             *)
(*                                                                         *)
(* Every table the operations of task.c can produce, and on each of them   *)
(* the lookups of the code against what they are meant to find; every      *)
(* bitmap of six frames, and requests of 0 to 4 pages of two bytes; every  *)
(* argument of six bits; every place of the pointer and every movement.    *)
(***************************************************************************)
EXTENDS PmmFindFree, TaskTable, Format, Mouse

VARIABLES tasks, number


AlgorithmsInit ==
  /\ tasks = EmptyTable
  /\ MouseInit
  /\ number = 0
  /\ Init

\* task_add, called by task_create_detailed with a task in state TASK_RUNNING.
TaskAdd ==
  LET pid == AddLoop(tasks)
  IN  pid # MAX_TASKS /\ tasks' = [tasks EXCEPT ![pid] = "running"]

\* task_stop: reached from syscall_exit, for a task that runs.
TaskStop(pid) == tasks[pid] = "running" /\ tasks' = [tasks EXCEPT ![pid] = "stopped"]

\* task_remove: the last step of task_destroy, for a task that is stopped.
TaskRemove(pid) == tasks[pid] = "stopped" /\ tasks' = [tasks EXCEPT ![pid] = "none"]

\* The behaviours that are not about bitmaps start with one and the same.
Idle == bitmap = [p \in Page |-> "RESERVED"] /\ len = 0 /\ result = NoResult

TableStep ==
  /\ Idle /\ MouseInit /\ number = 0
  /\ \/ TaskAdd
     \/ \E pid \in Pid : TaskStop(pid) \/ TaskRemove(pid)
  /\ UNCHANGED <<vars, event, number>>

BitmapStep ==
  /\ tasks = EmptyTable /\ MouseInit /\ number = 0
  /\ Next
  /\ UNCHANGED <<tasks, event, number>>

PointerStep ==
  /\ Idle /\ tasks = EmptyTable /\ number = 0
  /\ MouseNext
  /\ UNCHANGED <<vars, tasks, number>>

NumberStep ==
  /\ Idle /\ tasks = EmptyTable /\ MouseInit
  /\ number < ArgRange - 1
  /\ number' = number + 1
  /\ UNCHANGED <<vars, tasks, event>>

AlgorithmsSpec ==
  /\ AlgorithmsInit
  /\ [][TableStep \/ BitmapStep \/ PointerStep \/ NumberStep]_<<vars, tasks, event, number>>

-----------------------------------------------------------------------------
(* The two nested loops of task_get_next_task_with_state, with their       *)
(* wrap-around and visit limit, find the cyclically next task in the wanted *)
(* state from every pid (0, "no task", included) and report 0 exactly when *)
(* there is none: no task is skipped at the end of the array or cut off by *)
(* the limit.  task_add reuses the lowest free slot, never a taken one.    *)
LookupsAgree ==
  /\ AddLoop(tasks) = LowestFreePid(tasks)
  /\ \A c \in 0 .. MAX_TASKS - 1 :
       /\ NextTaskLoop(tasks, c) = NextTask(tasks, c)
       /\ \A state \in TaskState :
            NextTaskWithStateLoop(tasks, c, state) = NextTaskWithState(tasks, c, state)

(* Numbers are printed as what they are, in every radix and width.         *)
NumbersReadBack ==
  Idle /\ MouseInit => \A width \in 0 .. 9 : PrintsWhatItIsGiven(number, width)

(* The pointer goes with the mouse and stays on the screen.                *)
PointerFollowsMouse == Idle /\ tasks = EmptyTable => MovesWithMouse

=============================================================================
