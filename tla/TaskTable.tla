------------------------------ MODULE TaskTable ------------------------------
(***************************************************************************)
(* The task list of the kernel: the fixed array tasks[] of                 *)
(* src/src/kernel/tasks/task.c and the lookups the scheduler makes in it.  *)
(*                                                                         *)
(* A table maps every pid to what its slot holds: "none" for a null        *)
(* pointer, else the state of the task the slot points to.  Slot 0 is not  *)
(* part of the table: pid 0 is the error value, and task_add starts at 1.  *)
(*                                                                         *)
(* The lookups are stated twice.  LowestFreePid, NextTask and              *)
(* NextTaskWithState say what is looked for; ProbeFrom, NextTaskLoop and   *)
(* NextTaskWithStateLoop walk the array as the loops of the code do.  The  *)
(* scheduler is built on the former, and MCAlgorithms compares the two on *)
(* every reachable table.                                                  *)
(***************************************************************************)
EXTENDS Naturals

CONSTANT MAX_TASKS      \* number of slots of tasks[], slot 0 included

ASSUME MaxTasksAssumption == MAX_TASKS \in Nat /\ MAX_TASKS > 1

Pid == 1 .. MAX_TASKS - 1
TaskState == {"running", "stopped"}
Slot == TaskState \union {"none"}
Table == [Pid -> Slot]
EmptyTable == [p \in Pid |-> "none"]

Occupied(t) == {p \in Pid : t[p] # "none"}
InState(t, state) == {p \in Pid : t[p] = state}

-----------------------------------------------------------------------------
(* What the lookups return.                                                *)

\* How far p lies behind pid c in the cyclic order of the pids, in 1 .. MAX_TASKS-1;
\* c itself comes last, and c = 0 (no task) lies before pid 1.
Distance(c, p) == IF p > c THEN p - c ELSE p + (MAX_TASKS - 1) - c

\* The first member of S behind c, 0 when there is none.
FirstAfter(S, c) ==
  IF S = {} THEN 0
  ELSE CHOOSE p \in S : \A q \in S : Distance(c, p) <= Distance(c, q)

NextTask(t, c) == FirstAfter(Occupied(t), c)
NextTaskWithState(t, c, state) == FirstAfter(InState(t, state), c)

\* The pid task_add hands out, MAX_TASKS when every slot is taken.
LowestFreePid(t) ==
  IF Occupied(t) = Pid THEN MAX_TASKS
  ELSE CHOOSE p \in Pid \ Occupied(t) : \A q \in Pid \ Occupied(t) : p <= q

-----------------------------------------------------------------------------
(* The loops that compute them.                                            *)

\* The index at which the loop "for (pid = from; ...; pid++)" stops, when it runs
\* on as long as the slot is below MAX_TASKS and is taken (skip = TRUE) or free.
ProbeFrom(t, from, skipTaken) ==
  LET stop[p \in 1 .. MAX_TASKS] ==
        IF p < MAX_TASKS /\ ((t[p] # "none") = skipTaken) THEN stop[p + 1] ELSE p
  IN  stop[from]

AddLoop(t) == ProbeFrom(t, 1, TRUE)

\* A plausible slip in the loop below: the search ends with the array.
NoWrapMutant(t, pid) ==
  LET ahead == ProbeFrom(t, pid + 1, FALSE) IN IF ahead # MAX_TASKS THEN ahead ELSE 0

\* The cyclic successor: from the next slot to the end, then once more from slot 1.
NextTaskLoop(t, pid) ==
  LET ahead   == ProbeFrom(t, pid + 1, FALSE)
      wrapped == ProbeFrom(t, 1, FALSE)
  IN  IF ahead # MAX_TASKS THEN ahead
      ELSE IF wrapped # MAX_TASKS THEN wrapped ELSE 0

\* At most MAX_TASKS visits to successors, ended by the wanted state or by pid 0.
NextTaskWithStateLoop(t, pid, state) ==
  LET visit[n \in 0 .. MAX_TASKS] ==
        IF n = 0 THEN pid
        ELSE IF n > 1 /\ visit[n - 1] = 0 THEN 0 ELSE NextTaskLoop(t, visit[n - 1])
      ends == {n \in 1 .. MAX_TASKS : visit[n] = 0 \/ t[visit[n]] = state}
  IN  IF ends = {} THEN 0
      ELSE visit[CHOOSE n \in ends : \A m \in ends : n <= m]

=============================================================================
