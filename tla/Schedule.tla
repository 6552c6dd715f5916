------------------------------ MODULE Schedule ------------------------------
(***************************************************************************)
(* Preemptive multitasking: task.c, schedule.c, the exit system call, the  *)
(* timer interrupt that drives them and the two kernel threads that own    *)
(* the machine before and beside the user tasks: the boot thread (main)    *)
(* and the main task (main2), which starts all tasks and collects the      *)
(* ones that exited.                                                       *)
(*                                                                         *)
(* The machine has one processor.  A handler runs with interrupts off and  *)
(* is one action.  A thread runs with interrupts on: the timer may cut in  *)
(* between any two of its actions.  What a thread does under cli is one    *)
(* action as well.                                                         *)
(***************************************************************************)
EXTENDS TaskTable

CONSTANTS
  TicksPerTimeSlice,  \* ticks_per_time_slice
  TickModulus,        \* the range of the 32-bit tick counter of a task
  CreateInLoop        \* whether the main task also starts tasks between two rounds
                      \* of its loop; main2 as written does not

ASSUME ScheduleAssumption ==
  /\ TickModulus \in Nat
  /\ TicksPerTimeSlice \in 1 .. TickModulus - 1
  /\ CreateInLoop \in BOOLEAN

MAIN == 1   \* main2 is the first task that is added, hence pid 1

Ticks == 0 .. TickModulus - 1
MainPosition == {"create", "loop", "scan", "destroy", "sleep", "halted"}
UserPosition == {"entry", "body"}
Position == MainPosition \union UserPosition

VARIABLES
  tasks,         \* tasks[]: which tasks exist and their state
  ticks,         \* task->ticks
  cpu,           \* task->cpu: where the task resumes when it is switched to
  pos,           \* where the task's own code has got to
  current_task,  \* the scheduler's current task, 0 before the first switch
  finalize,      \* local variables of schedule_finalize_tasks and its lookup
  boot,          \* the boot thread: where main has got to
  interrupts     \* EFLAGS.IF of the running thread

vars == <<tasks, ticks, cpu, pos, current_task, finalize, boot, interrupts>>

Running == InState(tasks, "running")

TypeOK ==
  /\ tasks \in Table
  /\ ticks \in [Pid -> Ticks]
  /\ cpu \in [Pid -> Position]
  /\ pos \in [Pid -> Position]
  /\ current_task \in Pid \union {0}
  /\ finalize \in [pid : Pid \union {0}, pids : 0 .. MAX_TASKS]
  /\ boot \in {"init", "created", "hlt", "abandoned", "halted"}
  /\ interrupts \in BOOLEAN

\* isr_init has just turned interrupts on; main has yet to create the main task.
Init ==
  /\ tasks = EmptyTable
  /\ ticks = [p \in Pid |-> 0]
  /\ cpu = [p \in Pid |-> "entry"]
  /\ pos = [p \in Pid |-> "entry"]
  /\ current_task = 0
  /\ finalize = [pid |-> 0, pids |-> 0]
  /\ boot = "init"
  /\ interrupts = TRUE

-----------------------------------------------------------------------------
(* The scheduler.                                                          *)

\* A plausible slip: the search starts at the front of the list.
FromFrontMutant == FirstAfter(Running \ {current_task}, 0)

schedule_get_next_task == NextTaskWithState(tasks, current_task, "running")

\* Makes next the current task: a full time slice, and on with the position its
\* task->cpu points to.  left and saved are task->ticks and task->cpu as the caller
\* leaves them.
schedule_switch_task(next, left, saved) ==
  /\ ticks' = [left EXCEPT ![next] = TicksPerTimeSlice]
  /\ cpu' = saved
  /\ pos' = [pos EXCEPT ![next] = saved[next]]
  /\ current_task' = next

\* task->ticks - 1 on 32 bits.
Decremented == [ticks EXCEPT ![current_task] = IF @ = 0 THEN TickModulus - 1 ELSE @ - 1]
Saved == [cpu EXCEPT ![current_task] = pos[current_task]]

\* The slice of the current task is not over yet.
KeepRunning ==
  /\ current_task # 0
  /\ ticks[current_task] > 1
  /\ ticks' = Decremented
  /\ UNCHANGED <<cpu, pos, current_task>>

\* The slice is over, but there is no other task to run.
RunAlone ==
  /\ current_task # 0
  /\ ticks[current_task] <= 1
  /\ schedule_get_next_task = current_task
  /\ ticks' = Decremented
  /\ cpu' = Saved
  /\ UNCHANGED <<pos, current_task>>

\* A plausible slip in the next action: task->cpu is not saved.
NoSaveMutant ==
  /\ current_task # 0
  /\ ticks[current_task] <= 1
  /\ schedule_get_next_task # current_task
  /\ schedule_switch_task(schedule_get_next_task, Decremented, cpu)

\* The slice is over and another task is due.
Preempt ==
  /\ current_task # 0
  /\ ticks[current_task] <= 1
  /\ schedule_get_next_task # current_task
  /\ schedule_switch_task(schedule_get_next_task, Decremented, Saved)

\* The first switch; the boot thread is not a task and never resumes.
InitialSwitch ==
  /\ current_task = 0
  /\ schedule_switch_task(schedule_get_next_task, ticks, cpu)

\* IRQ 0.  With no task to run, schedule() does nothing.
Tick ==
  /\ interrupts
  /\ schedule_get_next_task # 0
  /\ KeepRunning \/ RunAlone \/ Preempt \/ InitialSwitch
  /\ boot' = IF current_task' # 0 THEN "abandoned" ELSE boot
  /\ UNCHANGED <<tasks, finalize, interrupts>>

-----------------------------------------------------------------------------
(* The boot thread.                                                        *)

\* task_create_detailed.  The ticks of the new task are whatever its frame held.
task_create(pid, entry) ==
  /\ tasks' = [tasks EXCEPT ![pid] = "running"]
  /\ \E garbage \in Ticks : ticks' = [ticks EXCEPT ![pid] = garbage]
  /\ cpu' = [cpu EXCEPT ![pid] = entry]
  /\ pos' = [pos EXCEPT ![pid] = entry]

\* main creates the main task ...
CreateMain ==
  /\ boot = "init"
  /\ task_create(LowestFreePid(tasks), "create")
  /\ boot' = "created"
  /\ UNCHANGED <<current_task, finalize, interrupts>>

\* ... and executes hlt.
WaitForTick ==
  /\ boot = "created"
  /\ boot' = "hlt"
  /\ UNCHANGED <<tasks, ticks, cpu, pos, current_task, finalize, interrupts>>

\* Any interrupt ends hlt.  If it is not the timer's, main returns to start, which
\* falls through into halt: cli and hlt for ever.
OtherInterrupt ==
  /\ interrupts
  /\ boot = "hlt"
  /\ boot' = "halted"
  /\ interrupts' = FALSE
  /\ UNCHANGED <<tasks, ticks, cpu, pos, current_task, finalize>>

-----------------------------------------------------------------------------
(* The main task.                                                          *)

MainAt(from) == current_task = MAIN /\ pos[MAIN] = from
MoveMain(to) == pos' = [pos EXCEPT ![MAIN] = to]

\* task_create_kernel, elf_create_task or vm86_call_bios; a full table is a panic.
CreateTask ==
  /\ MainAt("create")
  /\ \/ /\ LowestFreePid(tasks) # MAX_TASKS
        /\ task_create(LowestFreePid(tasks), "entry")
        /\ UNCHANGED interrupts
     \/ /\ LowestFreePid(tasks) = MAX_TASKS
        /\ MoveMain("halted")
        /\ interrupts' = FALSE
        /\ UNCHANGED <<tasks, ticks, cpu>>
  /\ UNCHANGED <<current_task, finalize, boot>>

\* All tasks are created.
EnterLoop ==
  /\ MainAt("create")
  /\ MoveMain("loop")
  /\ UNCHANGED <<tasks, ticks, cpu, current_task, finalize, boot, interrupts>>

\* ESC was pressed: halt().
Shutdown ==
  /\ MainAt("loop")
  /\ MoveMain("halted")
  /\ interrupts' = FALSE
  /\ UNCHANGED <<tasks, ticks, cpu, current_task, finalize, boot>>

\* Calls schedule_finalize_tasks: pid = 0, and the first lookup starts.
StartFinalize ==
  /\ MainAt("loop")
  /\ MoveMain("scan")
  /\ finalize' = [pid |-> 0, pids |-> 0]
  /\ UNCHANGED <<tasks, ticks, cpu, current_task, boot, interrupts>>

\* Plausible slips in the lookup below: the state of the task is not compared, and the
\* lookup gives up at the first task that still runs.
AnyStateMutant ==
  /\ MainAt("scan")
  /\ LET pid == NextTask(tasks, finalize.pid)
     IN  IF pid = 0
         THEN MoveMain("sleep") /\ UNCHANGED finalize
         ELSE finalize' = [pid |-> pid, pids |-> 1] /\ MoveMain("destroy")
  /\ UNCHANGED <<tasks, ticks, cpu, current_task, boot, interrupts>>

GiveUpMutant ==
  /\ MainAt("scan")
  /\ LET pid == NextTask(tasks, finalize.pid)
     IN  IF pid = 0 \/ tasks[pid] = "running"
         THEN MoveMain("sleep") /\ UNCHANGED finalize
         ELSE finalize' = [pid |-> pid, pids |-> 1] /\ MoveMain("destroy")
  /\ UNCHANGED <<tasks, ticks, cpu, current_task, boot, interrupts>>

\* One visit of task_get_next_task_with_state(pid, TASK_STOPPED): the lookup runs
\* with interrupts on, so other tasks may exit between two visits.
VisitTask ==
  /\ MainAt("scan")
  /\ LET pid == NextTask(tasks, finalize.pid)
     IN  IF finalize.pids = MAX_TASKS \/ pid = 0
         THEN /\ MoveMain("sleep")
              /\ UNCHANGED finalize
         ELSE /\ finalize' = [pid |-> pid, pids |-> finalize.pids + 1]
              /\ MoveMain(IF tasks[pid] = "stopped" THEN "destroy" ELSE "scan")
  /\ UNCHANGED <<tasks, ticks, cpu, current_task, boot, interrupts>>

\* A plausible slip in the next action: no sti at the end.
NoStiMutant ==
  /\ MainAt("destroy")
  /\ tasks' = [tasks EXCEPT ![finalize.pid] = "none"]
  /\ interrupts' = FALSE
  /\ finalize' = [finalize EXCEPT !.pids = 0]
  /\ MoveMain("scan")
  /\ UNCHANGED <<ticks, cpu, current_task, boot>>

\* task_destroy under cli, after which the next lookup starts from the freed pid.
\* For a running task it returns without turning interrupts back on, which only its
\* caller for ELF tasks makes good.
DestroyTask ==
  /\ MainAt("destroy")
  /\ IF tasks[finalize.pid] = "running"
     THEN interrupts' \in {FALSE, interrupts} /\ UNCHANGED tasks
     ELSE tasks' = [tasks EXCEPT ![finalize.pid] = "none"] /\ UNCHANGED interrupts
  /\ finalize' = [finalize EXCEPT !.pids = 0]
  /\ MoveMain("scan")
  /\ UNCHANGED <<ticks, cpu, current_task, boot>>

\* pit_sleep is over.
WakeUp ==
  /\ MainAt("sleep")
  /\ \/ MoveMain("loop")
     \/ CreateInLoop /\ MoveMain("create")
  /\ UNCHANGED <<tasks, ticks, cpu, current_task, finalize, boot, interrupts>>

-----------------------------------------------------------------------------
(* The other tasks.                                                        *)

RunTask(p) ==
  /\ current_task = p
  /\ p # MAIN
  /\ pos' = [pos EXCEPT ![p] = IF @ = "entry" THEN "body" ELSE "entry"]
  /\ UNCHANGED <<tasks, ticks, cpu, current_task, finalize, boot, interrupts>>

\* Plausible slips in syscall_exit: the caller is stopped but keeps the processor until
\* the next tick, and the main task is switched to instead of the next one.
NoSwitchMutant(p) ==
  /\ current_task = p
  /\ p # MAIN
  /\ tasks' = [tasks EXCEPT ![p] = "stopped"]
  /\ UNCHANGED <<ticks, cpu, pos, current_task, finalize, boot, interrupts>>

BackToMainMutant(p) ==
  /\ current_task = p
  /\ p # MAIN
  /\ tasks' = [tasks EXCEPT ![p] = "stopped"]
  /\ schedule_switch_task(MAIN, ticks, cpu)
  /\ UNCHANGED <<finalize, boot, interrupts>>

\* syscall_exit.  The next task is looked up before the caller is stopped.
ExitTask(p) ==
  /\ current_task = p
  /\ p # MAIN
  /\ tasks' = [tasks EXCEPT ![p] = "stopped"]
  /\ schedule_switch_task(schedule_get_next_task, ticks, cpu)
  /\ UNCHANGED <<finalize, boot, interrupts>>

-----------------------------------------------------------------------------
ThreadStep ==
  \/ CreateMain \/ WaitForTick \/ OtherInterrupt
  \/ CreateTask \/ EnterLoop \/ Shutdown
  \/ StartFinalize \/ VisitTask \/ DestroyTask \/ WakeUp
  \/ \E p \in Pid : RunTask(p) \/ ExitTask(p)

Next == Tick \/ ThreadStep

Spec == Init /\ [][Next]_vars

\* The PIT never stops ticking, and a task that is given the processor again and
\* again executes its instructions between the ticks.
Fairness ==
  /\ WF_vars(Tick)
  /\ WF_vars(CreateMain) /\ WF_vars(WaitForTick)
  /\ SF_vars(EnterLoop) /\ SF_vars(StartFinalize) /\ SF_vars(VisitTask)
  /\ SF_vars(DestroyTask) /\ SF_vars(WakeUp)

FairSpec == Spec /\ Fairness

-----------------------------------------------------------------------------
(* Properties.                                                             *)

(* The processor never executes a task that has stopped or been destroyed: *)
(* schedule_finalize_tasks frees the kernel stack and the page directory of *)
(* a stopped task, which must not be the ones in use.                      *)
CurrentTaskRuns == current_task # 0 => tasks[current_task] = "running"

(* A task that is switched to continues exactly where it was interrupted,  *)
(* or at its entry point: schedule() saves task->cpu on every path that    *)
(* takes the processor away, and no path resumes a task from an older save. *)
ResumesWhereLeft == \A p \in Running \ {current_task} : cpu[p] = pos[p]

(* Between the lookup of a stopped task and its destruction any number of  *)
(* other tasks may run and exit; the task found is still there and still   *)
(* stopped when task_destroy is reached.                                   *)
FinalizeTargetStopped ==
  tasks[MAIN] = "running" /\ pos[MAIN] = "destroy" => tasks[finalize.pid] = "stopped"

(* Interrupts stay on as long as the machine has not been halted: no path  *)
(* through task creation, finalization or exit forgets to restore IF, in   *)
(* which case the main task would never be preempted again.                *)
StaysPreemptible ==
  \/ interrupts
  \/ boot = "halted"
  \/ tasks[MAIN] = "running" /\ pos[MAIN] = "halted"

Halted == ~ interrupts

(* Round robin starves nobody: every task that can run gets the processor, *)
(* unless the machine is halted or the task's slot is given up.            *)
EveryTaskRuns ==
  \A p \in Pid : tasks[p] = "running" ~> current_task = p \/ Halted

(* A task that exited does not stay in the list: the finalizer finds it,   *)
(* whatever other tasks exit meanwhile, and frees its slot.                *)
StoppedTasksFinalized ==
  \A p \in Pid : tasks[p] = "stopped" ~> tasks[p] = "none" \/ Halted

(* main hands over to the main task and executes hlt to "stop execution    *)
(* until the scheduler calls main2".                                       *)
MainTaskIsCalled == <>(current_task = MAIN)

=============================================================================
