---------------------------- MODULE Tasks_proofs ----------------------------
(***************************************************************************)
(* The tasks the kernel runs.  First the scheduler: its safety, the        *)
(* fairness of its choices, and that it implements a round robin, for      *)
(* every number of task slots, every length of a time slice and every      *)
(* width of the tick counter.  Then the monitor of the virtual 8086 tasks: *)
(* it implements an 8086.                                                  *)
(***************************************************************************)
EXTENDS ScheduleHistory, Vm86, WellFoundedInduction, TLAPS


-----------------------------------------------------------------------------
(* What the lookups in the task list return.                               *)

(* A non-empty set of natural numbers has a least member.                  *)
LEMMA LeastMember ==
  ASSUME NEW T \in SUBSET Nat, T # {}
  PROVE  \E m \in T : \A n \in T : m <= n
<1> DEFINE Less == {pair \in Nat \X Nat : pair[1] < pair[2]}
<1>1. IsWellFoundedOn(Less, Nat)
  BY NatLessThanWellFounded, Zenon DEF OpToRel
<1> HIDE DEF Less
<1>2. PICK m \in T : \A n \in T : ~ (<<n, m>> \in Less)
  BY <1>1, WFMin, Zenon
<1>3. \A n \in T : ~ (n < m)
  BY <1>2 DEF Less
<1> QED
  BY <1>3

LEMMA DistanceRange ==
  ASSUME NEW p \in Pid, NEW c \in Pid \union {0}
  PROVE  /\ Distance(c, p) \in 1 .. MAX_TASKS - 1
         /\ p # c => Distance(c, p) < MAX_TASKS - 1 \/ c = 0
         /\ p = c => Distance(c, p) = MAX_TASKS - 1
BY MaxTasksAssumption DEF Distance, Pid

(* Two tasks at the same distance are the same.                            *)
LEMMA DistanceInjective ==
  ASSUME NEW p \in Pid, NEW q \in Pid, NEW c \in Pid \union {0},
         Distance(c, p) = Distance(c, q)
  PROVE  p = q
BY MaxTasksAssumption DEF Distance, Pid

(* The first task behind c is one of the tasks, and none is closer.        *)
LEMMA FirstAfterIsFirst ==
  ASSUME NEW S \in SUBSET Pid, S # {}, NEW c \in Pid \union {0}
  PROVE  /\ FirstAfter(S, c) \in S
         /\ \A q \in S : Distance(c, FirstAfter(S, c)) <= Distance(c, q)
<1> DEFINE T == {Distance(c, q) : q \in S}
<1>1. T \in SUBSET Nat /\ T # {}
  BY DistanceRange, MaxTasksAssumption
<1>2. \E m \in T : \A n \in T : m <= n
  BY <1>1, LeastMember
<1>3. \E p \in S : \A q \in S : Distance(c, p) <= Distance(c, q)
  BY <1>2
<1> QED
  BY <1>3 DEF FirstAfter

(* It is c itself only when there is no other.                             *)
LEMMA FirstAfterMoves ==
  ASSUME NEW S \in SUBSET Pid, NEW c \in Pid \union {0}, S \ {c} # {}
  PROVE  FirstAfter(S, c) \in S \ {c}
<1>1. PICK q \in S : q # c
  OBVIOUS
<1>2. FirstAfter(S, c) \in S /\ Distance(c, FirstAfter(S, c)) <= Distance(c, q)
  BY <1>1, FirstAfterIsFirst
<1>3. CASE c = 0
  BY <1>2, <1>3, MaxTasksAssumption DEF Pid
<1>4. CASE c # 0
  <2>1. Distance(c, q) < MAX_TASKS - 1
    BY <1>1, <1>4, DistanceRange
  <2>2. FirstAfter(S, c) = c => Distance(c, FirstAfter(S, c)) = MAX_TASKS - 1
    BY <1>2, DistanceRange
  <2> QED
    BY <1>1, <1>2, <2>1, <2>2, DistanceRange, MaxTasksAssumption
<1> QED
  BY <1>3, <1>4

(* Whoever is first stays first when others leave.                         *)
LEMMA FirstAfterOfSubset ==
  ASSUME NEW S \in SUBSET Pid, NEW R \in SUBSET S, NEW c \in Pid \union {0},
         FirstAfter(S, c) \in R
  PROVE  FirstAfter(R, c) = FirstAfter(S, c)
<1>1. /\ FirstAfter(S, c) \in S
      /\ \A q \in S : Distance(c, FirstAfter(S, c)) <= Distance(c, q)
  BY FirstAfterIsFirst
<1>2. /\ FirstAfter(R, c) \in R
      /\ \A q \in R : Distance(c, FirstAfter(R, c)) <= Distance(c, q)
  BY FirstAfterIsFirst
<1>3. /\ FirstAfter(S, c) \in Pid /\ FirstAfter(R, c) \in Pid
      /\ Distance(c, FirstAfter(S, c)) \in Nat /\ Distance(c, FirstAfter(R, c)) \in Nat
  BY <1>1, <1>2, DistanceRange, MaxTasksAssumption
<1>4. Distance(c, FirstAfter(S, c)) = Distance(c, FirstAfter(R, c))
  BY <1>1, <1>2, <1>3
<1> QED
  BY <1>3, <1>4, DistanceInjective

(* task_add hands out a free slot of the table, and only fails when every  *)
(* slot is taken.                                                          *)
LEMMA LowestFreePidIsFree ==
  ASSUME NEW t \in Table
  PROVE  \/ LowestFreePid(t) = MAX_TASKS /\ Occupied(t) = Pid
         \/ /\ LowestFreePid(t) \in Pid
            /\ t[LowestFreePid(t)] = "none"
            /\ \A q \in Pid \ Occupied(t) : LowestFreePid(t) <= q
<1>1. CASE Occupied(t) = Pid
  BY <1>1 DEF LowestFreePid
<1>2. CASE Occupied(t) # Pid
  <2> DEFINE F == Pid \ Occupied(t)
  <2>1. F \in SUBSET Nat /\ F # {}
    BY <1>2, MaxTasksAssumption DEF Pid, Occupied
  <2>2. \E p \in F : \A q \in F : p <= q
    BY <2>1, LeastMember
  <2>3. LowestFreePid(t) \in F /\ \A q \in F : LowestFreePid(t) <= q
    BY <1>2, <2>2 DEF LowestFreePid
  <2> QED
    BY <2>3 DEF Occupied
<1> QED
  BY <1>1, <1>2

-----------------------------------------------------------------------------
(* The invariant.                                                          *)

(* The four safety properties hold only because the main task, once it is  *)
(* created, can always run: then there is always a task to switch to.      *)
MainNeverLeaves ==
  /\ boot = "init" => tasks = EmptyTable
  /\ boot # "init" => tasks[MAIN] = "running"
  /\ current_task # 0 => boot = "abandoned"

\* The finalizer looks at a slot of the table when it is about to destroy a task.
FinalizeTargetIsTask == pos[MAIN] = "destroy" => finalize.pid \in Pid

IInv ==
  /\ TypeOK
  /\ MainNeverLeaves
  /\ FinalizeTargetIsTask
  /\ CurrentTaskRuns
  /\ ResumesWhereLeft
  /\ FinalizeTargetStopped
  /\ StaysPreemptible

-----------------------------------------------------------------------------
LEMMA MainIsPid == MAIN \in Pid /\ MAIN # 0 /\ 0 \notin Pid
BY MaxTasksAssumption DEF MAIN, Pid

LEMMA RunningIsPid == Running \in SUBSET Pid
BY DEF Running, InState

(* The main task is added first, and gets pid 1.                           *)
LEMMA MainIsFirst == LowestFreePid(EmptyTable) = MAIN
<1>1. EmptyTable \in Table /\ Occupied(EmptyTable) = {}
  BY DEF EmptyTable, Table, Slot, Occupied
<1>2. /\ LowestFreePid(EmptyTable) \in Pid
      /\ \A q \in Pid : LowestFreePid(EmptyTable) <= q
  BY <1>1, MainIsPid, LowestFreePidIsFree
<1> QED
  BY <1>2, MainIsPid DEF MAIN, Pid

(* While there is a task that can run the scheduler finds one, and never   *)
(* the current one if there is another.                                    *)
LEMMA NextIsRunning ==
  ASSUME TypeOK, Running # {}
  PROVE  /\ schedule_get_next_task \in Running
         /\ schedule_get_next_task \in Pid
         /\ Running \ {current_task} # {} => schedule_get_next_task # current_task
<1>1. current_task \in Pid \union {0}
  BY DEF TypeOK
<1>2. schedule_get_next_task = FirstAfter(Running, current_task)
  BY DEF schedule_get_next_task, NextTaskWithState, Running
<1>3. schedule_get_next_task \in Running
  BY <1>1, <1>2, RunningIsPid, FirstAfterIsFirst
<1>4. Running \ {current_task} # {} => schedule_get_next_task # current_task
  BY <1>1, <1>2, RunningIsPid, FirstAfterMoves
<1> QED
  BY <1>3, <1>4, RunningIsPid

(* When nobody can run there is no next task.                              *)
LEMMA NoNext == Running = {} => schedule_get_next_task = 0
BY DEF schedule_get_next_task, NextTaskWithState, Running, FirstAfter

LEMMA TicksFacts ==
  /\ TickModulus \in Nat
  /\ TicksPerTimeSlice \in Ticks
  /\ TypeOK /\ current_task # 0 => Decremented \in [Pid -> Ticks]
BY ScheduleAssumption DEF Ticks, Decremented, TypeOK

LEMMA InitIInv == Init => IInv
<1> SUFFICES ASSUME Init PROVE IInv
  OBVIOUS
<1>1. TypeOK
  BY MaxTasksAssumption, ScheduleAssumption
  DEF Init, TypeOK, EmptyTable, Table, Slot, Ticks, Position, UserPosition
<1>2. pos[MAIN] = "entry" /\ Running = {}
  BY MainIsPid DEF Init, EmptyTable, Running, InState
<1> QED
  BY <1>1, <1>2 DEF Init, IInv, MainNeverLeaves, FinalizeTargetIsTask, CurrentTaskRuns,
    ResumesWhereLeft, FinalizeTargetStopped, StaysPreemptible

-----------------------------------------------------------------------------
(* The steps.                                                              *)

LEMMA TickIInv == IInv /\ Tick => IInv'
<1> SUFFICES ASSUME IInv, Tick PROVE IInv'
  OBVIOUS
<1> DEFINE next == schedule_get_next_task
<1>0. TypeOK /\ MainNeverLeaves /\ CurrentTaskRuns /\ ResumesWhereLeft
  BY DEF IInv
<1>1. Running # {}
  BY NoNext DEF Tick
<1>2. next \in Running /\ next \in Pid
  BY <1>0, <1>1, NextIsRunning
<1>3. tasks' = tasks /\ Running' = Running /\ finalize' = finalize /\ interrupts' = interrupts
      /\ interrupts
  BY DEF Tick, Running
<1>4. boot # "init" /\ tasks[MAIN] = "running"
  BY <1>0, <1>1 DEF MainNeverLeaves, EmptyTable, Running, InState
<1>5. /\ current_task' \in Pid /\ tasks[current_task'] = "running"
      /\ ticks' \in [Pid -> Ticks]
      /\ cpu' \in [Pid -> Position] /\ pos' \in [Pid -> Position]
      /\ \A p \in Running \ {current_task'} : cpu'[p] = pos'[p]
      /\ pos'[MAIN] = pos[MAIN]
  <2>t. cpu \in [Pid -> Position] /\ pos \in [Pid -> Position] /\ ticks \in [Pid -> Ticks]
    BY <1>0 DEF TypeOK
  <2>r. \A p \in Running \ {current_task} : cpu[p] = pos[p]
    BY <1>0 DEF ResumesWhereLeft
  <2>c. current_task # 0 => current_task \in Running /\ current_task \in Pid
    BY <1>0 DEF CurrentTaskRuns, TypeOK, Running, InState
  <2>m. MAIN \in Running
    BY <1>4, MainIsPid DEF Running, InState
  <2>1. CASE KeepRunning
    BY <2>1, <2>t, <2>r, <2>c, <1>0, <1>1, <1>2, TicksFacts DEF KeepRunning, Running, InState
  <2>2. CASE RunAlone
    BY <2>2, <2>t, <2>r, <2>c, <1>0, <1>1, <1>2, TicksFacts DEF RunAlone, Saved, Running, InState
  <2>3. CASE Preempt
    <3>1. Saved \in [Pid -> Position] /\ \A p \in Running : Saved[p] = pos[p]
      BY <2>3, <2>t, <2>r, <2>c DEF Preempt, Saved
    <3>2. Decremented \in [Pid -> Ticks]
      BY <2>3, <1>0, TicksFacts DEF Preempt
    <3>3. /\ ticks' = [Decremented EXCEPT ![next] = TicksPerTimeSlice]
          /\ cpu' = Saved
          /\ pos' = [pos EXCEPT ![next] = Saved[next]]
          /\ current_task' = next
      BY <2>3 DEF Preempt, schedule_switch_task
    <3> QED
      BY <3>1, <3>2, <3>3, <2>t, <2>m, <1>2, TicksFacts DEF Running, InState
  <2>4. CASE InitialSwitch
    <3>1. /\ ticks' = [ticks EXCEPT ![next] = TicksPerTimeSlice]
          /\ cpu' = cpu
          /\ pos' = [pos EXCEPT ![next] = cpu[next]]
          /\ current_task' = next /\ current_task = 0
      BY <2>4 DEF InitialSwitch, schedule_switch_task
    <3>2. \A p \in Running : cpu[p] = pos[p]
      BY <3>1, <2>r, RunningIsPid, MainIsPid
    <3> QED
      BY <3>1, <3>2, <2>t, <2>m, <1>2, TicksFacts DEF Running, InState
  <2> QED
    BY <2>1, <2>2, <2>3, <2>4 DEF Tick
<1>6. boot' = "abandoned"
  BY <1>5, MainIsPid DEF Tick
<1>7. TypeOK'
  BY <1>0, <1>3, <1>5, <1>6 DEF TypeOK
<1> QED
  BY <1>3, <1>4, <1>5, <1>6, <1>7 DEF IInv, MainNeverLeaves, FinalizeTargetIsTask,
    CurrentTaskRuns, ResumesWhereLeft, FinalizeTargetStopped, StaysPreemptible

(* A task that is created gets a slot of its own and starts at its entry.  *)
LEMMA CreateFacts ==
  ASSUME TypeOK, NEW pid \in Pid, tasks[pid] = "none", NEW entry \in Position,
         task_create(pid, entry)
  PROVE  /\ tasks' = [tasks EXCEPT ![pid] = "running"]
         /\ tasks' \in Table /\ ticks' \in [Pid -> Ticks]
         /\ cpu' = [cpu EXCEPT ![pid] = entry] /\ cpu' \in [Pid -> Position]
         /\ pos' = [pos EXCEPT ![pid] = entry] /\ pos' \in [Pid -> Position]
BY DEF TypeOK, task_create, Table, Slot, TaskState

LEMMA BootIInv == IInv /\ (CreateMain \/ WaitForTick \/ OtherInterrupt) => IInv'
<1> SUFFICES ASSUME IInv, CreateMain \/ WaitForTick \/ OtherInterrupt PROVE IInv'
  OBVIOUS
<1>0. TypeOK /\ MainNeverLeaves
  BY DEF IInv
<1>1. CASE CreateMain
  <2>1. tasks = EmptyTable /\ current_task = 0 /\ boot' = "created"
        /\ UNCHANGED <<current_task, finalize, interrupts>>
    BY <1>0, <1>1 DEF CreateMain, MainNeverLeaves
  <2>2. tasks[MAIN] = "none" /\ task_create(MAIN, "create")
    BY <1>1, <2>1, MainIsFirst, MainIsPid DEF CreateMain, EmptyTable
  <2>3. /\ tasks' = [tasks EXCEPT ![MAIN] = "running"]
        /\ tasks' \in Table /\ ticks' \in [Pid -> Ticks]
        /\ cpu' = [cpu EXCEPT ![MAIN] = "create"] /\ cpu' \in [Pid -> Position]
        /\ pos' = [pos EXCEPT ![MAIN] = "create"] /\ pos' \in [Pid -> Position]
    BY <1>0, <2>2, MainIsPid, CreateFacts DEF Position, MainPosition
  <2>4. TypeOK'
    BY <1>0, <2>1, <2>3 DEF TypeOK
  <2>5. tasks'[MAIN] = "running" /\ pos'[MAIN] = "create" /\ cpu'[MAIN] = "create"
    BY <1>0, <2>3, MainIsPid DEF TypeOK, Table
  <2>6. Running' = {MAIN}
    BY <1>0, <2>1, <2>3, MainIsPid DEF TypeOK, Table, EmptyTable, Running, InState
  <2>7. interrupts
    BY <1>1, <2>2, MainIsPid DEF CreateMain, IInv, StaysPreemptible
  <2> QED
    BY <2>1, <2>4, <2>5, <2>6, <2>7 DEF IInv, MainNeverLeaves, FinalizeTargetIsTask,
      CurrentTaskRuns, ResumesWhereLeft, FinalizeTargetStopped, StaysPreemptible
<1>2. CASE WaitForTick
  BY <1>0, <1>2 DEF WaitForTick, IInv, TypeOK, MainNeverLeaves, FinalizeTargetIsTask,
    CurrentTaskRuns, ResumesWhereLeft, FinalizeTargetStopped, StaysPreemptible, Running
<1>3. CASE OtherInterrupt
  BY <1>0, <1>3 DEF OtherInterrupt, IInv, TypeOK, MainNeverLeaves, FinalizeTargetIsTask,
    CurrentTaskRuns, ResumesWhereLeft, FinalizeTargetStopped, StaysPreemptible, Running
<1> QED
  BY <1>1, <1>2, <1>3

LEMMA CreateTaskIInv == IInv /\ CreateTask => IInv'
<1> SUFFICES ASSUME IInv, CreateTask PROVE IInv'
  OBVIOUS
<1>0. TypeOK /\ MainNeverLeaves /\ CurrentTaskRuns /\ ResumesWhereLeft
      /\ current_task = MAIN /\ pos[MAIN] = "create" /\ tasks[MAIN] = "running"
      /\ boot = "abandoned" /\ StaysPreemptible
      /\ UNCHANGED <<current_task, finalize, boot>>
  BY MainIsPid DEF IInv, CreateTask, MainAt, CurrentTaskRuns, MainNeverLeaves
<1>1. ASSUME LowestFreePid(tasks) # MAX_TASKS, task_create(LowestFreePid(tasks), "entry"),
             UNCHANGED interrupts
      PROVE  IInv'
  <2> DEFINE pid == LowestFreePid(tasks)
  <2>1. pid \in Pid /\ tasks[pid] = "none" /\ pid # MAIN
    BY <1>0, <1>1, LowestFreePidIsFree DEF TypeOK
  <2>2. /\ tasks' = [tasks EXCEPT ![pid] = "running"]
        /\ tasks' \in Table /\ ticks' \in [Pid -> Ticks]
        /\ cpu' = [cpu EXCEPT ![pid] = "entry"] /\ cpu' \in [Pid -> Position]
        /\ pos' = [pos EXCEPT ![pid] = "entry"] /\ pos' \in [Pid -> Position]
    BY <1>0, <1>1, <2>1, CreateFacts DEF Position, UserPosition
  <2>3. TypeOK'
    BY <1>0, <1>1, <2>2 DEF TypeOK
  <2>4. tasks'[MAIN] = "running" /\ pos'[MAIN] = "create"
    BY <1>0, <2>1, <2>2, MainIsPid DEF TypeOK, Table
  <2>5. \A p \in Running' \ {current_task} : cpu'[p] = pos'[p]
    BY <1>0, <2>1, <2>2 DEF TypeOK, Table, Running, InState, ResumesWhereLeft
  <2>6. interrupts
    BY <1>0 DEF StaysPreemptible
  <2> QED
    BY <1>0, <1>1, <2>3, <2>4, <2>5, <2>6 DEF IInv, MainNeverLeaves, FinalizeTargetIsTask,
      CurrentTaskRuns, ResumesWhereLeft, FinalizeTargetStopped, StaysPreemptible
<1>2. ASSUME MoveMain("halted"), interrupts' = FALSE, UNCHANGED <<tasks, ticks, cpu>>
      PROVE  IInv'
  <2>1. pos' = [pos EXCEPT ![MAIN] = "halted"] /\ pos' \in [Pid -> Position]
    BY <1>0, <1>2 DEF MoveMain, TypeOK, Position, MainPosition
  <2>2. TypeOK' /\ pos'[MAIN] = "halted"
    BY <1>0, <1>2, <2>1, MainIsPid DEF TypeOK
  <2> QED
    BY <1>0, <1>2, <2>1, <2>2 DEF IInv, MainNeverLeaves, FinalizeTargetIsTask,
      CurrentTaskRuns, ResumesWhereLeft, FinalizeTargetStopped, StaysPreemptible, Running,
      InState, TypeOK
<1> QED
  BY <1>1, <1>2 DEF CreateTask

(* The steps of the main task that change nothing but its position and,    *)
(* while it finalizes, its local variables.                                *)
LEMMA MainStepIInv ==
  ASSUME IInv, current_task = MAIN, NEW to \in MainPosition, MoveMain(to),
         to = "halted" \/ UNCHANGED interrupts, interrupts' \in BOOLEAN,
         pos[MAIN] # "halted",
         finalize' \in [pid : Pid \union {0}, pids : 0 .. MAX_TASKS],
         to = "destroy" => finalize'.pid \in Pid /\ tasks[finalize'.pid] = "stopped",
         UNCHANGED <<tasks, ticks, cpu, current_task, boot>>
  PROVE  IInv'
<1>0. TypeOK /\ MainNeverLeaves /\ CurrentTaskRuns /\ ResumesWhereLeft /\ StaysPreemptible
      /\ tasks[MAIN] = "running" /\ boot = "abandoned"
  BY MainIsPid DEF IInv, CurrentTaskRuns, MainNeverLeaves
<1>1. pos' = [pos EXCEPT ![MAIN] = to] /\ pos' \in [Pid -> Position]
  BY <1>0 DEF MoveMain, TypeOK, Position
<1>2. TypeOK' /\ pos'[MAIN] = to
  BY <1>0, <1>1, MainIsPid DEF TypeOK
<1>3. interrupts
  BY <1>0 DEF StaysPreemptible
<1>4. ResumesWhereLeft'
  BY <1>0, <1>1 DEF ResumesWhereLeft, Running, InState, TypeOK
<1> QED
  BY <1>0, <1>1, <1>2, <1>3, <1>4 DEF IInv, MainNeverLeaves, FinalizeTargetIsTask,
    CurrentTaskRuns, FinalizeTargetStopped, StaysPreemptible

LEMMA MainIInv ==
  IInv /\ (EnterLoop \/ Shutdown \/ StartFinalize \/ VisitTask \/ WakeUp) => IInv'
<1> SUFFICES ASSUME IInv, EnterLoop \/ Shutdown \/ StartFinalize \/ VisitTask \/ WakeUp
             PROVE  IInv'
  OBVIOUS
<1>0. /\ finalize \in [pid : Pid \union {0}, pids : 0 .. MAX_TASKS]
      /\ interrupts \in BOOLEAN
      /\ MAX_TASKS \in Nat
  BY MaxTasksAssumption DEF IInv, TypeOK
<1>1. CASE EnterLoop
  BY <1>0, <1>1, MainStepIInv DEF EnterLoop, MainAt, MainPosition
<1>2. CASE Shutdown
  BY <1>0, <1>2, MainStepIInv DEF Shutdown, MainAt, MainPosition
<1>3. CASE StartFinalize
  BY <1>0, <1>3, MainStepIInv DEF StartFinalize, MainAt, MainPosition
<1>4. CASE VisitTask
  <2> DEFINE pid == NextTask(tasks, finalize.pid)
  <2>1. CASE finalize.pids = MAX_TASKS \/ pid = 0
    BY <1>0, <1>4, <2>1, MainStepIInv DEF VisitTask, MainAt, MainPosition
  <2>2. CASE ~ (finalize.pids = MAX_TASKS \/ pid = 0)
    <3>1. pid \in Pid
      BY <1>0, <2>2, FirstAfterIsFirst DEF NextTask, Occupied, FirstAfter
    <3>2. /\ finalize' = [pid |-> pid, pids |-> finalize.pids + 1]
          /\ MoveMain(IF tasks[pid] = "stopped" THEN "destroy" ELSE "scan")
          /\ MainAt("scan")
          /\ UNCHANGED <<tasks, ticks, cpu, current_task, boot, interrupts>>
      BY <1>4, <2>2 DEF VisitTask
    <3>3. finalize' \in [pid : Pid \union {0}, pids : 0 .. MAX_TASKS]
      BY <1>0, <2>2, <3>1, <3>2
    <3>4. CASE tasks[pid] = "stopped"
      BY <1>0, <3>1, <3>2, <3>3, <3>4, MainStepIInv DEF MainAt, MainPosition
    <3>5. CASE tasks[pid] # "stopped"
      BY <1>0, <3>1, <3>2, <3>3, <3>5, MainStepIInv DEF MainAt, MainPosition
    <3> QED
      BY <3>4, <3>5
  <2> QED
    BY <2>1, <2>2
<1>5. CASE WakeUp
  BY <1>0, <1>5, MainStepIInv DEF WakeUp, MainAt, MainPosition
<1> QED
  BY <1>1, <1>2, <1>3, <1>4, <1>5

LEMMA DestroyIInv == IInv /\ DestroyTask => IInv'
<1> SUFFICES ASSUME IInv, DestroyTask PROVE IInv'
  OBVIOUS
<1>0. TypeOK /\ MainNeverLeaves /\ CurrentTaskRuns /\ ResumesWhereLeft /\ StaysPreemptible
      /\ current_task = MAIN /\ pos[MAIN] = "destroy" /\ tasks[MAIN] = "running"
      /\ boot = "abandoned" /\ UNCHANGED <<ticks, cpu, current_task, boot>>
  BY MainIsPid DEF IInv, DestroyTask, MainAt, CurrentTaskRuns, MainNeverLeaves
<1>1. finalize.pid \in Pid /\ tasks[finalize.pid] = "stopped" /\ finalize.pid # MAIN
  BY <1>0 DEF IInv, FinalizeTargetStopped, FinalizeTargetIsTask
<1>2. /\ tasks' = [tasks EXCEPT ![finalize.pid] = "none"] /\ UNCHANGED interrupts
      /\ finalize' = [finalize EXCEPT !.pids = 0]
      /\ pos' = [pos EXCEPT ![MAIN] = "scan"]
  BY <1>1 DEF DestroyTask, MoveMain
<1>3. TypeOK'
  <2>1. tasks' \in Table
    BY <1>0, <1>2 DEF TypeOK, Table, Slot
  <2>2. finalize' \in [pid : Pid \union {0}, pids : 0 .. MAX_TASKS]
    BY <1>0, <1>2, MaxTasksAssumption DEF TypeOK
  <2>3. pos' \in [Pid -> Position]
    BY <1>0, <1>2 DEF TypeOK, Position, MainPosition
  <2> QED
    BY <1>0, <1>2, <2>1, <2>2, <2>3 DEF TypeOK
<1>4. tasks'[MAIN] = "running" /\ pos'[MAIN] = "scan"
  BY <1>0, <1>1, <1>2, MainIsPid DEF TypeOK, Table
<1>5. ResumesWhereLeft'
  BY <1>0, <1>1, <1>2 DEF ResumesWhereLeft, Running, InState, TypeOK, Table
<1>6. interrupts
  BY <1>0 DEF StaysPreemptible
<1> QED
  BY <1>0, <1>2, <1>3, <1>4, <1>5, <1>6 DEF IInv, MainNeverLeaves, FinalizeTargetIsTask,
    CurrentTaskRuns, FinalizeTargetStopped, StaysPreemptible

LEMMA RunTaskIInv == ASSUME IInv, NEW p \in Pid, RunTask(p) PROVE IInv'
<1>0. TypeOK /\ MainNeverLeaves /\ ResumesWhereLeft
      /\ current_task = p /\ p # MAIN
      /\ UNCHANGED <<tasks, ticks, cpu, current_task, finalize, boot, interrupts>>
  BY DEF IInv, RunTask
<1>1. pos' = [pos EXCEPT ![p] = IF pos[p] = "entry" THEN "body" ELSE "entry"]
  BY DEF RunTask
<1>2. TypeOK' /\ pos'[MAIN] = pos[MAIN]
  BY <1>0, <1>1, MainIsPid DEF TypeOK, Position, UserPosition
<1>3. ResumesWhereLeft'
  BY <1>0, <1>1 DEF ResumesWhereLeft, Running, InState, TypeOK
<1> QED
  BY <1>0, <1>2, <1>3 DEF IInv, MainNeverLeaves, FinalizeTargetIsTask,
    CurrentTaskRuns, FinalizeTargetStopped, StaysPreemptible

LEMMA ExitTaskIInv == ASSUME IInv, NEW p \in Pid, ExitTask(p) PROVE IInv'
<1> DEFINE next == schedule_get_next_task
<1>0. TypeOK /\ MainNeverLeaves /\ ResumesWhereLeft /\ CurrentTaskRuns
      /\ current_task = p /\ p # MAIN /\ p # 0
      /\ boot = "abandoned" /\ tasks[MAIN] = "running" /\ tasks[p] = "running"
      /\ UNCHANGED <<finalize, boot, interrupts>>
  BY MainIsPid DEF IInv, ExitTask, MainNeverLeaves, CurrentTaskRuns
<1>1. MAIN \in Running \ {current_task}
  BY <1>0, MainIsPid DEF Running, InState
<1>2. next \in Running /\ next \in Pid /\ next # p
  BY <1>0, <1>1, NextIsRunning
<1>3. /\ tasks' = [tasks EXCEPT ![p] = "stopped"]
      /\ ticks' = [ticks EXCEPT ![next] = TicksPerTimeSlice]
      /\ cpu' = cpu
      /\ pos' = [pos EXCEPT ![next] = cpu[next]]
      /\ current_task' = next
  BY DEF ExitTask, schedule_switch_task
<1>4. TypeOK'
  BY <1>0, <1>2, <1>3, TicksFacts DEF TypeOK, Table, Slot, TaskState
<1>5. \A q \in Running \ {p} : cpu[q] = pos[q]
  BY <1>0 DEF ResumesWhereLeft
<1>6. Running' = Running \ {p}
  BY <1>0, <1>3 DEF Running, InState, TypeOK, Table
<1>7. tasks'[MAIN] = "running" /\ pos'[MAIN] = pos[MAIN] /\ tasks'[next] = "running"
  BY <1>0, <1>1, <1>2, <1>3, <1>5, MainIsPid DEF TypeOK, Table, Running, InState
<1>8. ResumesWhereLeft'
  BY <1>0, <1>2, <1>3, <1>5, <1>6 DEF ResumesWhereLeft, TypeOK
<1>9. FinalizeTargetIsTask' /\ FinalizeTargetStopped'
  <2>1. pos[MAIN] = "destroy" => finalize.pid \in Pid /\ tasks[finalize.pid] = "stopped"
    BY <1>0 DEF IInv, FinalizeTargetIsTask, FinalizeTargetStopped
  <2> QED
    BY <2>1, <1>0, <1>3, <1>7 DEF FinalizeTargetIsTask, FinalizeTargetStopped, TypeOK, Table
<1> QED
  BY <1>0, <1>3, <1>4, <1>7, <1>8, <1>9
  DEF IInv, MainNeverLeaves, CurrentTaskRuns, StaysPreemptible

LEMMA NextIInv == IInv /\ [Next]_vars => IInv'
<1> SUFFICES ASSUME IInv, [Next]_vars PROVE IInv'
  OBVIOUS
<1>1. CASE Tick
  BY <1>1, TickIInv
<1>2. CASE CreateMain \/ WaitForTick \/ OtherInterrupt
  BY <1>2, BootIInv
<1>3. CASE CreateTask
  BY <1>3, CreateTaskIInv
<1>4. CASE EnterLoop \/ Shutdown \/ StartFinalize \/ VisitTask \/ WakeUp
  BY <1>4, MainIInv
<1>5. CASE DestroyTask
  BY <1>5, DestroyIInv
<1>6. ASSUME NEW p \in Pid, RunTask(p) PROVE IInv'
  BY <1>6, RunTaskIInv
<1>7. ASSUME NEW p \in Pid, ExitTask(p) PROVE IInv'
  BY <1>7, ExitTaskIInv
<1>8. CASE UNCHANGED vars
  BY <1>8 DEF vars, IInv, TypeOK, MainNeverLeaves, FinalizeTargetIsTask, CurrentTaskRuns,
    ResumesWhereLeft, FinalizeTargetStopped, StaysPreemptible, Running
<1> QED
  BY <1>1, <1>2, <1>3, <1>4, <1>5, <1>6, <1>7, <1>8 DEF Next, ThreadStep

THEOREM Invariant == Spec => []IInv
BY InitIInv, NextIInv, PTL DEF Spec

-----------------------------------------------------------------------------
(* Types, for every instance of the scheduler.                             *)
THEOREM TypeCorrect == Spec => []TypeOK
<1>1. IInv => TypeOK
  BY DEF IInv
<1> QED
  BY Invariant, <1>1, PTL

(* The processor never executes a task that has stopped or been destroyed. *)
THEOREM NeverRunsAStoppedTask == Spec => []CurrentTaskRuns
<1>1. IInv => CurrentTaskRuns
  BY DEF IInv
<1> QED
  BY Invariant, <1>1, PTL

(* No switch loses or repeats a part of a task.                            *)
THEOREM SwitchesAreTransparent == Spec => []ResumesWhereLeft
<1>1. IInv => ResumesWhereLeft
  BY DEF IInv
<1> QED
  BY Invariant, <1>1, PTL

(* The finalizer destroys stopped tasks only.                              *)
THEOREM FinalizesStoppedTasks == Spec => []FinalizeTargetStopped
<1>1. IInv => FinalizeTargetStopped
  BY DEF IInv
<1> QED
  BY Invariant, <1>1, PTL

(* Interrupts stay on until the machine is halted.                         *)
THEOREM KeepsInterruptsOn == Spec => []StaysPreemptible
<1>1. IInv => StaysPreemptible
  BY DEF IInv
<1> QED
  BY Invariant, <1>1, PTL

-----------------------------------------------------------------------------
(* Going around.                                                           *)

(* Every pid that had the processor since p last had it lies, seen from p, *)
(* not behind the current task: the turn goes around without overtaking.   *)
NotYetAround ==
  \A p \in Pid :
    IF p \in Running /\ p # current_task /\ current_task # 0
    THEN \A q \in servedSince[p] : Distance(p, q) <= Distance(p, current_task)
    ELSE servedSince[p] = {}

HIInv == IInv /\ servedSince \in [Pid -> SUBSET Pid] /\ NotYetAround

-----------------------------------------------------------------------------
(* Between c and p there is room for n only if n comes first from c.       *)
LEMMA GoingAround ==
  ASSUME NEW p \in Pid, NEW c \in Pid, NEW n \in Pid, p # c, p # n,
         Distance(c, n) <= Distance(c, p)
  PROVE  n # c => Distance(p, c) < Distance(p, n)
BY MaxTasksAssumption DEF Distance, Pid

(* A step that switches goes to the first task behind the current one, and *)
(* adds nobody.                                                            *)
LEMMA StepSwitches ==
  ASSUME IInv, Next, Switched
  PROVE  /\ current_task' = FirstAfter(Running, current_task)
         /\ Running # {} /\ Running' \subseteq Running
         /\ current_task' \in Running
<1>0. TypeOK /\ CurrentTaskRuns
  BY DEF IInv
<1>n. schedule_get_next_task = FirstAfter(Running, current_task)
  BY DEF schedule_get_next_task, NextTaskWithState, Running
<1>1. CASE Tick
  <2>1. tasks' = tasks /\ Running # {}
    BY <1>1, NoNext DEF Tick
  <2>2. current_task' = schedule_get_next_task
    BY <1>1 DEF Tick, KeepRunning, RunAlone, Preempt, InitialSwitch, schedule_switch_task, Switched
  <2> QED
    BY <1>0, <1>n, <2>1, <2>2, NextIsRunning DEF Running
<1>2. ASSUME NEW p \in Pid, ExitTask(p)
      PROVE  /\ current_task' = FirstAfter(Running, current_task)
             /\ Running # {} /\ Running' \subseteq Running
             /\ current_task' \in Running
  <2>1. current_task' = schedule_get_next_task /\ current_task = p
        /\ tasks' = [tasks EXCEPT ![p] = "stopped"]
    BY <1>2 DEF ExitTask, schedule_switch_task
  <2>2. p \in Running
    BY <1>0, <2>1, MainIsPid DEF CurrentTaskRuns, Running, InState
  <2>3. Running' \subseteq Running
    BY <1>0, <2>1 DEF Running, InState, TypeOK, Table
  <2> QED
    BY <1>0, <1>n, <2>1, <2>2, <2>3, NextIsRunning
<1> QED
  BY <1>1, <1>2 DEF Next, ThreadStep, CreateMain, WaitForTick, OtherInterrupt, CreateTask,
    EnterLoop, Shutdown, StartFinalize, VisitTask, DestroyTask, WakeUp, RunTask, Switched

(* The step of a switch leaves those behind who were served.               *)
LEMMA SwitchPassesOn ==
  ASSUME HIInv, Next, Switched, NEW p \in Pid,
         p \in Running', p # current_task'
  PROVE  \A q \in servedSince[p] :
            current_task # 0 /\ Distance(p, q) < Distance(p, current_task')
<1>1. /\ current_task' = FirstAfter(Running, current_task)
      /\ p \in Running /\ current_task' \in Running
      /\ current_task' \in Pid /\ current_task \in Pid \union {0}
  BY StepSwitches, RunningIsPid DEF HIInv, IInv, TypeOK
<1>2. CASE current_task = 0 \/ p = current_task
  BY <1>2 DEF HIInv, NotYetAround
<1>3. CASE current_task # 0 /\ p # current_task
  <2>1. \A q \in servedSince[p] : Distance(p, q) <= Distance(p, current_task) /\ q \in Pid
    BY <1>1, <1>3 DEF HIInv, NotYetAround
  <2>2. Distance(current_task, current_task') <= Distance(current_task, p)
    BY <1>1, RunningIsPid, FirstAfterIsFirst
  <2>3. Distance(p, current_task) < Distance(p, current_task')
    BY <1>1, <1>3, <2>2, GoingAround DEF Switched
  <2>4. /\ Distance(p, current_task) \in Nat /\ Distance(p, current_task') \in Nat
        /\ \A q \in servedSince[p] : Distance(p, q) \in Nat
    BY <1>1, <1>3, <2>1, DistanceRange, MaxTasksAssumption
  <2> QED
    BY <1>3, <2>1, <2>3, <2>4
<1> QED
  BY <1>2, <1>3

-----------------------------------------------------------------------------
LEMMA HInitInv == HInit => HIInv
<1> SUFFICES ASSUME HInit PROVE HIInv
  OBVIOUS
<1>1. IInv
  BY InitIInv DEF HInit
<1>2. current_task = 0 /\ servedSince = [p \in Pid |-> {}]
  BY DEF HInit, Init
<1> QED
  BY <1>1, <1>2 DEF HIInv, NotYetAround

LEMMA HNextInv == HIInv /\ [HNext]_hvars => HIInv'
<1> SUFFICES ASSUME HIInv, [HNext]_hvars PROVE HIInv'
  OBVIOUS
<1>0. IInv /\ servedSince \in [Pid -> SUBSET Pid] /\ NotYetAround
  BY DEF HIInv
<1>1. CASE HNext
  <2>1. Next /\ ObserveService
    BY <1>1 DEF HNext, Next
  <2>2. IInv'
    BY <1>0, <2>1, NextIInv
  <2>3. servedSince' \in [Pid -> SUBSET Pid]
    <3>1. current_task' \in Pid \/ ~ Switched
      BY <1>0, <2>1, StepSwitches, RunningIsPid
    <3> QED
      BY <1>0, <2>1, <3>1 DEF ObserveService
  <2>4. ASSUME NEW p \in Pid
        PROVE  IF p \in Running' /\ p # current_task' /\ current_task' # 0
               THEN \A q \in servedSince'[p] : Distance(p, q) <= Distance(p, current_task')
               ELSE servedSince'[p] = {}
    <3>1. servedSince'[p] =
            IF p = current_task' \/ tasks'[p] # "running" THEN {}
            ELSE IF Switched THEN servedSince[p] \union {current_task'}
            ELSE servedSince[p]
      BY <2>1 DEF ObserveService
    <3>2. CASE p = current_task' \/ tasks'[p] # "running"
      BY <3>1, <3>2 DEF Running, InState
    <3>3. CASE p # current_task' /\ tasks'[p] = "running" /\ Switched
      <4>1. p \in Running' /\ servedSince'[p] = servedSince[p] \union {current_task'}
        BY <3>1, <3>3 DEF Running, InState
      <4>2. current_task' \in Pid /\ current_task' # 0
        BY <1>0, <2>1, <3>3, StepSwitches, RunningIsPid, MainIsPid
      <4>3. \A q \in servedSince[p] :
              current_task # 0 /\ Distance(p, q) < Distance(p, current_task')
        BY <2>1, <3>3, <4>1, SwitchPassesOn
      <4>4. Distance(p, current_task') \in Nat
            /\ \A q \in servedSince[p] : Distance(p, q) \in Nat
        BY <1>0, <4>2, DistanceRange, MaxTasksAssumption
      <4> QED
        BY <3>3, <4>1, <4>2, <4>3, <4>4
    <3>4. CASE p # current_task' /\ tasks'[p] = "running" /\ ~ Switched
      <4>1. servedSince'[p] = servedSince[p] /\ current_task' = current_task
        BY <3>1, <3>4 DEF Switched
      <4>2. IF p \in Running /\ p # current_task /\ current_task # 0
            THEN \A q \in servedSince[p] : Distance(p, q) <= Distance(p, current_task)
            ELSE servedSince[p] = {}
        BY <1>0 DEF NotYetAround
      <4> QED
        BY <3>4, <4>1, <4>2 DEF Running, InState
    <3> QED
      BY <3>2, <3>3, <3>4
  <2>5. NotYetAround'
    BY <2>4 DEF NotYetAround
  <2> QED
    BY <2>2, <2>3, <2>5 DEF HIInv
<1>2. CASE UNCHANGED hvars
  <2>1. UNCHANGED vars /\ servedSince' = servedSince
    BY <1>2 DEF hvars, historyVars
  <2>2. IInv'
    BY <1>0, <2>1, NextIInv
  <2> QED
    BY <1>0, <2>1, <2>2 DEF HIInv, NotYetAround, Running, vars
<1> QED
  BY <1>1, <1>2

(* No task is served twice while another one waits.                        *)
THEOREM NobodyIsBypassed == HSpec => NoBypass
<1> DEFINE Step == \A p \in Running \ {current_task, current_task'} :
       Switched /\ tasks'[p] = "running" => current_task' \notin servedSince[p]
<1>1. HIInv /\ [HNext]_hvars => [Step]_hvars
  <2> SUFFICES ASSUME HIInv, HNext, NEW p \in Running \ {current_task, current_task'},
                      Switched, tasks'[p] = "running"
               PROVE  current_task' \notin servedSince[p]
    OBVIOUS
  <2>1. Next /\ p \in Pid /\ p \in Running' /\ current_task' \in Pid
    BY StepSwitches, RunningIsPid DEF HNext, Next, Running, InState, HIInv
  <2>2. Distance(p, current_task') \in Nat
    BY <2>1, DistanceRange, MaxTasksAssumption
  <2> QED
    BY <2>1, <2>2, SwitchPassesOn
<1> QED
  BY HInitInv, HNextInv, <1>1, PTL DEF HSpec, NoBypass

-----------------------------------------------------------------------------
(* The refinement of RoundRobin.                                           *)

LEMMA SameFirstAfter ==
  \A S, c : RR!FirstAfter(S, c) = FirstAfter(S, c)
BY DEF RR!FirstAfter, FirstAfter, RR!Distance, Distance

LEMMA InitRefines == Init => RR!RRInit
BY DEF Init, RR!RRInit, EmptyTable, Running, InState

\* Creating a task lets it join the circle.
LEMMA CreateJoins ==
  ASSUME IInv, NEW p \in Pid, tasks[p] = "none",
         tasks' = [tasks EXCEPT ![p] = "running"], current_task' = current_task
  PROVE  RR!RRNext
<1>1. p \notin Running /\ Running' = Running \union {p}
  BY DEF IInv, TypeOK, Table, Running, InState
<1> QED
  BY <1>1 DEF RR!RRNext, RR!Join, RR!Pid, Pid

LEMMA NextRefines == IInv /\ [Next]_vars => [RR!RRNext]_(RR!rrVars)
<1> SUFFICES ASSUME IInv, [Next]_vars PROVE RR!RRNext \/ UNCHANGED <<Running, current_task>>
  BY DEF RR!rrVars
<1>0. TypeOK /\ CurrentTaskRuns /\ MainNeverLeaves
  BY DEF IInv
<1>1. CASE Tick
  <2>1. UNCHANGED Running
    BY <1>1 DEF Tick, Running
  <2>2. CASE current_task' = current_task
    BY <2>1, <2>2
  <2>3. CASE current_task' # current_task
    <3>1. current_task' = FirstAfter(Running, current_task) /\ Running # {}
      BY <1>1, <2>3, StepSwitches DEF Next, Switched
    <3> QED
      BY <2>1, <3>1, SameFirstAfter DEF RR!RRNext, RR!Pass
  <2> QED
    BY <2>2, <2>3
<1>2. CASE CreateMain
  <2>1. tasks = EmptyTable /\ current_task' = current_task
    BY <1>0, <1>2 DEF CreateMain, MainNeverLeaves
  <2>2. tasks[MAIN] = "none" /\ tasks' = [tasks EXCEPT ![MAIN] = "running"]
    BY <1>2, <2>1, MainIsFirst, MainIsPid DEF CreateMain, EmptyTable, task_create
  <2> QED
    BY <2>1, <2>2, MainIsPid, CreateJoins
<1>3. CASE CreateTask
  <2>1. CASE LowestFreePid(tasks) = MAX_TASKS
    BY <1>3, <2>1 DEF CreateTask, Running
  <2>2. CASE LowestFreePid(tasks) # MAX_TASKS
    <3>1. /\ LowestFreePid(tasks) \in Pid /\ tasks[LowestFreePid(tasks)] = "none"
      BY <1>0, <2>2, LowestFreePidIsFree DEF TypeOK
    <3>2. /\ tasks' = [tasks EXCEPT ![LowestFreePid(tasks)] = "running"]
          /\ current_task' = current_task
      BY <1>3, <2>2 DEF CreateTask, task_create
    <3> QED
      BY <3>1, <3>2, CreateJoins
  <2> QED
    BY <2>1, <2>2
<1>4. CASE DestroyTask
  <2>1. current_task' = current_task
    BY <1>4 DEF DestroyTask
  <2>2. \/ UNCHANGED tasks
        \/ tasks' = [tasks EXCEPT ![finalize.pid] = "none"] /\ tasks[finalize.pid] # "running"
    BY <1>4 DEF DestroyTask
  <2>3. UNCHANGED Running
    BY <1>0, <2>2 DEF Running, InState, TypeOK, Table
  <2> QED
    BY <2>1, <2>3
<1>5. ASSUME NEW p \in Pid, ExitTask(p) PROVE RR!RRNext
  <2>1. /\ current_task' = FirstAfter(Running, current_task)
        /\ current_task = p /\ p # MAIN /\ current_task # 0
        /\ tasks' = [tasks EXCEPT ![p] = "stopped"]
        /\ tasks[p] = "running"
    BY <1>0, <1>5, MainIsPid DEF ExitTask, schedule_switch_task, schedule_get_next_task,
      NextTaskWithState, Running, CurrentTaskRuns
  <2>2. MAIN \in Running \ {current_task} /\ Running' = Running \ {current_task}
    BY <1>0, <2>1, MainIsPid DEF MainNeverLeaves, Running, InState, TypeOK, Table
  <2>3. FirstAfter(Running, current_task) \in Running \ {current_task}
    BY <1>5, <2>1, <2>2, RunningIsPid, FirstAfterMoves
  <2>4. FirstAfter(Running \ {current_task}, current_task) = FirstAfter(Running, current_task)
    BY <1>5, <2>1, <2>3, RunningIsPid, FirstAfterOfSubset
  <2> QED
    BY <2>1, <2>2, <2>4, SameFirstAfter DEF RR!RRNext, RR!Leave
<1>6. CASE \/ WaitForTick \/ OtherInterrupt \/ EnterLoop \/ Shutdown \/ StartFinalize
           \/ VisitTask \/ WakeUp \/ (\E p \in Pid : RunTask(p)) \/ UNCHANGED vars
  BY <1>6 DEF WaitForTick, OtherInterrupt, EnterLoop, Shutdown, StartFinalize, VisitTask,
    WakeUp, RunTask, vars, Running
<1> QED
  BY <1>1, <1>2, <1>3, <1>4, <1>5, <1>6 DEF Next, ThreadStep

(* Every behaviour of the scheduler is a round robin of the tasks that can *)
(* run.                                                                    *)
THEOREM SchedulerRefinesRoundRobin == HSpec => ImplementsRoundRobin
<1>1. HInit => Init
  BY DEF HInit
<1>2. [HNext]_hvars => [Next]_vars
  BY DEF HNext, Next, hvars
<1> QED
  BY InitRefines, NextRefines, InitIInv, NextIInv, <1>1, <1>2, PTL
  DEF HSpec, ImplementsRoundRobin, RR!RRSpec

-----------------------------------------------------------------------------
(* The monitor of virtual 8086 tasks (module Vm86).  The stack segment     *)
(* stays a multiple of 64 KiB, and of such a segment the way through a     *)
(* linear address back to a far pointer is the identity.                   *)

StackNormal == ss % 4096 = 0

Vm86IInv == Vm86TypeOK /\ StackNormal

-----------------------------------------------------------------------------
(* Far pointers in the segments the monitor chooses are returned unchanged. *)
LEMMA FarptrOfAddress ==
  ASSUME NEW segment \in Nat, segment < 65536, segment % 4096 = 0,
         NEW offset \in Nat, offset < 65536
  PROVE  vm86_get_farptr(vm86_get_address(segment, offset))
           = [segment |-> segment, offset |-> offset]
<1> DEFINE k == segment \div 4096
<1> DEFINE addr == 65536 * k + offset
<1>1. k \in 0 .. 15 /\ segment = 4096 * k
  OBVIOUS
<1>2. vm86_get_address(segment, offset) = addr
  BY <1>1 DEF vm86_get_address
<1> HIDE DEF k
<1>3. addr < 1048576 /\ addr \in Nat /\ addr % 65536 = offset
  <2>1. k \in Int /\ 0 <= k /\ k <= 15 /\ offset \in Int /\ 0 <= offset /\ offset <= 65535
    BY <1>1
  <2>2. addr \in Nat /\ addr < 1048576
    BY <2>1
  <2>3. addr % 65536 = offset
    BY <2>1, Z3
  <2> QED
    BY <2>2, <2>3
<1>4. (addr - (addr % 65536)) \div 16 = 4096 * k
  BY <1>1, <1>3
<1> QED
  BY <1>1, <1>2, <1>3, <1>4 DEF vm86_get_farptr, W, MULTIBOOT_LOWER_MEMORY

(* Moving a far pointer inside its segment moves the offset.               *)
LEMMA FarptrMoved ==
  ASSUME NEW segment \in Nat, segment < 65536, segment % 4096 = 0,
         NEW offset \in Nat, NEW d \in Int, offset + d >= 0, offset + d < 65536
  PROVE  vm86_get_farptr(vm86_get_address(segment, offset) + d)
           = [segment |-> segment, offset |-> offset + d]
<1>1. vm86_get_address(segment, offset) + d = vm86_get_address(segment, offset + d)
  BY DEF vm86_get_address
<1>2. offset + d \in Nat
  OBVIOUS
<1>3. vm86_get_farptr(vm86_get_address(segment, offset + d))
        = [segment |-> segment, offset |-> offset + d]
  BY <1>2, FarptrOfAddress
<1> QED
  BY <1>1, <1>3

(* A state is its five parts.                                              *)
LEMMA StateParts ==
  ASSUME NEW c, NEW i, NEW s, NEW p, NEW m
  PROVE  /\ State(c, i, s, p, m).cs = c
         /\ State(c, i, s, p, m).ip = i
         /\ State(c, i, s, p, m).ss = s
         /\ State(c, i, s, p, m).sp = p
         /\ State(c, i, s, p, m).memory = m
BY DEF State

(* The emulated PUSH, POP and end of an instruction do what the processor  *)
(* does, as long as they stay inside their segments.                       *)
LEMMA PushMoves ==
  ASSUME NEW c, NEW i, NEW m, NEW value,
         NEW s \in Nat, s < 65536, s % 4096 = 0,
         NEW p \in Nat, p < 65536, p >= 2
  PROVE  vm86_push(State(c, i, s, p, m), value)
           = State(c, i, s, p - 2, [m EXCEPT ![vm86_get_address(s, p) - 2] = value])
<1>1. vm86_get_farptr(vm86_get_address(s, p) + (-2)) = [segment |-> s, offset |-> p + (-2)]
  BY FarptrMoved
<1>2. /\ vm86_get_address(s, p) + (-2) = vm86_get_address(s, p) - 2
      /\ p + (-2) = p - 2
  BY DEF vm86_get_address
<1>3. vm86_get_farptr(vm86_get_address(s, p) - 2) = [segment |-> s, offset |-> p - 2]
  BY <1>1, <1>2
<1> QED
  BY <1>3, StateParts DEF vm86_push, StackTop, WithStack

(* Popping moves the stack pointer and leaves the memory alone.            *)
LEMMA PopMoves ==
  ASSUME NEW c, NEW i, NEW m,
         NEW s \in Nat, s < 65536, s % 4096 = 0,
         NEW p \in Nat, p + 2 < 65536
  PROVE  vm86_pop(State(c, i, s, p, m)) = State(c, i, s, p + 2, m)
<1>1. vm86_get_farptr(vm86_get_address(s, p) + 2) = [segment |-> s, offset |-> p + 2]
  BY FarptrMoved
<1> QED
  BY <1>1, StateParts DEF vm86_pop, StackTop, WithStack

(* An increment of the instruction pointer stays in the code segment.      *)
LEMMA IncrementMoves ==
  ASSUME NEW s, NEW p, NEW m,
         NEW c \in Nat, c < 65536, c % 4096 = 0,
         NEW i \in Nat, NEW inc \in Nat, i + inc < 65536
  PROVE  vm86_increment_eip(State(c, i, s, p, m), inc) = State(c, i + inc, s, p, m)
<1>1. vm86_get_farptr(vm86_get_address(c, i) + inc) = [segment |-> c, offset |-> i + inc]
  BY FarptrMoved
<1> QED
  BY <1>1, StateParts DEF vm86_increment_eip, WithCode

-----------------------------------------------------------------------------
(* The registers as numbers, for the lemmas above.                         *)
LEMMA Registers ==
  ASSUME Vm86IInv
  PROVE  /\ cs \in Nat /\ cs < 65536 /\ ip \in Nat /\ ip < 65536
         /\ ss \in Nat /\ ss < 65536 /\ ss % 4096 = 0
         /\ sp \in Nat /\ sp < 65536
<1>1. cs \in Cpu!Offset /\ ip \in Cpu!Offset /\ ss \in Cpu!Offset /\ sp \in Cpu!Offset
  BY DEF Vm86IInv, Vm86TypeOK
<1>2. ASSUME NEW x \in Cpu!Offset
      PROVE  x \in Nat /\ x < 65536
  BY DEF Cpu!Offset, Cpu!W
<1>3. ss % 4096 = 0
  BY DEF Vm86IInv, StackNormal
<1> QED
  BY <1>1, <1>2, <1>3

(* Code that runs lies in a multiple of 64 KiB, not at the end of it.       *)
LEMMA Fetched ==
  ASSUME Vm86IInv, NEW i, Cpu!Fetch(i)
  PROVE  cs % 4096 = 0 /\ ip + 4 < 65536
<1>1. cs \in Segments /\ ip < 65536 - 4
  BY DEF Cpu!Fetch, Cpu!W
<1>2. \A s \in Segments : s % 4096 = 0
  BY SegmentsAssumption
<1>3. ip + 4 < 65536
  BY <1>1, Registers
<1> QED
  BY <1>1, <1>2, <1>3

(* Monitor and processor agree where the top of the stack is.              *)
LEMMA SameTop == Cpu!Top = vm86_get_address(ss, sp)
BY DEF Cpu!Top, Cpu!Linear, vm86_get_address

\* What a state that Become takes leaves in the variables.
LEMMA BecomeParts ==
  ASSUME NEW c, NEW i, NEW s, NEW p, NEW m, Become(State(c, i, s, p, m))
  PROVE  cs' = c /\ ip' = i /\ ss' = s /\ sp' = p /\ memory' = m
BY StateParts DEF Become

-----------------------------------------------------------------------------
(* Instruction by instruction, the monitor does what an 8086 does.         *)
LEMMA PushfRefines ==
  ASSUME Vm86IInv, NEW i, Cpu!Fetch(i), Cpu!RoomFor(1), Pushf
  PROVE  Cpu!Pushf
<1>1. sp >= 2
  BY Registers DEF Cpu!RoomFor
<1>2. vm86_push(Task, FLAGS)
        = State(cs, ip, ss, sp - 2, [memory EXCEPT ![vm86_get_address(ss, sp) - 2] = FLAGS])
  BY <1>1, Registers, PushMoves DEF Task
<1>3. vm86_increment_eip(vm86_push(Task, FLAGS), 1)
        = State(cs, ip + 1, ss, sp - 2,
                [memory EXCEPT ![vm86_get_address(ss, sp) - 2] = FLAGS])
  BY <1>2, Registers, Fetched, IncrementMoves
<1>4. /\ cs' = cs /\ ip' = ip + 1 /\ ss' = ss /\ sp' = sp - 2
      /\ memory' = [memory EXCEPT ![vm86_get_address(ss, sp) - 2] = FLAGS]
  BY <1>3, BecomeParts DEF Pushf
<1> QED
  BY <1>4, SameTop DEF Cpu!Pushf, Cpu!PushWord, Cpu!GoOn

(* POPF drops one word.                                                    *)
LEMMA PopfRefines ==
  ASSUME Vm86IInv, NEW i, Cpu!Fetch(i), Cpu!Holds(1), Popf
  PROVE  Cpu!Popf
<1>1. sp + 2 < 65536
  BY Registers DEF Cpu!Holds, Cpu!W
<1>2. vm86_pop(Task) = State(cs, ip, ss, sp + 2, memory)
  BY <1>1, Registers, PopMoves DEF Task
<1>3. vm86_increment_eip(vm86_pop(Task), 1) = State(cs, ip + 1, ss, sp + 2, memory)
  BY <1>2, Registers, Fetched, IncrementMoves
<1>4. cs' = cs /\ ip' = ip + 1 /\ ss' = ss /\ sp' = sp + 2 /\ memory' = memory
  BY <1>3, BecomeParts DEF Popf
<1> QED
  BY <1>4 DEF Cpu!Popf, Cpu!Drop, Cpu!GoOn

(* CLI and STI only go on.                                                 *)
LEMMA CliStiRefines ==
  ASSUME Vm86IInv, NEW i, Cpu!Fetch(i), CliSti
  PROVE  Cpu!CliSti
<1>1. vm86_increment_eip(Task, 1) = State(cs, ip + 1, ss, sp, memory)
  BY Registers, Fetched, IncrementMoves DEF Task
<1>2. cs' = cs /\ ip' = ip + 1 /\ ss' = ss /\ sp' = sp /\ memory' = memory
  BY <1>1, BecomeParts DEF CliSti
<1> QED
  BY <1>2 DEF Cpu!CliSti, Cpu!GoOn

(* INT saves the flags and the address behind it, and jumps to its vector. *)
LEMMA IntRefines ==
  ASSUME Vm86IInv, NEW i, Cpu!Fetch(i), Cpu!RoomFor(3), IntN(i)
  PROVE  Cpu!IntN(i)
<1> DEFINE top == vm86_get_address(ss, sp)
           m1 == [memory EXCEPT ![top - 2] = FLAGS]
           m2 == [m1 EXCEPT ![top - 4] = cs]
           m3 == [m2 EXCEPT ![top - 6] = ip + 2]
<1>1. sp >= 6
  BY Registers DEF Cpu!RoomFor
<1>2. vm86_get_farptr(vm86_get_address(cs, ip) + 2) = [segment |-> cs, offset |-> ip + 2]
  BY Registers, Fetched, FarptrMoved
<1>3. /\ vm86_get_address(ss, sp - 2) - 2 = top - 4
      /\ vm86_get_address(ss, sp - 4) - 2 = top - 6
      /\ sp - 2 - 2 = sp - 4 /\ sp - 4 - 2 = sp - 6
  BY Registers DEF vm86_get_address
<1> HIDE DEF m1, m2, m3
<1>4. vm86_push(Task, FLAGS) = State(cs, ip, ss, sp - 2, m1)
  BY <1>1, Registers, PushMoves DEF Task, m1
<1>5. vm86_push(vm86_push(Task, FLAGS), cs) = State(cs, ip, ss, sp - 4, m2)
  <2>1. sp - 2 \in Nat /\ sp - 2 < 65536 /\ sp - 2 >= 2
    BY <1>1, Registers
  <2>2. vm86_push(State(cs, ip, ss, sp - 2, m1), cs)
          = State(cs, ip, ss, sp - 2 - 2,
                  [m1 EXCEPT ![vm86_get_address(ss, sp - 2) - 2] = cs])
    BY <2>1, Registers, PushMoves
  <2> QED
    BY <1>3, <1>4, <2>2 DEF m2
<1>6. vm86_push(vm86_push(vm86_push(Task, FLAGS), cs), ip + 2)
        = State(cs, ip, ss, sp - 6, m3)
  <2>1. sp - 4 \in Nat /\ sp - 4 < 65536 /\ sp - 4 >= 2
    BY <1>1, Registers
  <2>2. vm86_push(State(cs, ip, ss, sp - 4, m2), ip + 2)
          = State(cs, ip, ss, sp - 4 - 2,
                  [m2 EXCEPT ![vm86_get_address(ss, sp - 4) - 2] = ip + 2])
    BY <2>1, Registers, PushMoves
  <2> QED
    BY <1>3, <1>5, <2>2 DEF m3
<1>7. Become(State(Ivt[i.vector].segment, Ivt[i.vector].offset, ss, sp - 6, m3))
  BY <1>2, <1>6, StateParts DEF IntN, WithCode
<1>8. /\ cs' = Ivt[i.vector].segment /\ ip' = Ivt[i.vector].offset
      /\ ss' = ss /\ sp' = sp - 6 /\ memory' = m3
  BY <1>7, BecomeParts
<1> QED
  BY <1>8, SameTop DEF Cpu!IntN, m1, m2, m3

(* IRET returns to the address on the stack and drops three words.         *)
LEMMA IretRefines ==
  ASSUME Vm86IInv, NEW i, Cpu!Fetch(i), Cpu!Holds(3), Iret
  PROVE  Cpu!Iret
<1>1. sp + 6 < 65536
  BY Registers DEF Cpu!Holds, Cpu!W
<1>2. vm86_pop(Task) = State(cs, ip, ss, sp + 2, memory)
  BY <1>1, Registers, PopMoves DEF Task
<1>3. vm86_pop(vm86_pop(Task)) = State(cs, ip, ss, sp + 2 + 2, memory)
  BY <1>1, <1>2, Registers, PopMoves
<1>4. vm86_pop(vm86_pop(vm86_pop(Task))) = State(cs, ip, ss, sp + 2 + 2 + 2, memory)
  BY <1>1, <1>3, Registers, PopMoves
<1>5. Popped(Task) = memory[vm86_get_address(ss, sp)]
  BY StateParts DEF Popped, StackTop, Task
<1>6. Popped(vm86_pop(Task)) = memory[vm86_get_address(ss, sp) + 2]
  <2>1. vm86_get_address(ss, sp + 2) = vm86_get_address(ss, sp) + 2
    BY Registers DEF vm86_get_address
  <2> QED
    BY <1>2, <2>1, StateParts DEF Popped, StackTop
<1>7. sp + 2 + 2 + 2 = sp + 6
  BY Registers
<1>8. Become(State(memory[vm86_get_address(ss, sp) + 2], memory[vm86_get_address(ss, sp)],
                   ss, sp + 6, memory))
  BY <1>4, <1>5, <1>6, <1>7, StateParts DEF Iret, WithCode
<1>9. /\ cs' = memory[vm86_get_address(ss, sp) + 2] /\ ip' = memory[vm86_get_address(ss, sp)]
      /\ ss' = ss /\ sp' = sp + 6 /\ memory' = memory
  BY <1>8, BecomeParts
<1> QED
  BY <1>9, SameTop, Registers DEF Cpu!Iret, Cpu!Drop

(* The table of instruction lengths is that of the processor.              *)
LEMMA LengthRight ==
  ASSUME NEW i, i.width \in {8, 16, 32}, i.immediate \in BOOLEAN
  PROVE  Length(i) = Cpu!IOLength(i) /\ Length(i) \in 1 .. 3
BY DEF Length, Cpu!IOLength

(* IN and OUT go on by their length.                                       *)
LEMMA GoesOn ==
  ASSUME Vm86IInv, NEW i, Cpu!Fetch(i), i.width \in {8, 16, 32}, i.immediate \in BOOLEAN,
         Become(vm86_increment_eip(Task, Length(i)))
  PROVE  Cpu!GoOn(Cpu!IOLength(i)) /\ UNCHANGED <<ss, sp, memory>>
<1>1. Length(i) \in Nat /\ ip + Length(i) < 65536
  BY LengthRight, Fetched, Registers
<1>2. vm86_increment_eip(Task, Length(i)) = State(cs, ip + Length(i), ss, sp, memory)
  BY <1>1, Registers, Fetched, IncrementMoves DEF Task
<1>3. cs' = cs /\ ip' = ip + Length(i) /\ ss' = ss /\ sp' = sp /\ memory' = memory
  BY <1>2, BecomeParts
<1> QED
  BY <1>3, LengthRight DEF Cpu!GoOn

-----------------------------------------------------------------------------
(* Every step is one of the processor.                                     *)
LEMMA StepRefines ==
  ASSUME Vm86IInv, Vm86Next
  PROVE  Cpu!Next
<1>0. PICK a \in DOMAIN Program : \E i \in Program[a] :
        Cpu!Native(i) \/ vm86_monitor(i) \/ CASE_IN(i) \/ CASE_OUT(i) \/ Breakpoint(i)
  BY DEF Vm86Next
<1>1. PICK i \in Program[a] :
        Cpu!Native(i) \/ vm86_monitor(i) \/ CASE_IN(i) \/ CASE_OUT(i) \/ Breakpoint(i)
  BY <1>0
<1>2. CASE Cpu!Native(i)
  BY <1>2, <1>1 DEF Cpu!Next
<1>3. CASE vm86_monitor(i)
  <2>1. Cpu!Fetch(i)
    BY <1>3 DEF vm86_monitor
  <2>2. \/ i.op = "pushf" /\ Cpu!Pushf
        \/ i.op = "popf" /\ Cpu!Popf
        \/ i.op \in {"cli", "sti"} /\ Cpu!CliSti
        \/ i.op = "int" /\ Cpu!IntN(i)
        \/ i.op = "iret" /\ Cpu!Iret
    BY <1>3, <2>1, PushfRefines, PopfRefines, CliStiRefines, IntRefines, IretRefines
       DEF vm86_monitor
  <2>3. Cpu!Sensitive(i)
    BY <1>3, <2>1, <2>2 DEF vm86_monitor, Cpu!Sensitive
  <2> QED
    BY <1>1, <2>3 DEF Cpu!Next
<1>4. CASE CASE_IN(i)
  <2>1. Cpu!Fetch(i) /\ i.op = "in" /\ Become(vm86_increment_eip(Task, Length(i)))
    BY <1>4 DEF CASE_IN
  <2>2. i.width \in {8, 16, 32} /\ i.immediate \in BOOLEAN
    BY <1>1, <2>1, ProgramAssumption
  <2>3. Cpu!GoOn(Cpu!IOLength(i)) /\ UNCHANGED <<ss, sp, memory>>
    BY <2>1, <2>2, GoesOn
  <2>4. Cpu!In(i)
    BY <1>4, <2>1, <2>3 DEF CASE_IN, Cpu!In
  <2> QED
    BY <1>1, <2>4 DEF Cpu!Next
<1>5. CASE CASE_OUT(i)
  <2>1. Cpu!Fetch(i) /\ i.op = "out" /\ Become(vm86_increment_eip(Task, Length(i)))
    BY <1>5 DEF CASE_OUT
  <2>2. i.width \in {8, 16, 32} /\ i.immediate \in BOOLEAN
    BY <1>1, <2>1, ProgramAssumption
  <2>3. Cpu!GoOn(Cpu!IOLength(i)) /\ UNCHANGED <<ss, sp, memory>>
    BY <2>1, <2>2, GoesOn
  <2>4. Cpu!Out(i)
    BY <1>5, <2>1, <2>3 DEF CASE_OUT, Cpu!Out
  <2> QED
    BY <1>1, <2>4 DEF Cpu!Next
<1>6. CASE Breakpoint(i)
  <2>1. Cpu!Breakpoint(i)
    BY <1>6 DEF Breakpoint, Cpu!Breakpoint, Cpu!registers
  <2> QED
    BY <1>1, <2>1 DEF Cpu!Next
<1> QED
  BY <1>1, <1>2, <1>3, <1>4, <1>5, <1>6

-----------------------------------------------------------------------------
(* The invariant.                                                          *)

(* A task starts in segment 0, with a stack in segment 0.                  *)
LEMMA Vm86InitIInv ==
  ASSUME Vm86Init
  PROVE  Vm86IInv
<1>1. Entry = [segment |-> 0, offset |-> 1280]
  BY DEF Entry, vm86_get_farptr, CODE_ADDRESS, MULTIBOOT_LOWER_MEMORY, W
<1>2. UserStack = [segment |-> 0, offset |-> 1280 + CodeLength + 4095]
  <2> DEFINE addr == 1280 + CodeLength + 4095
  <2>1. addr \in Nat /\ addr < 65536 /\ addr % 65536 = addr
    BY MemoryAssumption
  <2>2. (addr - (addr % 65536)) \div 16 = 0
    BY <2>1
  <2>3. CODE_ADDRESS + CodeLength + UserStackLen - 1 = addr
    BY MemoryAssumption DEF CODE_ADDRESS, UserStackLen
  <2> QED
    BY <2>1, <2>2, <2>3 DEF UserStack, vm86_get_farptr, MULTIBOOT_LOWER_MEMORY, W
<1>3. cs = 0 /\ ip = 1280 /\ ss = 0 /\ sp = 1280 + CodeLength + 4095
  BY <1>1, <1>2 DEF Vm86Init
<1>4. cs \in Cpu!Offset /\ ip \in Cpu!Offset /\ ss \in Cpu!Offset /\ sp \in Cpu!Offset
  BY <1>3, MemoryAssumption DEF Cpu!Offset, Cpu!W
<1>5. ss % 4096 = 0
  BY <1>3
<1>6. memory \in [StackArea -> Cpu!Word]
  BY DEF Vm86Init, Cpu!Word, Cpu!Offset, Cpu!W
<1> QED
  BY <1>4, <1>5, <1>6 DEF Vm86Init, Vm86IInv, Vm86TypeOK, StackNormal

(* The processor starts where the task does.                               *)
LEMMA MonitorInitRefines ==
  ASSUME Vm86Init
  PROVE  Cpu!Init
BY DEF Vm86Init, Cpu!Init

(* Numbers of 16 bits are offsets.                                         *)
LEMMA OffsetIntro ==
  ASSUME NEW x \in Nat, x < 65536
  PROVE  x \in Cpu!Offset
<1>1. Cpu!W \in Int /\ x < Cpu!W
  BY DEF Cpu!W
<1> QED
  BY <1>1 DEF Cpu!Offset

(* A word on the stack is a word, the first and the second alike.          *)
LEMMA TopIsWord ==
  ASSUME Vm86IInv, NEW n \in Nat, n >= 1, Cpu!Holds(n)
  PROVE  /\ memory[Cpu!Top] \in Cpu!Offset
         /\ n >= 2 => memory[Cpu!Top + 2] \in Cpu!Offset
<1>1. \A k \in 1 .. n : Cpu!Top + 2 * (k - 1) \in StackArea
  BY DEF Cpu!Holds
<1>2. Cpu!Top \in Int
  BY Registers DEF Cpu!Top, Cpu!Linear
<1>3. Cpu!Top + 2 * (1 - 1) = Cpu!Top /\ Cpu!Top + 2 * (2 - 1) = Cpu!Top + 2
  BY <1>2
<1>4. Cpu!Top \in StackArea
  <2>1. 1 \in 1 .. n
    OBVIOUS
  <2> QED
    BY <2>1, <1>1, <1>3
<1>5. ASSUME n >= 2
      PROVE  Cpu!Top + 2 \in StackArea
  <2>1. 2 \in 1 .. n
    BY <1>5
  <2> QED
    BY <2>1, <1>1, <1>3
<1>6. memory \in [StackArea -> Cpu!Offset]
  BY DEF Vm86IInv, Vm86TypeOK, Cpu!Word
<1> QED
  BY <1>4, <1>5, <1>6

(* A push leaves a stack pointer of 16 bits and words on the stack.        *)
LEMMA PushTyped ==
  ASSUME Vm86IInv, NEW word \in Cpu!Offset, Cpu!RoomFor(1), Cpu!PushWord(word)
  PROVE  /\ ss' = ss /\ sp' \in Cpu!Offset
         /\ memory' \in [StackArea -> Cpu!Word]
<1>1. sp >= 2 /\ sp' = sp - 2 /\ ss' = ss
  BY Registers DEF Cpu!RoomFor, Cpu!PushWord
<1>2. sp' \in Nat /\ sp' < 65536
  BY <1>1, Registers
<1>3. memory' \in [StackArea -> Cpu!Word]
  BY DEF Vm86IInv, Vm86TypeOK, Cpu!PushWord, Cpu!Word
<1> QED
  BY <1>1, <1>2, <1>3, OffsetIntro

(* So does dropping words that the stack holds.                            *)
LEMMA DropTyped ==
  ASSUME Vm86IInv, NEW n \in Nat, Cpu!Holds(n), Cpu!Drop(n)
  PROVE  ss' = ss /\ sp' \in Cpu!Offset /\ memory' = memory
<1>1. sp' = sp + 2 * n /\ ss' = ss /\ memory' = memory /\ sp + 2 * n < 65536
  BY DEF Cpu!Holds, Cpu!Drop, Cpu!W
<1>2. sp' \in Nat /\ sp' < 65536
  BY <1>1, Registers
<1> QED
  BY <1>1, <1>2, OffsetIntro

(* Going on by the length of an instruction stays in the segment.          *)
LEMMA GoOnTyped ==
  ASSUME Vm86IInv, NEW i, Cpu!Fetch(i), NEW n \in Nat, n <= 3, Cpu!GoOn(n)
  PROVE  cs' = cs /\ cs' \in Cpu!Offset /\ ip' \in Cpu!Offset
<1>1. cs' = cs /\ ip' = ip + n
  BY DEF Cpu!GoOn
<1>2. ip' \in Nat /\ ip' < 65536
  BY <1>1, Registers, Fetched
<1> QED
  BY <1>1, <1>2, Registers, OffsetIntro

(* Both modules mean the same by a word.                                   *)
LEMMA SameWords == Word = Cpu!Offset /\ Cpu!Word = Cpu!Offset
BY DEF Word, W, Cpu!Word, Cpu!Offset, Cpu!W

(* What an instruction may leave in the registers and on the stack.        *)
Typed(c, i, s, p, m) ==
  /\ c \in Cpu!Offset /\ i \in Cpu!Offset /\ s = ss /\ p \in Cpu!Offset
  /\ m \in [StackArea -> Cpu!Word]

(* A step that leaves typed registers and its stack segment keeps Vm86IInv.    *)
LEMMA TypedStep ==
  ASSUME Vm86IInv, Typed(cs', ip', ss', sp', memory'), eax' \in [Cpu!Parts(32) -> Data]
  PROVE  Vm86IInv'
BY DEF Vm86IInv, Vm86TypeOK, StackNormal, Typed

(* An instruction that does not trap leaves typed registers.               *)
LEMMA NativeTyped ==
  ASSUME Vm86IInv, NEW a \in DOMAIN Program, NEW i \in Program[a], Cpu!Native(i)
  PROVE  Typed(cs', ip', ss', sp', memory')
<1>1. Cpu!Fetch(i)
  BY DEF Cpu!Native
<1>2. ASSUME NEW n \in Nat, n <= 3
      PROVE  ip + n \in Cpu!Offset
  <2>1. ip + n \in Nat /\ ip + n < 65536
    BY <1>1, <1>2, Registers, Fetched
  <2> QED
    BY <2>1, OffsetIntro
<1>3. CASE i.op = "push" /\ Cpu!Push(i)
  <2>1. i.word \in Cpu!Offset
    BY <1>3, ProgramAssumption, SameWords
  <2>2. ss' = ss /\ sp' \in Cpu!Offset /\ memory' \in [StackArea -> Cpu!Word]
    BY <1>3, <2>1, PushTyped DEF Cpu!Push
  <2>3. cs' \in Cpu!Offset /\ ip' \in Cpu!Offset
    BY <1>1, <1>3, GoOnTyped DEF Cpu!Push
  <2> QED
    BY <2>2, <2>3 DEF Typed
<1>4. CASE i.op = "pop" /\ Cpu!Pop(i)
  <2>1. ss' = ss /\ sp' \in Cpu!Offset /\ memory' = memory
    BY <1>4, DropTyped DEF Cpu!Pop
  <2>2. cs' \in Cpu!Offset /\ ip' \in Cpu!Offset
    BY <1>1, <1>4, GoOnTyped DEF Cpu!Pop
  <2> QED
    BY <2>1, <2>2 DEF Typed, Vm86IInv, Vm86TypeOK
<1>5. CASE i.op = "call" /\ Cpu!NearCall(i)
  <2>1. ip + 3 \in Cpu!Offset /\ i.to \in Cpu!Offset
    BY <1>2, <1>5, ProgramAssumption, SameWords
  <2>2. ss' = ss /\ sp' \in Cpu!Offset /\ memory' \in [StackArea -> Cpu!Word]
    BY <1>5, <2>1, PushTyped DEF Cpu!NearCall
  <2> QED
    BY <1>5, <2>1, <2>2 DEF Typed, Vm86IInv, Vm86TypeOK, Cpu!NearCall
<1>6. CASE i.op = "ret" /\ Cpu!NearReturn(i)
  <2>1. ss' = ss /\ sp' \in Cpu!Offset /\ memory' = memory
    BY <1>6, DropTyped DEF Cpu!NearReturn
  <2>2. memory[Cpu!Top] \in Cpu!Offset
    BY <1>6, TopIsWord DEF Cpu!NearReturn
  <2> QED
    BY <1>6, <2>1, <2>2 DEF Typed, Vm86IInv, Vm86TypeOK, Cpu!NearReturn
<1> QED
  BY <1>3, <1>4, <1>5, <1>6 DEF Cpu!Native

(* INT does.                                                               *)
LEMMA IntTyped ==
  ASSUME Vm86IInv, NEW a \in DOMAIN Program, NEW i \in Program[a],
         Cpu!Fetch(i), i.op = "int", Cpu!IntN(i)
  PROVE  Typed(cs', ip', ss', sp', memory')
<1>1. cs' \in Cpu!Offset /\ ip' \in Cpu!Offset
  BY ProgramAssumption, SameWords DEF Cpu!IntN
<1>2. sp >= 6 /\ sp' = sp - 6 /\ ss' = ss
  BY Registers DEF Cpu!IntN, Cpu!RoomFor
<1>3. sp' \in Nat /\ sp' < 65536
  BY <1>2, Registers
<1>4. ip + 2 \in Nat /\ ip + 2 < 65536
  BY Registers, Fetched
<1>5. FLAGS \in Cpu!Offset /\ cs \in Cpu!Offset /\ ip + 2 \in Cpu!Offset
  BY <1>4, OffsetIntro, MemoryAssumption, SameWords DEF Vm86IInv, Vm86TypeOK
<1>6. memory' \in [StackArea -> Cpu!Word]
  BY <1>5 DEF Cpu!IntN, Vm86IInv, Vm86TypeOK, Cpu!Word
<1> QED
  BY <1>1, <1>2, <1>3, <1>6, OffsetIntro DEF Typed

(* Every instruction the monitor emulates does.                            *)
LEMMA SensitiveTyped ==
  ASSUME Vm86IInv, NEW a \in DOMAIN Program, NEW i \in Program[a], Cpu!Sensitive(i)
  PROVE  Typed(cs', ip', ss', sp', memory')
<1>1. Cpu!Fetch(i)
  BY DEF Cpu!Sensitive
<1>2. CASE i.op = "pushf" /\ Cpu!Pushf
  <2>1. FLAGS \in Cpu!Offset
    BY MemoryAssumption, SameWords
  <2>2. ss' = ss /\ sp' \in Cpu!Offset /\ memory' \in [StackArea -> Cpu!Word]
    BY <1>2, <2>1, PushTyped DEF Cpu!Pushf
  <2>3. cs' \in Cpu!Offset /\ ip' \in Cpu!Offset
    BY <1>1, <1>2, GoOnTyped DEF Cpu!Pushf
  <2> QED
    BY <2>2, <2>3 DEF Typed
<1>3. CASE i.op = "popf" /\ Cpu!Popf
  <2>1. ss' = ss /\ sp' \in Cpu!Offset /\ memory' = memory
    BY <1>3, DropTyped DEF Cpu!Popf
  <2>2. cs' \in Cpu!Offset /\ ip' \in Cpu!Offset
    BY <1>1, <1>3, GoOnTyped DEF Cpu!Popf
  <2> QED
    BY <2>1, <2>2 DEF Typed, Vm86IInv, Vm86TypeOK
<1>4. CASE i.op \in {"cli", "sti"} /\ Cpu!CliSti
  <2>1. cs' \in Cpu!Offset /\ ip' \in Cpu!Offset
    BY <1>1, <1>4, GoOnTyped DEF Cpu!CliSti
  <2> QED
    BY <1>4, <2>1 DEF Typed, Vm86IInv, Vm86TypeOK, Cpu!CliSti
<1>5. CASE i.op = "int" /\ Cpu!IntN(i)
  BY <1>1, <1>5, IntTyped
<1>6. CASE i.op = "iret" /\ Cpu!Iret
  <2>1. ss' = ss /\ sp' \in Cpu!Offset /\ memory' = memory
    BY <1>6, DropTyped DEF Cpu!Iret
  <2>2. memory[Cpu!Top] \in Cpu!Offset /\ memory[Cpu!Top + 2] \in Cpu!Offset
    BY <1>6, TopIsWord DEF Cpu!Iret
  <2> QED
    BY <1>6, <2>1, <2>2 DEF Typed, Vm86IInv, Vm86TypeOK, Cpu!Iret
<1> QED
  BY <1>2, <1>3, <1>4, <1>5, <1>6 DEF Cpu!Sensitive

(* IN and OUT do.                                                          *)
LEMMA IOTyped ==
  ASSUME Vm86IInv, NEW a \in DOMAIN Program, NEW i \in Program[a], Cpu!In(i) \/ Cpu!Out(i)
  PROVE  Typed(cs', ip', ss', sp', memory')
<1>1. Cpu!Fetch(i) /\ i.op \in {"in", "out"} /\ Cpu!GoOn(Cpu!IOLength(i))
      /\ UNCHANGED <<ss, sp, memory>>
  BY DEF Cpu!In, Cpu!Out
<1>2. i.width \in {8, 16, 32} /\ i.immediate \in BOOLEAN
  BY <1>1, ProgramAssumption
<1>3. Cpu!IOLength(i) \in Nat /\ Cpu!IOLength(i) <= 3
  BY <1>2 DEF Cpu!IOLength
<1>4. cs' \in Cpu!Offset /\ ip' \in Cpu!Offset
  BY <1>1, <1>3, GoOnTyped
<1> QED
  BY <1>1, <1>4 DEF Typed, Vm86IInv, Vm86TypeOK

(* What a device sends fits into the parts of eax it is meant for.         *)
LEMMA EaxTyped ==
  ASSUME Vm86IInv, NEW a \in DOMAIN Program, NEW i \in Program[a], Cpu!In(i)
  PROVE  eax' \in [Cpu!Parts(32) -> Data]
<1>1. PICK data \in [Cpu!Parts(i.width) -> Data] :
        eax' = [p \in Cpu!Parts(32) |-> IF p \in Cpu!Parts(i.width) THEN data[p] ELSE eax[p]]
  BY DEF Cpu!In
<1> QED
  BY <1>1 DEF Vm86IInv, Vm86TypeOK

(* Every step keeps the invariant.                                         *)
LEMMA StepIInv ==
  ASSUME Vm86IInv, [Vm86Next]_vm86_vars
  PROVE  Vm86IInv'
<1>1. CASE Vm86Next
  <2>0. PICK a \in DOMAIN Program : \E i \in Program[a] :
          \/ Cpu!Native(i) \/ Cpu!Sensitive(i) \/ Cpu!In(i) \/ Cpu!Out(i) \/ Cpu!Breakpoint(i)
    BY <1>1, StepRefines DEF Cpu!Next
  <2>1. PICK i \in Program[a] :
          \/ Cpu!Native(i) \/ Cpu!Sensitive(i) \/ Cpu!In(i) \/ Cpu!Out(i) \/ Cpu!Breakpoint(i)
    BY <2>0
  <2>2. eax \in [Cpu!Parts(32) -> Data]
    BY DEF Vm86IInv, Vm86TypeOK
  <2>3. CASE Cpu!Native(i)
    BY <2>2, <2>3, NativeTyped, TypedStep DEF Cpu!Native
  <2>4. CASE Cpu!Sensitive(i)
    BY <2>2, <2>4, SensitiveTyped, TypedStep DEF Cpu!Sensitive
  <2>5. CASE Cpu!In(i)
    BY <2>5, IOTyped, EaxTyped, TypedStep
  <2>6. CASE Cpu!Out(i)
    <3>1. eax' = eax
      BY <2>6 DEF Cpu!Out
    <3> QED
      BY <2>2, <2>6, <3>1, IOTyped, TypedStep
  <2>7. CASE Cpu!Breakpoint(i)
    BY <2>7 DEF Cpu!Breakpoint, Cpu!registers, Vm86IInv, Vm86TypeOK, StackNormal
  <2> QED
    BY <2>1, <2>3, <2>4, <2>5, <2>6, <2>7
<1>2. CASE UNCHANGED vm86_vars
  BY <1>2 DEF vm86_vars, Vm86IInv, Vm86TypeOK, StackNormal
<1> QED
  BY <1>1, <1>2

-----------------------------------------------------------------------------
(* All reachable states satisfy it.                                        *)
LEMMA Vm86Invariant == Vm86Spec => []Vm86IInv
BY Vm86InitIInv, StepIInv, PTL DEF Vm86Spec

(* The monitor leaves 16 bits in every register and words on the stack.    *)
THEOREM Vm86TypeCorrect == Vm86Spec => []Vm86TypeOK
<1>1. Vm86IInv => Vm86TypeOK
  BY DEF Vm86IInv
<1> QED
  BY <1>1, Vm86Invariant, PTL

(* Every program of BIOS code in segments that are multiples of 64 KiB,    *)
(* whatever its instructions, its vectors and its stack, runs under the    *)
(* monitor of vm86.c as it does on an 8086.                                *)
THEOREM MonitorIsInvisible == Vm86Spec => ImplementsCpu8086
<1>1. Vm86Init => Cpu!Init
  BY MonitorInitRefines
<1>2. Vm86IInv /\ [Vm86Next]_vm86_vars => [Cpu!Next]_(Cpu!vars)
  BY StepRefines DEF vm86_vars, Cpu!vars, Cpu!registers
<1> QED
  BY <1>1, <1>2, Vm86Invariant, PTL DEF Vm86Spec, ImplementsCpu8086, Cpu!Spec

=============================================================================
