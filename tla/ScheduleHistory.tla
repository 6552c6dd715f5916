--------------------------- MODULE ScheduleHistory ---------------------------
(***************************************************************************)
(* The scheduler with two history variables that observe how fairly it     *)
(* hands out the processor, the refinement of RoundRobin, and what the     *)
(* comments of the code say about both.                                    *)
(***************************************************************************)
EXTENDS Schedule

VARIABLES
  servedSince,  \* for each task that can run: the pids that were switched to since
                \* it last had the processor, or since it was created
  contended     \* timer ticks at which the current task kept the processor although
                \* another task could run, since the last switch; at most
                \* TicksPerTimeSlice of them are counted

historyVars == <<servedSince, contended>>
hvars == <<vars, historyVars>>

HTypeOK ==
  /\ servedSince \in [Pid -> SUBSET Pid]
  /\ contended \in 0 .. TicksPerTimeSlice

HInit ==
  /\ Init
  /\ servedSince = [p \in Pid |-> {}]
  /\ contended = 0

Switched == current_task' # current_task

ObserveService ==
  servedSince' = [p \in Pid |->
    IF p = current_task' \/ tasks'[p] # "running" THEN {}
    ELSE IF Switched THEN servedSince[p] \union {current_task'}
    ELSE servedSince[p]]

ObserveTick ==
  contended' = IF Switched THEN 0
               ELSE IF Running \ {current_task} # {} /\ contended < TicksPerTimeSlice
               THEN contended + 1
               ELSE contended

ObserveThread == contended' = IF Switched THEN 0 ELSE contended

HNext ==
  \/ Tick /\ ObserveService /\ ObserveTick
  \/ ThreadStep /\ ObserveService /\ ObserveThread

HSpec == HInit /\ [][HNext]_hvars
HFairSpec == HSpec /\ Fairness

-----------------------------------------------------------------------------
(* No task is served twice while another one waits: between two turns of a  *)
(* task every other pid gets at most one, however tasks exit, are destroyed *)
(* and give their pids to new ones meanwhile.                              *)
NoBypass ==
  [][\A p \in Running \ {current_task, current_task'} :
       Switched /\ tasks'[p] = "running" => current_task' \notin servedSince[p]]_hvars

(* The scheduler implements the round robin it announces.                  *)
RR == INSTANCE RoundRobin WITH ready <- Running, turn <- current_task
ImplementsRoundRobin == RR!RRSpec

(* task.h says of task->ticks "how many ticks the task may run per time    *)
(* slice"; schedule() "does not switch tasks if the current task's time    *)
(* slice is not over yet".  So a task never keeps the processor from       *)
(* another one for more than the rest of a slice.                          *)
SliceRespected == contended < TicksPerTimeSlice

=============================================================================
