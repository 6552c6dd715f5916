----------------------------- MODULE RoundRobin ------------------------------
(***************************************************************************)
(* What the scheduler promises: "a simple round robin strategy"            *)
(* (schedule.c).  The tasks that can run stand in the cyclic order of      *)
(* their pids; one of them has the processor.  It hands it on to the next  *)
(* one behind it, and to no other.                                         *)
(***************************************************************************)
EXTENDS TaskTable

VARIABLES
  ready,  \* the tasks that can run
  turn    \* the one that has the processor, 0 before the first one got it

rrVars == <<ready, turn>>

RRInit == ready = {} /\ turn = 0

\* A new task takes a free place in the circle.
Join(p) ==
  /\ p \notin ready
  /\ ready' = ready \union {p}
  /\ UNCHANGED turn

\* The processor is handed on.
Pass ==
  /\ ready # {}
  /\ turn' = FirstAfter(ready, turn)
  /\ UNCHANGED ready

\* The task that has the processor leaves, unless it is the last one.
Leave ==
  /\ turn # 0
  /\ ready \ {turn} # {}
  /\ ready' = ready \ {turn}
  /\ turn' = FirstAfter(ready \ {turn}, turn)

RRNext == (\E p \in Pid : Join(p)) \/ Pass \/ Leave

RRSpec == RRInit /\ [][RRNext]_rrVars
=============================================================================
