----------------------------- MODULE MCSchedule ------------------------------
(* The scheduler with its observers: three task slots, a one-tick slice as in *)
(* schedule.c and a tick counter of three values.                             *)
EXTENDS ScheduleHistory
=============================================================================
