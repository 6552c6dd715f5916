CONSTANTS
  MAX_TASKS = 4
  TicksPerTimeSlice = 1
  TickModulus = 3
  CreateInLoop = TRUE
SPECIFICATION HFairSpec
INVARIANTS CurrentTaskRuns ResumesWhereLeft FinalizeTargetStopped StaysPreemptible
PROPERTIES EveryTaskRuns StoppedTasksFinalized NoBypass ImplementsRoundRobin
CHECK_DEADLOCK FALSE
