SPECIFICATION Spec
CONSTANTS
  Job = {1, 2, 3, 4, 5}
  NoJob = NoJob
  DependsOn <- CycleAndJoin
  Work <- Works
  ReleaseTimes = {0, 1, 3}
  Rejectable = {4}
  Slots = 1
  Preemptive = TRUE
  FinishAtOnce = TRUE
INVARIANTS CompletionDue ReadyIsServed NoSleeper
PROPERTIES EventuallySettled ImplementsTaskGraph
