SPECIFICATION Spec
CONSTANTS
  a = a
  u = u
  Attended <- OneAttended
  Unattended <- OneScheduled
  Window = 0
  Stale = 1
  AfterClose = FALSE
  MaxItems = 1
  MaxRuns = 2
  MaxTime = 2
  MaxCrashes = 1
  MaxAlarms = 1
  MaxBriefings = 2
  MaxLag = 1
INVARIANTS Inv OkMeansRead FailureIsRead
CHECK_DEADLOCK FALSE
