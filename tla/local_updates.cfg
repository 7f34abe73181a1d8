SPECIFICATION FairSpec
CONSTANTS
  Node = {n1}
  NoContext = NoContext
  Clock <- TwoClocks
  Delay <- OddDelays
  MaxImpls = 3
  MaxUpdates = 2
  Api = {"ScheduleNow", "ScheduleWithContext", "Cancel", "Remove", "SetClock", "Stop", "Worker"}
  CrossNode = FALSE
  Scale = 4
INVARIANTS
  DriftPerUpdate
  RefsMatchEntries
  PromisesKept
PROPERTY
  PendingRuns
CHECK_DEADLOCK FALSE
