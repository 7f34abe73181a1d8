SPECIFICATION Spec
CONSTANTS
  Node = {n1, n2}
  NoContext = NoContext
  Clock <- TwoClocks
  Delay <- OddDelays
  MaxImpls = 3
  MaxUpdates = 1
  Api = {"ScheduleWithContext", "Cancel", "SetClock"}
  CrossNode = TRUE
  Scale = 4
INVARIANTS
  Consistent
  OneEntryPerImpl
  PendingIsTracked
  RevokedNeverRuns
PROPERTY
  ImplementsSimulation
CHECK_DEADLOCK FALSE
