SPECIFICATION Spec
CONSTANTS
  Node = {n1}
  NoContext = NoContext
  Clock <- TwoClocks
  Delay <- OddDelays
  MaxImpls = 4
  MaxUpdates = 2
  Api = {"ScheduleWithContext", "SetClock"}
  CrossNode = FALSE
  Scale = 4
INVARIANT
  PendingIsNotExpired
CHECK_DEADLOCK FALSE
