SPECIFICATION FairSpec
CONSTANTS
  Node = {n1}
  NoContext = NoContext
  Delay <- ShortDelays
  MaxImpls = 3
  MaxLives = 2
  Api = {"ScheduleNow", "ScheduleWithContext", "Worker", "Cancel", "Remove", "Stop", "ScheduleDestroy"}
INVARIANTS
  Consistent
  ExpiredIffGone
PROPERTIES
  ImplementsSimulation
  DestroyInOrder
  DestroyCompletes
CHECK_DEADLOCK FALSE
