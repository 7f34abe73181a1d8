SPECIFICATION WatchdogSpec
CONSTANTS
  Clock <- SomeClocks
  Delay <- SomeDelays
  PingDelay <- SomePings
  MaxNow = 8
INVARIANTS
  TimerOnTime
  DelayAccepted
  SameClockMovesLittle
  WatchdogKept
CHECK_DEADLOCK FALSE
