SPECIFICATION Spec
CONSTANTS
  w1 = w1
  Worker = {w1}
  Delay = {0, 4}
  MaxTime = 5
  MaxUid = 7
INVARIANTS
  Consistent
  NeverEarly
  WaitIsInterrupted
  NoLostWakeup
  IdleSleeps
PROPERTIES
  ImplementsSimulation
  LoopGoesOn
CHECK_DEADLOCK FALSE
