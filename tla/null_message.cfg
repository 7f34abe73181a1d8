SPECIFICATION Spec
CONSTANTS
  Rank = {0, 1, 2}
  Topologies <- Line
  Tune = 100
  StopTime = 4
  Delay = {0}
  TxTimes = {0}
  Forever = 99
  MaxCalls <- Relay
INVARIANTS
  Consistent
  GuaranteesKept
PROPERTIES
  ImplementsParallel
  RunCompletes
CHECK_DEADLOCK FALSE
