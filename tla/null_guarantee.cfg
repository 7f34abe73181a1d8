SPECIFICATION Spec
CONSTANTS
  Rank = {0, 1}
  Topologies <- TwoChannels
  Tune = 100
  StopTime = 8
  Delay = {1}
  TxTimes = {1, 2}
  Forever = 99
  MaxCalls <- OneSender
INVARIANT
  GuaranteeHolds
CHECK_DEADLOCK FALSE
