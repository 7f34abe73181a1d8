SPECIFICATION Spec
CONSTANTS
  r1 = r1
  r2 = r2
  r3 = r3
  Rank = {r1, r2, r3}
  Topologies <- Networks
  LookAheads = {1}
  Delay = {2}
  TxTimes = {0}
  Forever = 99
  MaxUid <- Uids
  MaxPackets = 2
INVARIANTS
  WindowIsSafe
  WindowIsPrivate
PROPERTIES
  ImplementsParallel
  RunReturns
CHECK_DEADLOCK FALSE
