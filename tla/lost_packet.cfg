SPECIFICATION Spec
CONSTANTS
  r1 = r1
  r2 = r2
  r3 = r3
  Rank = {r1, r2, r3}
  Topologies <- Networks
  LookAheads = {}
  Delay = {1}
  TxTimes = {0}
  Forever = 99
  MaxUid <- Uids
  MaxPackets = 1
INVARIANT NoPacketLost
CHECK_DEADLOCK FALSE
