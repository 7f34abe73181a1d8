SPECIFICATION Spec
CONSTANTS
  w1 = w1
  w2 = w2
  Worker = {w1, w2}
  JobLists <- Runs
  MaxDeaths = 1
INVARIANTS
  Consistent
  ReturnIsTrue
  NothingStranded
PROPERTIES
  EverythingEnds
CHECK_DEADLOCK FALSE
