SPECIFICATION Spec
CONSTANTS
  Delay <- Distances
  MaxEvents = 7
  Word = 65536
INVARIANTS
  HeapInOrder
  CalendarInOrder
PROPERTY
  ImplementsScheduler
CHECK_DEADLOCK FALSE
