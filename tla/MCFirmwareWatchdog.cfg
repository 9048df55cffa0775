CONSTANTS
  HeapSizes <- MCHeapSizes
  TaskBytes = 3
  IdleBytes = 2
  TickRateHz = 6
  TickMod = 5
  CounterMod = 4
  MaxSlip = 4
  MaxResets = 2
  MaxTraps = 2
SPECIFICATION FairSpec
PROPERTIES
  StallRestarts
CHECK_DEADLOCK FALSE
