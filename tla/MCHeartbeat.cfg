CONSTANTS
  HeapSizes <- MCHeapSizes
  TaskBytes = 3
  IdleBytes = 2
  TickRateHz = 6
  TickMod = 5
  CounterMod = 4
  MaxSlip = 4
SPECIFICATION FairSpec
INVARIANTS
  TypeOK
  WakeAhead
  RunsByPriority
PROPERTIES
  BeatSpacing
  KeepsBeating
  NeverHalfStarted
  ImplementsPulse
CHECK_DEADLOCK FALSE
