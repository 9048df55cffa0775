CONSTANTS
  Irq <- MCIrq
  Level <- MCLevel
  Handled <- MCHandled
  ApiUsers <- MCApiUsers
  MaxRaised = 2
SPECIFICATION FairSpec
INVARIANTS
  KernelExclusive
  UrgentNeverMasked
PROPERTIES
  StopsDead
  TrapStopsTasks
  TickServed
