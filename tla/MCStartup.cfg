CONSTANTS
  RamOrigin = 16
  RamLength = 32
  DataBytes = 5
  BssBytes = 6
  MinHeapSize = 4
  MinStackSize = 8
  FrameBytes = 4
  MaxResets = 3
  sidata <- MCsidata
  Flash <- MCFlash
  PowerOnRam <- MCPowerOnRam
  RegJunk <- MCRegJunk
  Junk <- MCJunk
  Touched <- MCTouched
SPECIFICATION FairSpec
INVARIANTS
  ReadyForC
PROPERTIES
  NoStrayWrite
  CopiedStays
  MainIsReached
  ImplementsContract
