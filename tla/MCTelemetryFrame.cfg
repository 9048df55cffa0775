SPECIFICATION HeadersSpec
CONSTANTS
    Registers <- MCRegisters
    StartWords <- MCStartWords
    Sample <- MCSample
    MaxWrites = 1
    Declared <- MCObjects
    MaxUsed = 2
    Layouts = {"devices"}
INVARIANT
    FrameHas32Bytes
CHECK_DEADLOCK FALSE
