SPECIFICATION HeadersSpec
CONSTANTS
    Registers <- TracePort
    StartWords <- MCStartWords
    Sample <- MCSample
    MaxWrites = 2
    Declared <- MCObjects
    MaxUsed = 2
    Layouts = {"fields"}
INVARIANT
    ReadsBack
CHECK_DEADLOCK FALSE
