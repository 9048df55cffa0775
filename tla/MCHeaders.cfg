SPECIFICATION HeadersSpec
CONSTANTS
    Registers <- MCRegisters
    StartWords <- MCStartWords
    Sample <- MCSample
    MaxWrites = 1
    Declared <- MCObjects
    MaxUsed = 2
    Layouts = {"fields", "devices"}
INVARIANTS
    TypeOK
    ReadsBack
    AtDocumentedAddress
    OnlyKnownStale
PROPERTY
    ReservedKept
CHECK_DEADLOCK FALSE
