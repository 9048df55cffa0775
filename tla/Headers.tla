------------------------------------ MODULE Headers ------------------------------------
(* The layouts of the headers at work: a driver that sets up a register field by field,
   and drivers and tasks that assign the members of their structs. A register's fields
   and the places of the registers are definitions apart from one another, so a
   behaviour looks at one of the two. *)
EXTENDS RegisterFields

CONSTANTS
    Declared,   \* the structs that the headers declare, and their members, by name
    MaxUsed,    \* bound: how many structs are used together
    Layouts     \* what is looked at: "fields" or "devices"
VARIABLES
    layout,     \* the one that this behaviour looks at
    memory, used

\* What DeviceMap has in memory. A definition is evaluated once, a constant at each use.
Objects == Declared
Devices == INSTANCE TelemetryFrame

fieldVars == <<reg, word, intended, writes>>
deviceVars == <<memory, used>>

HeadersInit ==
    /\ layout \in Layouts
    /\ Init
    /\ layout = "devices" => reg = 1 /\ word = {}
    /\ Devices!Init
HeadersNext ==
    /\ UNCHANGED layout
    /\ \/ layout = "fields" /\ Next /\ UNCHANGED deviceVars
       \/ layout = "devices" /\ Devices!Next /\ UNCHANGED fieldVars
HeadersSpec == HeadersInit /\ [][HeadersNext]_<<layout, fieldVars, deviceVars>>

(* Every register of every struct is where the comment beside its declaration says, and
   undisturbed by the others in use: DeviceMap's AtDocumentedAddress. *)
AtDocumentedAddress == Devices!AtDocumentedAddress

(* A frame filled member by member has no stale bytes but the five known ones:
   TelemetryFrame's OnlyKnownStale. *)
OnlyKnownStale == Devices!OnlyKnownStale

(* docs/protocol.md: the frame is 32 bytes, with every field serialised:
   TelemetryFrame's FrameHas32Bytes. *)
FrameHas32Bytes == Devices!FrameHas32Bytes
========================================================================================
