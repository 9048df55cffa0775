-------------------------------- MODULE TelemetryFrame ---------------------------------
(* A telemetry frame in RAM whose members have been assigned one by one, and what a
   copy of its bytes would send. *)
EXTENDS DeviceMap, TelemetryStructs

Filled == {Frame, Payload} \subseteq used

FrameBytes == {Objects[Frame].base + i : i \in 0..Objects[Frame].size - 1}

(* The bytes of a frame, counted from its start, that hold what memory held before. *)
Stale == {a - Objects[Frame].base : a \in FrameBytes \ DOMAIN memory}

(* Once every member has been assigned, the only stale bytes of the frame are the three
   that gps_fix_t reserves and the two after the checksum that round its size up to
   the 36 of the static assertion: none lies between two members. *)
OnlyKnownStale ==
    Filled => /\ Stale = {29, 30, 31} \cup {34, 35}
              /\ Objects[Payload].size = 28
              /\ Objects[Frame].size = 36

(* docs/protocol.md: the frame is 32 bytes, with every field serialised. *)
FrameHas32Bytes ==
    Filled => Cardinality(FrameBytes) - Cardinality(Stale) = 32
========================================================================================
