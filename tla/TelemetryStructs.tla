------------------------------- MODULE TelemetryStructs --------------------------------
(* The fix and the telemetry frame of gps_structs.h. *)
EXTENDS CLayout, TLC

\* Mutant: num_sats comes before altitude_msl, which leaves a hole.
gps_fix_t_Reordered ==
    Words(None, <<"timestamp_epoch", "nmea_time_utc", "lattitude", "longitude">>)
    \o Array(None, "num_sats", 1, 1) \o Array(None, "altitude_msl", 2, 1)
    \o Array(None, "course", 2, 1) \o Array(None, "speed", 2, 1)
    \o Array(None, "fix_quality", 1, 1) \o Array(None, "hdop", 1, 1)
    \o Array(None, "", 1, 3)

gps_fix_t ==
    Words(None, <<"timestamp_epoch", "nmea_time_utc", "lattitude", "longitude">>)
    \o Array(None, "altitude_msl", 2, 1) \o Array(None, "course", 2, 1)
    \o Array(None, "speed", 2, 1) \o Array(None, "fix_quality", 1, 1)
    \o Array(None, "num_sats", 1, 1) \o Array(None, "hdop", 1, 1)
    \o Array(None, "", 1, 3)

telemetry_frame_t ==
    Array(None, "sync1", 1, 1) \o Array(None, "sync2", 1, 1)
    \o Array(None, "msg_type", 1, 1) \o Array(None, "seq_num", 1, 1)
    \o Nested(gps_fix_t) \o Array(None, "checksum", 2, 1)

\* A frame in RAM. Its payload is an object of its own inside it.
Frame == <<"frame", 0>>
Payload == <<"frame payload", 0>>
TelemetryObjects(address) ==
    (Frame :> At(telemetry_frame_t, address))
    @@ (Payload :> At(gps_fix_t, address + Places(telemetry_frame_t)[5]))
========================================================================================
