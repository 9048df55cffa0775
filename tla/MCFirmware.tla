------------------------------ MODULE MCFirmware ------------------------------
(***************************************************************************)
(* The small kernel of MCHeartbeat, its heap large enough for both tasks,  *)
(* through two resets and two traps.                                       *)
(***************************************************************************)
EXTENDS Firmware

MCHeapSizes == {5}
=============================================================================
