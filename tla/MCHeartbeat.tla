----------------------------- MODULE MCHeartbeat -----------------------------
(***************************************************************************)
(* A small kernel for Heartbeat: three ticks per beat, a tick counter that *)
(* wraps every five and a counter that wraps every four, so that both wrap *)
(* at every phase of the loop, and heaps that hold no task, one or both.   *)
(***************************************************************************)
EXTENDS Heartbeat

MCHeapSizes == {2, 3, 4, 5, 6}
=============================================================================
