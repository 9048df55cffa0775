-------------------------------- MODULE Pulse --------------------------------
(***************************************************************************)
(* What the heartbeat promises to whoever watches the counter: it moves by *)
(* one at a time, modulo its width, never again before a full period of    *)
(* ticks has gone by, and it never stops.                                  *)
(***************************************************************************)
EXTENDS Integers

CONSTANTS
  Period,   \* ticks from one beat to the next, at least
  Modulus   \* values of the counter

VARIABLES
  alive,    \* the scheduler has been started
  count,    \* the counter
  owed      \* ticks that must still go by before the counter may move

pvars == <<alive, count, owed>>

Init == alive = FALSE /\ count = 0 /\ owed = 0

Start ==
  /\ ~alive
  /\ alive' = TRUE
  /\ UNCHANGED <<count, owed>>

Tick ==
  /\ alive /\ owed > 0
  /\ owed' = owed - 1
  /\ UNCHANGED <<alive, count>>

Beat ==
  /\ alive /\ owed = 0
  /\ count' = (count + 1) % Modulus
  /\ owed' = Period
  /\ UNCHANGED alive

Next == Start \/ Tick \/ Beat

Spec == Init /\ [][Next]_pvars /\ WF_pvars(Tick \/ Beat)
=============================================================================
