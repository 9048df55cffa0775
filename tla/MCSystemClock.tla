---------------------------- MODULE MCSystemClock ----------------------------
(***************************************************************************)
(* SystemClock with the device's oscillators and word, in kHz, and PLL     *)
(* settings: exact ones, ones whose first division truncates, the smallest *)
(* and the largest multiplier the device allows, and one beyond its limits *)
(* whose product leaves the word.                                          *)
(***************************************************************************)
EXTENDS SystemClock

MCPlls ==
  {[src |-> 0, m |-> 16, n |-> 192, p |-> 0],
   [src |-> 0, m |-> 9,  n |-> 211, p |-> 1],
   [src |-> 1, m |-> 25, n |-> 432, p |-> 3],
   [src |-> 1, m |-> 13, n |-> 50,  p |-> 2],
   [src |-> 1, m |-> 24, n |-> 401, p |-> 1],
   [src |-> 1, m |-> 2,  n |-> 432, p |-> 0]}
=============================================================================
