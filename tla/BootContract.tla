---------------------------- MODULE BootContract ----------------------------
(***************************************************************************)
(* What the reset code promises to the C program, free of how it does it:  *)
(* whatever RAM held before, the program is entered with every variable of *)
(* static storage duration at its initial value, in one step as far as the *)
(* program can tell; after that the variables are the program's, and any   *)
(* reset takes them away again until the next entry.                       *)
(***************************************************************************)
EXTENDS Integers

CONSTANTS
  Static,      \* where variables of static storage duration live
  Byte,        \* what one place holds
  Image,       \* their initial values
  Lost         \* the program is not running: its variables mean nothing

VARIABLES
  up,          \* the C program is running
  statics      \* its variables

bvars == <<up, statics>>

Init == up = FALSE /\ statics = Lost

EnterMain ==
  /\ ~up
  /\ up' = TRUE
  /\ statics' = Image

Run ==
  /\ up
  /\ up' = TRUE
  /\ statics' \in [Static -> Byte]

Reset ==
  /\ up
  /\ up' = FALSE
  /\ statics' = Lost

Next == EnterMain \/ Run \/ Reset

Spec == Init /\ [][Next]_bvars /\ WF_bvars(EnterMain)
=============================================================================
