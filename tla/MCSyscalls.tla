----------------------------- MODULE MCSyscalls -----------------------------
(***************************************************************************)
(* Two tasks that call the functions directly on standard input and on a   *)
(* descriptor that is not open, and print to both output streams.          *)
(***************************************************************************)
EXTENDS Syscalls

MCTask    == {"t1", "t2"}
MCFds     == {0, 3}
MCLengths == {2}
=============================================================================
