---------------------------- MODULE MCInterrupts ----------------------------
(****************************************************************************)
(* Four peripheral interrupts around the kernel's limit: an urgent one that *)
(* leaves the kernel alone, one just as far beyond its reach that calls it  *)
(* by mistake, the most urgent one that may call it, and a late one without *)
(* a handler.                                                               *)
(****************************************************************************)
EXTENDS Interrupts

MCIrq      == {"urgent", "intruder", "uart", "stray"}
MCLevel    == [urgent |-> 2, intruder |-> 4, uart |-> 5, stray |-> 9]
MCHandled  == {"urgent", "intruder", "uart"}
MCApiUsers == {"intruder", "uart"}
=============================================================================
