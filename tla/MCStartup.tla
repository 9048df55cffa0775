------------------------------ MODULE MCStartup ------------------------------
(***************************************************************************)
(* A small machine for Startup: 32 bytes of RAM from address 16, five      *)
(* bytes of .data and six of .bss, so that both sections end between two   *)
(* words before they are aligned, and no byte of RAM left unreserved.      *)
(***************************************************************************)
EXTENDS Startup

MCsidata     == 100
MCFlash      == [a \in 100 .. 107 |-> a - 90]
MCPowerOnRam == {[a \in RamAddr |-> 99], [a \in RamAddr |-> 0],
                 [a \in RamAddr |-> a]}
MCRegJunk    == {1, 6}
MCJunk       == {77}
MCTouched    == {sdata, edata - 1, sbss, ebss - 1, sstack}
=============================================================================
