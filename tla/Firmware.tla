------------------------------- MODULE Firmware -------------------------------
(***************************************************************************)
(* The firmware from power-on, over and over: the reset code, in one step  *)
(* as in BootContract, hands main a program whose variables have their     *)
(* initial values; main and the kernel run as in Heartbeat; an exception   *)
(* without a handler or a failed configASSERT, as in Interrupts, leaves    *)
(* the processor in an endless loop; and a reset may come at any moment.   *)
(***************************************************************************)
EXTENDS Integers

CONSTANTS
  HeapSizes, TaskBytes, IdleBytes, TickRateHz, TickMod, CounterMod, MaxSlip,
  MaxResets,  \* bound: resets per power-on
  MaxTraps    \* bound: traps per power-on

VARIABLES
  mainPc, heapFree, created, running, switching, hbState, hbPc, reg, wake, tick,
  heartbeat, since, slip, beaten,
  up,      \* main has been entered since the last reset
  stuck,   \* the processor is in Default_Handler or in a failed assertion
  resets, traps

HB == INSTANCE Heartbeat

ASSUME FirmwareAssumption ==
  /\ MaxResets \in Nat /\ MaxTraps \in Nat
  /\ HeapSizes \subseteq Nat
  /\ TaskBytes \in Nat \ {0} /\ IdleBytes \in Nat \ {0}
  /\ TickRateHz \in Nat
  /\ TickMod \in Nat /\ CounterMod \in Nat \ {0}
  /\ MaxSlip \in Nat
  /\ HB!DelayTicks \in 1 .. TickMod - 1

program == <<mainPc, heapFree, created, running, switching, hbState, hbPc, reg,
             wake, tick, heartbeat, since, slip, beaten>>

vars == <<program, up, stuck, resets, traps>>

Init ==
  /\ HB!Init
  /\ up = FALSE /\ stuck = FALSE
  /\ resets = 0 /\ traps = 0

\* Mutant: the reset code does not clear .bss, where the counter lives.
BootKeepsBss ==
  /\ ~up /\ ~stuck
  /\ up' = TRUE
  /\ mainPc' = "xTaskCreate"
  /\ heapFree' \in HeapSizes
  /\ created' = {}
  /\ running' = "none" /\ switching' = FALSE
  /\ hbState' = "ready" /\ hbPc' = "load"
  /\ reg' = 0 /\ wake' = 0 /\ tick' = 0
  /\ since' = 0 /\ slip' = 0 /\ beaten' = FALSE
  /\ UNCHANGED <<heartbeat, stuck, resets, traps>>

\* Mutant: the kernel's lists are not cleared, and with them the delay of the run
\* before.
BootKeepsDelay ==
  /\ ~up /\ ~stuck
  /\ up' = TRUE
  /\ mainPc' = "xTaskCreate"
  /\ heapFree' \in HeapSizes
  /\ created' = {}
  /\ running' = "none" /\ switching' = FALSE
  /\ hbPc' = "load"
  /\ reg' = 0 /\ tick' = 0 /\ heartbeat' = 0
  /\ since' = 0 /\ slip' = 0 /\ beaten' = FALSE
  /\ UNCHANGED <<hbState, wake, stuck, resets, traps>>

\* The reset code: whatever RAM holds, the program starts from its image.
Boot ==
  /\ ~up /\ ~stuck
  /\ up' = TRUE
  /\ mainPc' = "xTaskCreate"
  /\ heapFree' \in HeapSizes
  /\ created' = {}
  /\ running' = "none" /\ switching' = FALSE
  /\ hbState' = "ready" /\ hbPc' = "load"
  /\ reg' = 0 /\ wake' = 0 /\ tick' = 0 /\ heartbeat' = 0
  /\ since' = 0 /\ slip' = 0 /\ beaten' = FALSE
  /\ UNCHANGED <<stuck, resets, traps>>

\* The program executes, unless the processor is stuck.
Program(A) ==
  /\ up /\ ~stuck
  /\ A
  /\ UNCHANGED <<up, stuck, resets, traps>>

\* An exception without a handler of its own, before or after main is entered,
\* or a failed assertion.
Trap ==
  /\ ~stuck /\ traps < MaxTraps
  /\ stuck' = TRUE
  /\ traps' = traps + 1
  /\ UNCHANGED <<program, up, resets>>

\* RAM keeps what it holds.
Reset ==
  /\ resets < MaxResets
  /\ resets' = resets + 1
  /\ up' = FALSE /\ stuck' = FALSE
  /\ UNCHANGED <<program, traps>>

Next == Boot \/ Program(HB!Next) \/ Trap \/ Reset

Spec == Init /\ [][Next]_vars

\* The processor boots and executes unless it is stuck.  Nothing makes a reset
\* come: the firmware starts no watchdog.
FairSpec ==
  /\ Spec
  /\ WF_vars(Boot)
  /\ WF_vars(Program(HB!Main)) /\ WF_vars(Program(HB!Task))
  /\ WF_vars(Program(HB!SysTick)) /\ WF_vars(Program(HB!PendSV))

-----------------------------------------------------------------------------

TypeOK ==
  /\ HB!TypeOK
  /\ up \in BOOLEAN /\ stuck \in BOOLEAN
  /\ resets \in 0 .. MaxResets /\ traps \in 0 .. MaxTraps

\* Each run of the program counts its own beats: until the first beat after a
\* reset the counter is zero, whatever the run before had counted.
CountsFromZero == up /\ ~beaten => heartbeat = 0

\* The first beat after a reset waits for nothing of the run before, in whichever
\* moment of a delay the reset came: every tick until then found heartbeat_task
\* ready to run.
FirstBeatAtOnce ==
  [][heartbeat' # heartbeat /\ up /\ up' /\ ~beaten => since = slip]_vars

\* Once resets stop, the firmware either beats for ever or is stuck for ever.
BeatsOrStuck ==
  (\A h \in HeapSizes : h >= TaskBytes + IdleBytes) =>
    <>[]stuck \/ []<><<Program(HB!StoreHeartbeat)>>_vars

\* docs/fault-handling.md: "If a critical task stops executing, the watchdog is
\* not refreshed and the MCU restarts through the startup sequence".
StallRestarts == stuck ~> ~up
=============================================================================
