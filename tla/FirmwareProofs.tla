---------------------------- MODULE FirmwareProofs ----------------------------
(***************************************************************************)
(* The firmware with its resets and traps for every value of the           *)
(* constants.  The kernel's inductive invariant, KernelInv, holds in every *)
(* run of the program: a boot establishes it, as Init does, a reset leaves *)
(* it be, and HeartbeatProofs has shown that the program preserves it.     *)
(***************************************************************************)
EXTENDS Firmware, TLAPS

KP == INSTANCE HeartbeatProofs

\* Until the first beat every tick has found the task ready.
Prompt == ~beaten => since = slip

IInv ==
  /\ KP!KernelInv
  /\ up \in BOOLEAN /\ stuck \in BOOLEAN
  /\ resets \in 0 .. MaxResets /\ traps \in 0 .. MaxTraps
  /\ CountsFromZero /\ Prompt

-----------------------------------------------------------------------------

LEMMA KernelStarts == HB!Init => KP!KernelInv
  <1>1. HB!Init => KP!Init
    BY DEF HB!Init, KP!Init
  <1>2. KP!Init => KP!KernelInv
    BY FirmwareAssumption, KP!InitKernelInv
    DEF HB!DelayTicks, KP!DelayTicks, HB!MsToTicks, KP!MsToTicks, HB!DelayMs,
        KP!DelayMs
  <1> QED  BY <1>1, <1>2

LEMMA InitIInv == Init => IInv
  <1> SUFFICES ASSUME Init PROVE IInv
    OBVIOUS
  <1>1. KP!KernelInv
    BY KernelStarts DEF Init
  <1>2. up = FALSE /\ stuck = FALSE /\ resets = 0 /\ traps = 0
    BY DEF Init
  <1>3. resets \in 0 .. MaxResets /\ traps \in 0 .. MaxTraps
    BY <1>2, FirmwareAssumption
  <1>4. Prompt
    BY DEF Init, HB!Init, Prompt
  <1> QED  BY <1>1, <1>2, <1>3, <1>4, Zenon DEF IInv, CountsFromZero
-----------------------------------------------------------------------------

\* A step of the program, and one that leaves the program alone.
LEMMA KernelSteps ==
  ASSUME KP!KernelInv, HB!Next \/ UNCHANGED program
  PROVE  KP!KernelInv'
  <1>1. CASE HB!Next
    <2>1. KP!Main \/ KP!Task \/ KP!SysTick \/ KP!PendSV
      BY <1>1
      DEF HB!Next, HB!Main, HB!Task, HB!SysTick, HB!PendSV, HB!CreateTask,
          HB!StartScheduler, HB!LoadHeartbeat, HB!StoreHeartbeat, HB!Delay, HB!Runs,
          HB!Started, HB!Plus, HB!DelayTicks, HB!MsToTicks, HB!DelayMs, HB!mainVars,
          HB!historyVars,
          KP!Next, KP!Main, KP!Task, KP!SysTick, KP!PendSV, KP!CreateTask,
          KP!StartScheduler, KP!LoadHeartbeat, KP!StoreHeartbeat, KP!Delay, KP!Runs,
          KP!Started, KP!Plus, KP!DelayTicks, KP!MsToTicks, KP!DelayMs, KP!mainVars,
          KP!historyVars
    <2>2. KP!Next
      BY <2>1 DEF KP!Next
    <2> QED
      BY <2>2, FirmwareAssumption, KP!KernelInvStep
      DEF HB!DelayTicks, KP!DelayTicks, HB!MsToTicks, KP!MsToTicks, HB!DelayMs,
          KP!DelayMs
  <1>2. CASE UNCHANGED program
    <2>1. UNCHANGED KP!vars
      BY <1>2 DEF program, KP!vars
    <2> QED
      BY <2>1, FirmwareAssumption, KP!KernelInvStep
      DEF HB!DelayTicks, KP!DelayTicks, HB!MsToTicks, KP!MsToTicks, HB!DelayMs,
          KP!DelayMs
  <1> QED  BY <1>1, <1>2

\* Where the program changes the counter, it has beaten.
LEMMA ProgramCounts ==
  ASSUME HB!Next
  PROVE  \/ heartbeat' = heartbeat /\ beaten' = beaten
         \/ HB!StoreHeartbeat /\ beaten' = TRUE
  BY DEF HB!Next, HB!Main, HB!Task, HB!SysTick, HB!PendSV, HB!CreateTask,
         HB!StartScheduler, HB!LoadHeartbeat, HB!StoreHeartbeat, HB!Delay, HB!mainVars,
         HB!historyVars

\* Before the first beat no delay has begun, so a tick that counts finds the task ready.
LEMMA ProgramPrompt ==
  ASSUME KP!KernelInv, Prompt, HB!Next
  PROVE  Prompt'
  <1>1. since \in Nat /\ slip \in Nat /\ hbState \in {"ready", "delayed"}
    BY DEF KP!KernelInv, KP!TypeOK
  <1>2. ~beaten => hbState = "ready"
    BY <1>1 DEF KP!KernelInv, KP!Spacing
  <1>3. CASE HB!SysTick
    BY <1>1, <1>2, <1>3 DEF HB!SysTick, Prompt
  <1>4. CASE HB!StoreHeartbeat
    BY <1>4 DEF HB!StoreHeartbeat, Prompt
  <1>5. CASE HB!Main \/ HB!LoadHeartbeat \/ HB!Delay \/ HB!PendSV
    BY <1>5 DEF HB!Main, HB!CreateTask, HB!StartScheduler, HB!LoadHeartbeat, HB!Delay,
                HB!PendSV, HB!historyVars, Prompt
  <1> QED  BY <1>3, <1>4, <1>5 DEF HB!Next, HB!Task

LEMMA IInvStep == IInv /\ [Next]_vars => IInv'
  <1> SUFFICES ASSUME IInv, [Next]_vars PROVE IInv'
    OBVIOUS
  <1>1. KP!KernelInv /\ CountsFromZero /\ Prompt
    BY DEF IInv
  <1>2. /\ up \in BOOLEAN /\ stuck \in BOOLEAN
        /\ resets \in 0 .. MaxResets /\ traps \in 0 .. MaxTraps
    BY DEF IInv
  <1>3. CASE Boot
    <2>1. HB!Init'
      BY <1>3 DEF Boot, HB!Init
    <2>2. KP!KernelInv'
      BY <2>1, KernelStarts, PTL
    <2>3. up' = TRUE /\ heartbeat' = 0 /\ UNCHANGED <<stuck, resets, traps>>
      BY <1>3 DEF Boot
    <2>4. Prompt'
      BY <1>3 DEF Boot, Prompt
    <2> QED  BY <1>2, <2>2, <2>3, <2>4, Zenon DEF IInv, CountsFromZero
  <1>4. CASE Program(HB!Next)
    <2>1. HB!Next /\ up /\ UNCHANGED <<up, stuck, resets, traps>>
      BY <1>4 DEF Program
    <2>2. KP!KernelInv'
      BY <1>1, <2>1, KernelSteps
    <2>3. CountsFromZero'
      BY <1>1, <2>1, ProgramCounts DEF CountsFromZero
    <2>4. Prompt'
      BY <1>1, <2>1, ProgramPrompt
    <2> QED  BY <1>2, <2>1, <2>2, <2>3, <2>4, Zenon DEF IInv
  <1>5. CASE Trap
    <2>1. /\ UNCHANGED <<program, up, resets>>
          /\ stuck' = TRUE /\ traps' = traps + 1 /\ traps < MaxTraps
      BY <1>5 DEF Trap
    <2>2. KP!KernelInv'
      BY <1>1, <2>1, KernelSteps
    <2>3. CountsFromZero'
      BY <1>1, <2>1 DEF CountsFromZero, program
    <2>4. traps' \in 0 .. MaxTraps
      BY <1>2, <2>1, FirmwareAssumption
    <2>5. Prompt'
      BY <1>1, <2>1 DEF Prompt, program
    <2> QED  BY <1>2, <2>1, <2>2, <2>3, <2>4, <2>5, Zenon DEF IInv
  <1>6. CASE Reset
    <2>1. /\ UNCHANGED <<program, traps>>
          /\ up' = FALSE /\ stuck' = FALSE
          /\ resets' = resets + 1 /\ resets < MaxResets
      BY <1>6 DEF Reset
    <2>2. KP!KernelInv'
      BY <1>1, <2>1, KernelSteps
    <2>3. resets' \in 0 .. MaxResets
      BY <1>2, <2>1, FirmwareAssumption
    <2>4. Prompt'
      BY <1>1, <2>1 DEF Prompt, program
    <2> QED  BY <1>2, <2>1, <2>2, <2>3, <2>4, Zenon DEF IInv, CountsFromZero
  <1>7. CASE UNCHANGED vars
    <2>1. UNCHANGED program /\ UNCHANGED <<up, stuck, resets, traps>>
      BY <1>7 DEF vars
    <2>2. KP!KernelInv'
      BY <1>1, <2>1, KernelSteps
    <2>3. CountsFromZero'
      BY <1>1, <2>1 DEF CountsFromZero, program
    <2>4. Prompt'
      BY <1>1, <2>1 DEF Prompt, program
    <2> QED  BY <1>2, <2>1, <2>2, <2>3, <2>4, Zenon DEF IInv
  <1> QED  BY <1>3, <1>4, <1>5, <1>6, <1>7 DEF Next

LEMMA Invariance == Spec => []IInv
  BY InitIInv, IInvStep, PTL DEF Spec

-----------------------------------------------------------------------------

\* No counter of the program leaves its width, across any number of resets.
THEOREM TypeCorrect == Spec => []TypeOK
  <1>1. ASSUME IInv PROVE TypeOK
    <2>1. KP!TypeOK
      BY <1>1 DEF IInv, KP!KernelInv
    <2>2. HB!TypeOK
      BY <2>1 DEF HB!TypeOK, KP!TypeOK
    <2> QED  BY <1>1, <2>2 DEF IInv, TypeOK
  <1> QED  BY <1>1, Invariance, PTL

\* Every run of the program counts its own beats from zero.
THEOREM CountsFromZeroHolds == Spec => []CountsFromZero
  <1>1. IInv => CountsFromZero
    BY DEF IInv
  <1> QED  BY <1>1, Invariance, PTL

\* The first beat of a run does not wait, whenever the run before was reset.
THEOREM FirstBeatHolds == Spec => FirstBeatAtOnce
  <1>1. IInv => (~beaten => since = slip)
    BY DEF IInv, Prompt
  <1> QED  BY <1>1, Invariance, PTL DEF Spec, FirstBeatAtOnce
=============================================================================
