--------------------------- MODULE HeartbeatProofs ---------------------------
(***************************************************************************)
(* For every tick rate, width of the tick counter, width of the heartbeat  *)
(* and size of the heap: the beats of heartbeat_task are spaced by the     *)
(* delay and nothing but the delay and the task's own lateness, and the    *)
(* detailed kernel is a pulse.                                             *)
(***************************************************************************)
EXTENDS Heartbeat, TLAPS

-----------------------------------------------------------------------------
(* Counting ticks in a counter that wraps.                                  *)

\* The tick counter never leaves its width.
LEMMA PlusType ==
  ASSUME NEW t \in 0 .. TickMod - 1, NEW n \in 0 .. TickMod - 1
  PROVE  Plus(t, n) \in 0 .. TickMod - 1
  BY HeartbeatAssumption DEF Plus

\* A delay shorter than the counter's range lies ahead by its own length.
LEMMA UntilPlus ==
  ASSUME NEW t \in 0 .. TickMod - 1, NEW n \in 1 .. TickMod - 1
  PROVE  Until(t, Plus(t, n)) = n
  BY HeartbeatAssumption DEF Plus, Until

\* A tick that does not reach the target brings it nearer by one.
LEMMA UntilTick ==
  ASSUME NEW t \in 0 .. TickMod - 1, NEW w \in 0 .. TickMod - 1,
         t # w
  PROVE  /\ Plus(t, 1) = w => Until(t, w) = 1
         /\ Plus(t, 1) # w => /\ Until(Plus(t, 1), w) = Until(t, w) - 1
                              /\ Until(t, w) >= 2
  BY HeartbeatAssumption DEF Plus, Until

\* Two ticks are apart unless they are the same.
LEMMA UntilZero ==
  ASSUME NEW t \in 0 .. TickMod - 1
  PROVE  Until(t, t) = 0
  BY HeartbeatAssumption DEF Until

-----------------------------------------------------------------------------
(* The inductive invariant: WakeAhead and RunsByPriority, with where the    *)
(* task stands in its loop and what of the period that leaves behind it.    *)

NotStarted ==
  ~Started =>
    /\ running = "none" /\ ~switching /\ ~beaten
    /\ hbState = "ready" /\ hbPc = "load"
    /\ tick = 0 /\ heartbeat = 0

\* The scheduler has both tasks, and one of them is loaded.
Populated ==
  Started => running \in {"heartbeat", "idle"} /\ created = {"heartbeat", "idle"}

\* main creates the heartbeat task first and alone.
Created ==
  /\ mainPc = "xTaskCreate" => created = {}
  /\ mainPc = "vTaskStartScheduler" => created = {"heartbeat"}

\* The value waiting to be stored is one more than the counter still holds.
FreshRegister == hbPc = "store" => reg = heartbeat

\* Where the task is in its loop, and the ticks that are behind it.
Spacing ==
  /\ slip <= since
  /\ hbPc = "delay" => beaten /\ hbState = "ready" /\ since = slip
  /\ hbState = "delayed" => beaten /\ hbPc = "load"
  /\ beaten /\ hbState = "ready" /\ hbPc \in {"load", "store"} =>
       since = DelayTicks + slip

KernelInv ==
  /\ TypeOK
  /\ NotStarted /\ Populated /\ Created
  /\ FreshRegister /\ Spacing
  /\ WakeAhead /\ RunsByPriority

LEMMA DelayType == DelayTicks \in 1 .. TickMod - 1 /\ TickMod \in Nat
  BY HeartbeatAssumption

LEMMA InitKernelInv == Init => KernelInv
<1> SUFFICES ASSUME Init PROVE KernelInv
  OBVIOUS
<1>1. TypeOK
  <2>1. heapFree \in Nat
    BY HeartbeatAssumption DEF Init
  <2>2. 0 \in 0 .. CounterMod - 1 /\ 0 \in 0 .. TickMod - 1
    BY HeartbeatAssumption, DelayType
  <2>3. QED
    BY <2>1, <2>2 DEF Init, TypeOK
<1>2. QED
  BY <1>1 DEF Init, KernelInv, NotStarted, Populated, Created, FreshRegister, Spacing,
              WakeAhead, RunsByPriority, Started

LEMMA MainInv ==
  ASSUME KernelInv, Main
  PROVE  KernelInv'
<1>1. TypeOK'
  <2>1. TypeOK /\ heapFree \in Nat /\ TaskBytes \in Nat /\ IdleBytes \in Nat
    BY HeartbeatAssumption DEF KernelInv, TypeOK
  <2>2. heapFree' \in Nat
    BY <2>1 DEF Main, CreateTask, StartScheduler
  <2>3. CASE CreateTask
    BY <2>1, <2>2, <2>3 DEF TypeOK, CreateTask, historyVars
  <2>4. CASE StartScheduler
    BY <2>1, <2>2, <2>4 DEF TypeOK, StartScheduler, historyVars
  <2>5. QED
    BY <2>3, <2>4 DEF Main
<1>2. CASE CreateTask
  <2>1. created = {}
    BY <1>2 DEF KernelInv, Created, CreateTask
  <2>2. mainPc' = "vTaskStartScheduler" => created' = {"heartbeat"}
    BY <1>2, <2>1 DEF CreateTask
  <2>3. QED
    BY <1>1, <1>2, <2>2
    DEF KernelInv, CreateTask, Started, NotStarted, Populated, Created,
        FreshRegister, Spacing, WakeAhead, RunsByPriority, historyVars
<1>3. CASE StartScheduler
  BY <1>1, <1>3
  DEF KernelInv, StartScheduler, Started, NotStarted, Populated, Created,
      FreshRegister, Spacing, WakeAhead, RunsByPriority, historyVars
<1>4. QED
  BY <1>2, <1>3 DEF Main

LEMMA LoadInv ==
  ASSUME KernelInv, LoadHeartbeat
  PROVE  KernelInv'
  BY DEF KernelInv, TypeOK, LoadHeartbeat, Runs, Started, NotStarted, Populated,
         Created, FreshRegister, Spacing, WakeAhead, RunsByPriority, mainVars, historyVars

LEMMA StoreInv ==
  ASSUME KernelInv, StoreHeartbeat
  PROVE  KernelInv'
<1>1. heartbeat' \in 0 .. CounterMod - 1
  BY HeartbeatAssumption DEF KernelInv, TypeOK, StoreHeartbeat
<1>2. hbState = "ready" /\ hbState' = hbState
  BY DEF KernelInv, TypeOK, RunsByPriority, Runs, StoreHeartbeat
<1>3. TypeOK'
  BY <1>1 DEF KernelInv, TypeOK, StoreHeartbeat, mainVars
<1>4. QED
  BY <1>2, <1>3
  DEF KernelInv, StoreHeartbeat, Runs, Started, NotStarted, Populated, Created,
      FreshRegister, Spacing, WakeAhead, RunsByPriority, mainVars

LEMMA DelayInv ==
  ASSUME KernelInv, Delay
  PROVE  KernelInv'
<1>1. /\ tick \in 0 .. TickMod - 1 /\ since = slip /\ beaten
      /\ since \in Nat /\ slip \in Nat
  BY DEF KernelInv, TypeOK, Spacing, Delay
<1>2. wake' \in 0 .. TickMod - 1 /\ Until(tick, wake') = DelayTicks
  BY <1>1, DelayType, PlusType, UntilPlus DEF Delay
<1>3. TypeOK'
  BY <1>2 DEF KernelInv, TypeOK, Delay, mainVars, historyVars
<1>4. WakeAhead'
  <2>1. tick' = tick /\ since' = since /\ slip' = slip
    BY DEF Delay, historyVars
  <2>2. Until(tick', wake') = DelayTicks
    BY <1>2, <2>1
  <2>3. QED
    BY <1>1, <2>1, <2>2, DelayType DEF WakeAhead
<1>5. QED
  BY <1>1, <1>3, <1>4
  DEF KernelInv, Delay, Runs, Started, NotStarted, Populated, Created, FreshRegister,
      Spacing, RunsByPriority, mainVars, historyVars

LEMMA TickInv ==
  ASSUME KernelInv, SysTick
  PROVE  KernelInv'
<1>1. /\ TypeOK /\ tick \in 0 .. TickMod - 1 /\ wake \in 0 .. TickMod - 1
      /\ since \in Nat /\ slip \in Nat /\ slip <= since
      /\ DelayTicks \in 1 .. TickMod - 1 /\ TickMod \in Nat
  BY DelayType DEF KernelInv, TypeOK, Spacing
<1>2. tick' = Plus(tick, 1) /\ tick' \in 0 .. TickMod - 1
  BY <1>1, PlusType DEF SysTick
<1>3. /\ since' = since + 1
      /\ slip' = IF hbState = "ready" THEN slip + 1 ELSE slip
      /\ wake' = wake /\ hbPc' = hbPc /\ beaten' = beaten /\ mainPc' = mainPc
      /\ running' = running /\ created' = created /\ reg' = reg
      /\ heartbeat' = heartbeat /\ heapFree' = heapFree
  BY DEF SysTick, mainVars
<1>4. hbState' \in {"ready", "delayed"} /\ switching' \in BOOLEAN
  BY <1>1 DEF SysTick, TypeOK
<1>5. since' \in Nat /\ slip' \in Nat /\ slip' <= since'
  BY <1>1, <1>3
<1>6. TypeOK'
  BY <1>1, <1>2, <1>3, <1>4, <1>5 DEF TypeOK
<1>7. CASE hbState = "ready"
  <2>1. hbState' = "ready" /\ switching' = switching /\ slip' = slip + 1
    BY <1>3, <1>7 DEF SysTick
  <2>2. Spacing'
    BY <1>1, <1>3, <1>5, <1>7, <2>1 DEF KernelInv, Spacing
  <2>3. WakeAhead' /\ RunsByPriority'
    BY <1>3, <1>7, <2>1 DEF KernelInv, WakeAhead, RunsByPriority, Started
  <2>4. QED
    BY <1>3, <1>6, <2>2, <2>3
    DEF KernelInv, NotStarted, Populated, Created, FreshRegister, Started, SysTick
<1>8. CASE hbState = "delayed"
  <2>1. /\ Until(tick, wake) \in 1 .. DelayTicks
        /\ since - slip + Until(tick, wake) = DelayTicks
        /\ beaten /\ hbPc = "load" /\ slip' = slip
    BY <1>3, <1>8 DEF KernelInv, WakeAhead, Spacing
  <2>2. tick # wake
    BY <1>1, <2>1, UntilZero
  <2>3. CASE tick' = wake
    <3>1. Until(tick, wake) = 1
      BY <1>1, <1>2, <2>2, <2>3, UntilTick
    <3>2. hbState' = "ready" /\ switching'
      BY <1>8, <2>3 DEF SysTick
    <3>3. since' = DelayTicks + slip'
      BY <1>1, <1>3, <2>1, <3>1
    <3>4. QED
      BY <1>3, <1>5, <1>6, <2>1, <3>2, <3>3
      DEF KernelInv, NotStarted, Populated, Created, FreshRegister, Spacing,
          WakeAhead, RunsByPriority, Started, SysTick
  <2>4. CASE tick' # wake
    <3>1. Until(tick', wake) = Until(tick, wake) - 1 /\ Until(tick, wake) >= 2
      BY <1>1, <1>2, <2>2, <2>4, UntilTick
    <3>2. hbState' = "delayed" /\ switching' = switching
      BY <1>8, <2>4 DEF SysTick
    <3>3. WakeAhead'
      <4>1. Until(tick', wake') = Until(tick, wake) - 1
        BY <1>3, <3>1
      <4>2. since' - slip' + (Until(tick, wake) - 1) = DelayTicks
        BY <1>1, <1>3, <2>1
      <4>3. Until(tick, wake) - 1 \in 1 .. DelayTicks
        BY <1>1, <2>1, <3>1
      <4>4. QED
        BY <4>1, <4>2, <4>3 DEF WakeAhead
    <3>4. Spacing' /\ RunsByPriority'
      BY <1>3, <1>5, <1>8, <2>1, <3>2
      DEF KernelInv, Spacing, RunsByPriority, Started
    <3>5. QED
      BY <1>3, <1>6, <3>2, <3>3, <3>4
      DEF KernelInv, NotStarted, Populated, Created, FreshRegister, Started, SysTick
  <2>5. QED
    BY <2>3, <2>4
<1>9. QED
  BY <1>1, <1>7, <1>8 DEF TypeOK

LEMMA PendSVInv ==
  ASSUME KernelInv, PendSV
  PROVE  KernelInv'
  BY DEF KernelInv, TypeOK, PendSV, Started, NotStarted, Populated, Created,
         FreshRegister, Spacing, WakeAhead, RunsByPriority, mainVars, historyVars

LEMMA KernelInvStep == KernelInv /\ [Next]_vars => KernelInv'
<1> SUFFICES ASSUME KernelInv, [Next]_vars PROVE KernelInv'
  OBVIOUS
<1>1. CASE Main
  BY <1>1, MainInv
<1>2. CASE LoadHeartbeat
  BY <1>2, LoadInv
<1>3. CASE StoreHeartbeat
  BY <1>3, StoreInv
<1>4. CASE Delay
  BY <1>4, DelayInv
<1>5. CASE SysTick
  BY <1>5, TickInv
<1>6. CASE PendSV
  BY <1>6, PendSVInv
<1>7. CASE UNCHANGED vars
  BY <1>7
  DEF vars, KernelInv, TypeOK, Started, NotStarted, Populated, Created, FreshRegister,
      Spacing, WakeAhead, RunsByPriority
<1>8. QED
  BY <1>1, <1>2, <1>3, <1>4, <1>5, <1>6, <1>7 DEF Next, Task

\* The inductive invariant holds in every reachable state.
THEOREM KernelInvariant == Spec => []KernelInv
  BY InitKernelInv, KernelInvStep, PTL DEF Spec

-----------------------------------------------------------------------------

\* The heap is never overdrawn and no counter leaves its width.
THEOREM TypeCorrect == Spec => []TypeOK
<1>1. KernelInv => TypeOK
  BY DEF KernelInv
<1>2. QED
  BY <1>1, KernelInvariant, PTL

\* The task is never slept past, whatever the width of the tick counter.
THEOREM WakeAheadHolds == Spec => []WakeAhead
<1>1. KernelInv => WakeAhead
  BY DEF KernelInv
<1>2. QED
  BY <1>1, KernelInvariant, PTL

\* The idle task runs exactly while heartbeat_task sleeps.
THEOREM RunsByPriorityHolds == Spec => []RunsByPriority
<1>1. KernelInv => RunsByPriority
  BY DEF KernelInv
<1>2. QED
  BY <1>1, KernelInvariant, PTL

\* Beats are spaced by the delay and the task's own lateness.
THEOREM BeatSpacingHolds == Spec => BeatSpacing
<1>1. KernelInv /\ [Next]_vars =>
        [StoreHeartbeat /\ beaten => since = DelayTicks + slip]_vars
  BY DEF KernelInv, TypeOK, Spacing, RunsByPriority, Runs, StoreHeartbeat
<1>2. QED
  BY <1>1, KernelInvariant, PTL DEF Spec, BeatSpacing

\* Leaving out fairness, every execution of the kernel is one of the pulse.
THEOREM ImplementsPulseSafety ==
  Spec => Pulse!Init /\ [][Pulse!Next]_(Pulse!pvars)
<1>1. Init => Pulse!Init
  BY DEF Init, Pulse!Init, Started
<1>2. ASSUME KernelInv, [Next]_vars
      PROVE  [Pulse!Next]_(Pulse!pvars)
  <2>1. /\ since \in Nat /\ slip \in Nat /\ slip <= since
        /\ DelayTicks \in Nat /\ DelayTicks >= 1
    BY <1>2, DelayType DEF KernelInv, TypeOK, Spacing
  <2>2. CASE CreateTask
    BY <2>2 DEF CreateTask, Started, Pulse!pvars, historyVars
  <2>3. CASE StartScheduler
    BY <2>3 DEF StartScheduler, Started, Pulse!Next, Pulse!Start, Pulse!pvars, historyVars
  <2>4. CASE LoadHeartbeat \/ Delay \/ PendSV
    BY <2>4 DEF LoadHeartbeat, Delay, PendSV, Started, Pulse!pvars, mainVars, historyVars
  <2>5. CASE StoreHeartbeat
    <3>1. reg = heartbeat /\ (beaten => since >= DelayTicks)
      BY <1>2, <2>1, <2>5
      DEF KernelInv, TypeOK, FreshRegister, Spacing, RunsByPriority, Runs, StoreHeartbeat
    <3>2. QED
      BY <2>1, <2>5, <3>1
      DEF StoreHeartbeat, Runs, Started, Pulse!Next, Pulse!Beat, mainVars
  <2>6. CASE SysTick
    <3>1. since' = since + 1 /\ beaten' = beaten /\ heartbeat' = heartbeat
          /\ mainPc' = mainPc /\ Started
      BY <2>6 DEF SysTick, mainVars
    <3>2. QED
      BY <2>1, <3>1 DEF Started, Pulse!Next, Pulse!Tick, Pulse!pvars
  <2>7. CASE UNCHANGED vars
    BY <2>7 DEF vars, Started, Pulse!pvars
  <2>8. QED
    BY <1>2, <2>2, <2>3, <2>4, <2>5, <2>6, <2>7 DEF Next, Main, Task
<1>3. QED
  BY <1>1, <1>2, KernelInvariant, PTL DEF Spec
=============================================================================
