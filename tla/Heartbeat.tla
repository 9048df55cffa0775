------------------------------ MODULE Heartbeat ------------------------------
(***************************************************************************)
(* main.c on the FreeRTOS kernel it starts: main creates the heartbeat     *)
(* task, the kernel adds its idle task, and from then on heartbeat_task    *)
(* increments its counter and sleeps, interleaved with the tick interrupt  *)
(* and with the context switch the tick asks for.                          *)
(*                                                                         *)
(* The increment is the load, add and store that -O0 compiles, so that the *)
(* tick may fall between them.  The kernel (xTaskCreate,                   *)
(* vTaskStartScheduler, vTaskDelay, the SysTick and PendSV handlers) is a  *)
(* submodule that src/ only names; it is modelled by what main.c and       *)
(* FreeRTOSConfig.h ask of it: a heap both tasks come from, two            *)
(* priorities, preemption, and a tick counter that wraps.                  *)
(*                                                                         *)
(* since, slip and beaten are history: they observe and guard nothing but  *)
(* the bound MaxSlip.                                                      *)
(***************************************************************************)
EXTENDS Integers

CONSTANTS
  HeapSizes,   \* the sizes of the kernel heap explored
  TaskBytes,   \* heap that a task of 128 words of stack takes
  IdleBytes,   \* heap that the idle task takes
  TickRateHz,  \* configTICK_RATE_HZ
  TickMod,     \* values of TickType_t
  CounterMod,  \* values of the uint32_t heartbeat
  MaxSlip      \* bound: ticks while the task is ready, from one beat to the next

DelayMs == 500

\* pdMS_TO_TICKS
MsToTicks(ms) == (ms * TickRateHz) \div 1000

DelayTicks == MsToTicks(DelayMs)

ASSUME HeartbeatAssumption ==
  /\ HeapSizes \subseteq Nat
  /\ TaskBytes \in Nat \ {0} /\ IdleBytes \in Nat \ {0}
  /\ TickRateHz \in Nat
  /\ TickMod \in Nat /\ CounterMod \in Nat \ {0}
  /\ MaxSlip \in Nat
  \* at least one tick per beat, fewer than the tick counter can tell apart
  /\ DelayTicks \in 1 .. TickMod - 1

VARIABLES
  mainPc,     \* where main is; "scheduler" once the kernel has taken over
  heapFree,   \* bytes left in the kernel heap
  created,    \* the tasks that exist
  running,    \* the task whose context is loaded
  switching,  \* PendSV is pending
  hbState,    \* heartbeat_task: "ready" or "delayed"
  hbPc,       \* and its next step
  reg,        \* the register of the increment
  wake,       \* the tick at which the delay ends
  tick,       \* xTickCount
  heartbeat,  \* the counter
  since,      \* history: ticks since the last beat
  slip,       \* history: those of them that found the task ready
  beaten      \* history: there has been a beat

vars == <<mainPc, heapFree, created, running, switching, hbState, hbPc, reg,
          wake, tick, heartbeat, since, slip, beaten>>

mainVars    == <<mainPc, heapFree, created>>
historyVars == <<since, slip, beaten>>

Started == mainPc = "scheduler"
Trapped == mainPc \in {"no_task", "no_scheduler"}

\* n ticks further in a counter of TickMod values, for n < TickMod.
Plus(t, n) == IF t + n >= TickMod THEN t + n - TickMod ELSE t + n

\* Ticks to go from tick t to tick w.
Until(t, w) == IF w >= t THEN w - t ELSE w - t + TickMod

Init ==
  /\ mainPc = "xTaskCreate"
  /\ heapFree \in HeapSizes
  /\ created = {}
  /\ running = "none" /\ switching = FALSE
  /\ hbState = "ready" /\ hbPc = "load"
  /\ reg = 0 /\ wake = 0 /\ tick = 0 /\ heartbeat = 0
  /\ since = 0 /\ slip = 0 /\ beaten = FALSE

-----------------------------------------------------------------------------
(* main                                                                     *)

\* Mutant: main ignores what xTaskCreate returns.
CreateTaskUnchecked ==
  /\ mainPc = "xTaskCreate"
  /\ mainPc' = "vTaskStartScheduler"
  /\ \/ /\ heapFree >= TaskBytes
        /\ heapFree' = heapFree - TaskBytes
        /\ created' = created \cup {"heartbeat"}
     \/ /\ heapFree < TaskBytes
        /\ UNCHANGED <<heapFree, created>>
  /\ UNCHANGED <<running, switching, hbState, hbPc, reg, wake, tick, heartbeat,
                 historyVars>>

\* xTaskCreate(heartbeat_task, ...): without memory for it main stops there.
CreateTask ==
  /\ mainPc = "xTaskCreate"
  /\ \/ /\ heapFree >= TaskBytes
        /\ heapFree' = heapFree - TaskBytes
        /\ created' = created \cup {"heartbeat"}
        /\ mainPc' = "vTaskStartScheduler"
     \/ /\ heapFree < TaskBytes
        /\ mainPc' = "no_task"
        /\ UNCHANGED <<heapFree, created>>
  /\ UNCHANGED <<running, switching, hbState, hbPc, reg, wake, tick, heartbeat,
                 historyVars>>

\* Mutant: the kernel starts without asking whether the idle task fits.
StartSchedulerUnchecked ==
  /\ mainPc = "vTaskStartScheduler"
  /\ heapFree' = heapFree - IdleBytes
  /\ created' = created \cup {"idle"}
  /\ mainPc' = "scheduler"
  /\ running' = "heartbeat"
  /\ UNCHANGED <<switching, hbState, hbPc, reg, wake, tick, heartbeat,
                 historyVars>>

\* Mutant: memory that is just enough is not taken.
StartSchedulerStrict ==
  /\ mainPc = "vTaskStartScheduler"
  /\ \/ /\ heapFree > IdleBytes
        /\ heapFree' = heapFree - IdleBytes
        /\ created' = created \cup {"idle"}
        /\ mainPc' = "scheduler"
        /\ running' = "heartbeat"
     \/ /\ heapFree <= IdleBytes
        /\ mainPc' = "no_scheduler"
        /\ UNCHANGED <<heapFree, created, running>>
  /\ UNCHANGED <<switching, hbState, hbPc, reg, wake, tick, heartbeat,
                 historyVars>>

\* Mutant: heartbeat_task has the idle task's priority, of two such tasks the one
\* created last runs first.
StartSchedulerEqual ==
  /\ mainPc = "vTaskStartScheduler"
  /\ \/ /\ heapFree >= IdleBytes
        /\ heapFree' = heapFree - IdleBytes
        /\ created' = created \cup {"idle"}
        /\ mainPc' = "scheduler"
        /\ running' = "idle"
     \/ /\ heapFree < IdleBytes
        /\ mainPc' = "no_scheduler"
        /\ UNCHANGED <<heapFree, created, running>>
  /\ UNCHANGED <<switching, hbState, hbPc, reg, wake, tick, heartbeat,
                 historyVars>>

\* vTaskStartScheduler: returns to main, which stops, when the idle task cannot
\* be created; otherwise never returns and starts the task of highest priority.
StartScheduler ==
  /\ mainPc = "vTaskStartScheduler"
  /\ \/ /\ heapFree >= IdleBytes
        /\ heapFree' = heapFree - IdleBytes
        /\ created' = created \cup {"idle"}
        /\ mainPc' = "scheduler"
        /\ running' = "heartbeat"
     \/ /\ heapFree < IdleBytes
        /\ mainPc' = "no_scheduler"
        /\ UNCHANGED <<heapFree, created, running>>
  /\ UNCHANGED <<switching, hbState, hbPc, reg, wake, tick, heartbeat,
                 historyVars>>

-----------------------------------------------------------------------------
(* heartbeat_task                                                           *)

\* A task executes when its context is loaded and no switch is pending.
Runs(task) == Started /\ running = task /\ ~switching

LoadHeartbeat ==
  /\ Runs("heartbeat") /\ hbPc = "load"
  /\ reg' = heartbeat
  /\ hbPc' = "store"
  /\ UNCHANGED <<mainVars, running, switching, hbState, wake, tick, heartbeat,
                 historyVars>>

\* The add, modulo the counter's width, and the store: a beat.
StoreHeartbeat ==
  /\ Runs("heartbeat") /\ hbPc = "store"
  /\ heartbeat' = (reg + 1) % CounterMod
  /\ hbPc' = "delay"
  /\ since' = 0 /\ slip' = 0 /\ beaten' = TRUE
  /\ UNCHANGED <<mainVars, running, switching, hbState, reg, wake, tick>>

\* Mutant: the load is hoisted out of the loop, as without volatile.
DelayHoisted ==
  /\ Runs("heartbeat") /\ hbPc = "delay"
  /\ wake' = Plus(tick, DelayTicks)
  /\ hbState' = "delayed"
  /\ switching' = TRUE
  /\ hbPc' = "store"
  /\ UNCHANGED <<mainVars, running, reg, tick, heartbeat, historyVars>>

\* Mutants: the delay is given in milliseconds; there is none.
DelayInMs ==
  /\ Runs("heartbeat") /\ hbPc = "delay"
  /\ wake' = Plus(tick, DelayMs)
  /\ hbState' = "delayed"
  /\ switching' = TRUE
  /\ hbPc' = "load"
  /\ UNCHANGED <<mainVars, running, reg, tick, heartbeat, historyVars>>
DelayDropped ==
  /\ Runs("heartbeat") /\ hbPc = "delay"
  /\ hbPc' = "load"
  /\ UNCHANGED <<mainVars, running, switching, hbState, reg, wake, tick,
                 heartbeat, historyVars>>

\* vTaskDelay(pdMS_TO_TICKS(500)): counted from the call, and a yield.
Delay ==
  /\ Runs("heartbeat") /\ hbPc = "delay"
  /\ wake' = Plus(tick, DelayTicks)
  /\ hbState' = "delayed"
  /\ switching' = TRUE
  /\ hbPc' = "load"
  /\ UNCHANGED <<mainVars, running, reg, tick, heartbeat, historyVars>>

-----------------------------------------------------------------------------
(* The kernel's exceptions                                                  *)

\* SysTick: count, ready the task whose time has come, and ask for a switch
\* when it outranks the task that runs.
SysTick ==
  /\ Started
  /\ hbState = "ready" => slip < MaxSlip
  /\ tick' = Plus(tick, 1)
  /\ \/ /\ hbState = "delayed" /\ tick' = wake
        /\ hbState' = "ready"
        /\ switching' = TRUE
     \/ /\ ~(hbState = "delayed" /\ tick' = wake)
        /\ UNCHANGED <<hbState, switching>>
  /\ since' = since + 1
  /\ slip' = IF hbState = "ready" THEN slip + 1 ELSE slip
  /\ UNCHANGED <<mainVars, running, hbPc, reg, wake, heartbeat, beaten>>

\* PendSV: load the context of the ready task of highest priority.  The idle
\* task is always ready.
PendSV ==
  /\ Started /\ switching
  /\ running' = IF hbState = "ready" THEN "heartbeat" ELSE "idle"
  /\ switching' = FALSE
  /\ UNCHANGED <<mainVars, hbState, hbPc, reg, wake, tick, heartbeat,
                 historyVars>>

Main == CreateTask \/ StartScheduler
Task == LoadHeartbeat \/ StoreHeartbeat \/ Delay
Next == Main \/ Task \/ SysTick \/ PendSV

Spec == Init /\ [][Next]_vars

\* The processor executes main and the task that runs, SysTick keeps counting,
\* and a pending exception is taken.
FairSpec ==
  Spec /\ WF_vars(Main) /\ WF_vars(Task) /\ WF_vars(SysTick) /\ WF_vars(PendSV)

-----------------------------------------------------------------------------

\* Every variable holds a value of its kind; in particular the heap is never
\* overdrawn and the counters stay within their width.
TypeOK ==
  /\ mainPc \in {"xTaskCreate", "vTaskStartScheduler", "scheduler",
                 "no_task", "no_scheduler"}
  /\ heapFree \in Nat
  /\ created \subseteq {"heartbeat", "idle"}
  /\ running \in {"none", "heartbeat", "idle"}
  /\ switching \in BOOLEAN
  /\ hbState \in {"ready", "delayed"}
  /\ hbPc \in {"load", "store", "delay"}
  /\ reg \in 0 .. CounterMod - 1 /\ heartbeat \in 0 .. CounterMod - 1
  /\ wake \in 0 .. TickMod - 1 /\ tick \in 0 .. TickMod - 1
  /\ since \in Nat /\ slip \in Nat /\ beaten \in BOOLEAN

\* The heartbeat's period, across preemption and across the wrap of the tick
\* counter: from one beat to the next go exactly the ticks of the delay and
\* those ticks that found the task ready but not yet through its loop.  The
\* delay is relative, so such ticks push every later beat back; no other tick
\* does, and none is gained.
BeatSpacing ==
  [][StoreHeartbeat /\ beaten => since = DelayTicks + slip]_vars

\* A sleeping task is never slept past: its wake-up lies ahead by as many ticks
\* as are left of the delay, wherever the tick counter wraps in between.
WakeAhead ==
  hbState = "delayed" =>
    /\ Until(tick, wake) \in 1 .. DelayTicks
    /\ since - slip + Until(tick, wake) = DelayTicks

\* Priorities decide: once pending switches are done, the idle task runs only
\* while heartbeat_task sleeps, and a sleeping task never runs.
RunsByPriority ==
  Started /\ ~switching => (running = "idle" <=> hbState = "delayed")

\* With memory for both tasks the heartbeat starts and never stops.
KeepsBeating ==
  mainPc = "xTaskCreate" /\ heapFree >= TaskBytes + IdleBytes =>
    []<><<StoreHeartbeat>>_vars

\* With memory for only one of them, or none, main ends in one of its loops and
\* no task ever runs, the one that was created included.
NeverHalfStarted ==
  mainPc = "xTaskCreate" /\ heapFree < TaskBytes + IdleBytes =>
    <>[]Trapped /\ [](running = "none" /\ ~beaten)

\* Loads, stores, sleeps, ticks and switches together are a pulse: the counter
\* moves by one, never early, for ever.
Pulse == INSTANCE Pulse WITH
  Period  <- DelayTicks,
  Modulus <- CounterMod,
  alive   <- Started,
  count   <- heartbeat,
  owed    <- IF beaten /\ since < DelayTicks THEN DelayTicks - since ELSE 0

ImplementsPulse == Pulse!Spec
=============================================================================
