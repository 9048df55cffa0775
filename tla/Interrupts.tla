----------------------------- MODULE Interrupts -----------------------------
(***************************************************************************)
(* The interrupt scheme that FreeRTOSConfig.h, the vector table of the     *)
(* startup file and __NVIC_SetPriority set up for the kernel: which        *)
(* exceptions preempt which, what a kernel critical section masks, and     *)
(* where an exception without a handler of its own, or a failed            *)
(* configASSERT, leaves the machine.                                       *)
(*                                                                         *)
(* A context is the thread that runs or an exception that has been entered *)
(* and has not returned.  A critical section of the FreeRTOS port, which   *)
(* src/ configures and does not contain, sets BASEPRI to                   *)
(* configMAX_SYSCALL_INTERRUPT_PRIORITY and, since it is only ever begun   *)
(* with BASEPRI at 0, ends by writing 0.                                   *)
(***************************************************************************)
EXTENDS Integers, Sequences

CONSTANTS
  Irq,       \* the peripheral interrupts that drivers have enabled
  Level,     \* Level[i]: the priority they pass to NVIC_SetPriority
  Handled,   \* those whose handler is defined, overriding the weak alias
  ApiUsers,  \* those whose handler calls the kernel
  MaxRaised  \* bound: how often each of them is raised

Kernel == {"PendSV", "SysTick"}
Exception == Kernel \cup Irq

ASSUME InterruptsAssumption ==
  /\ Irq \cap (Kernel \cup {"thread"}) = {}
  /\ Level \in [Irq -> 0 .. 15]
  /\ Handled \subseteq Irq /\ ApiUsers \subseteq Handled
  /\ MaxRaised \in Nat

configPRIO_BITS == 4
configKERNEL_INTERRUPT_PRIORITY == 15 * 2 ^ (8 - configPRIO_BITS)

\* Mutants: the level is not moved into the implemented bits; it is moved by too
\* few of them.
maxSyscallUnshifted == 5
maxSyscallHalved    == 5 * 2 ^ (6 - configPRIO_BITS)

configMAX_SYSCALL_INTERRUPT_PRIORITY == 5 * 2 ^ (8 - configPRIO_BITS)

\* The byte NVIC_SetPriority writes.
NVIC_SetPriority(level) == (level * 2 ^ (8 - configPRIO_BITS)) % 256

\* The device keeps the upper bits of a priority byte and of BASEPRI.
Implemented(byte) == (byte \div 2 ^ (8 - configPRIO_BITS)) * 2 ^ (8 - configPRIO_BITS)

\* The smaller, the more urgent.
Priority(e) ==
  Implemented(IF e \in Kernel THEN configKERNEL_INTERRUPT_PRIORITY
                              ELSE NVIC_SetPriority(Level[e]))

\* Mutant: the kernel's handlers keep their port names.
HandlerNotRenamed(e) == IF e \in Handled THEN e ELSE "Default_Handler"

\* The vector table: the port's handlers under the names of the table, drivers'
\* handlers, and Default_Handler behind every weak alias.
Handler(e) == IF e \in Kernel \cup Handled THEN e ELSE "Default_Handler"

VARIABLES
  pending,  \* exceptions raised and not entered
  active,   \* exceptions entered and not returned, the innermost last
  basepri, primask,
  locked,   \* contexts in a kernel critical section
  served,   \* active exceptions that have been through theirs
  halted,   \* a configASSERT has failed
  raised    \* how often each peripheral interrupt has been raised

vars == <<pending, active, basepri, primask, locked, served, halted, raised>>

Active  == {active[i] : i \in 1 .. Len(active)}
Current == IF active = <<>> THEN "thread" ELSE active[Len(active)]
Trapped == \E e \in Active : Handler(e) = "Default_Handler"

Init ==
  /\ pending = {} /\ active = <<>>
  /\ basepri = 0 /\ primask = FALSE
  /\ locked = {} /\ served = {}
  /\ halted = FALSE
  /\ raised = [i \in Irq |-> 0]

-----------------------------------------------------------------------------

RaiseIrq(i) ==
  /\ raised[i] < MaxRaised
  /\ raised' = [raised EXCEPT ![i] = @ + 1]
  /\ pending' = pending \cup {i}
  /\ UNCHANGED <<active, basepri, primask, locked, served, halted>>

\* The system timer counts down whatever the processor does.
RaiseSysTick ==
  /\ pending' = pending \cup {"SysTick"}
  /\ UNCHANGED <<active, basepri, primask, locked, served, halted, raised>>

\* The processor takes e now: nothing masks it, and what else is pending is not
\* more urgent.
Takes(e) ==
  /\ e \in pending
  /\ ~primask
  /\ \A a \in Active : Priority(e) < Priority(a)
  /\ basepri # 0 => Priority(e) < basepri
  /\ \A o \in pending : Priority(e) <= Priority(o)

Enter(e) ==
  /\ Takes(e)
  /\ pending' = pending \ {e}
  /\ active' = Append(active, e)
  /\ UNCHANGED <<basepri, primask, locked, served, halted, raised>>

\* Mutant: Default_Handler returns.
ReturnAlways ==
  /\ active # <<>> /\ ~halted
  /\ Current \notin locked
  /\ Current \in Kernel => Current \in served
  /\ active' = SubSeq(active, 1, Len(active) - 1)
  /\ served' = served \ {Current}
  /\ UNCHANGED <<pending, basepri, primask, locked, halted, raised>>

\* The handler of the current exception returns.  The kernel's own handlers have
\* been through their critical section; Default_Handler never returns.
Return ==
  /\ active # <<>> /\ ~halted
  /\ Handler(Current) # "Default_Handler"
  /\ Current \notin locked
  /\ Current \in Kernel => Current \in served
  /\ active' = SubSeq(active, 1, Len(active) - 1)
  /\ served' = served \ {Current}
  /\ UNCHANGED <<pending, basepri, primask, locked, halted, raised>>

\* The contexts that call the kernel.
CallsKernel ==
  /\ ~halted
  /\ Handler(Current) # "Default_Handler"
  /\ Current \in {"thread"} \cup Kernel \cup ApiUsers
  /\ Current \notin locked \cup served

\* The port asserts that an interrupt that calls the kernel has a priority the
\* kernel masks.
PriorityValid ==
  Current \in Irq => Priority(Current) >= configMAX_SYSCALL_INTERRUPT_PRIORITY

Lock ==
  /\ CallsKernel /\ PriorityValid
  /\ basepri' = Implemented(configMAX_SYSCALL_INTERRUPT_PRIORITY)
  /\ locked' = locked \cup {Current}
  /\ UNCHANGED <<pending, active, primask, served, halted, raised>>

\* Mutant: the assertion loops without disabling interrupts.
AssertFailsOpen ==
  /\ CallsKernel /\ ~PriorityValid
  /\ halted' = TRUE
  /\ UNCHANGED <<pending, active, basepri, primask, locked, served, raised>>

\* configASSERT: disable interrupts and loop.
AssertFails ==
  /\ CallsKernel /\ ~PriorityValid
  /\ primask' = TRUE
  /\ halted' = TRUE
  /\ UNCHANGED <<pending, active, basepri, locked, served, raised>>

\* Leaving the critical section, the kernel may have asked for a switch, which
\* PendSV itself never does.
Unlock ==
  /\ ~halted
  /\ Current \in locked
  /\ basepri' = 0
  /\ locked' = locked \ {Current}
  /\ served' = IF Current = "thread" THEN served ELSE served \cup {Current}
  /\ \/ UNCHANGED pending
     \/ Current # "PendSV" /\ pending' = pending \cup {"PendSV"}
  /\ UNCHANGED <<active, primask, halted, raised>>

EnterSome == \E e \in Exception : Enter(e)
Next ==
  \/ \E i \in Irq : RaiseIrq(i)
  \/ RaiseSysTick
  \/ EnterSome
  \/ Return
  \/ Lock \/ AssertFails \/ Unlock

Spec == Init /\ [][Next]_vars

\* The processor takes what it can take, and handlers and critical sections are
\* finite.
FairSpec ==
  /\ Spec
  /\ WF_vars(EnterSome) /\ WF_vars(Return) /\ WF_vars(Unlock)
  /\ WF_vars(Current # "thread" /\ (Lock \/ AssertFails))

-----------------------------------------------------------------------------

TypeOK ==
  /\ pending \subseteq Exception
  /\ active \in Seq(Exception) /\ Len(active) <= 16
  /\ basepri \in 0 .. 255 /\ primask \in BOOLEAN
  /\ locked \subseteq Exception \cup {"thread"} /\ served \subseteq Active
  /\ halted \in BOOLEAN
  /\ raised \in [Irq -> 0 .. MaxRaised]

\* Kernel data has one user at a time: of all contexts that preempt one another
\* at most one is in a critical section, also when a handler that may not call
\* the kernel does call it.
KernelExclusive == \A a, b \in locked : a = b

\* Every critical section leaves BASEPRI as it found it: interrupts are masked
\* while one is open and at no other time.
MaskedOnlyWhenLocked == (basepri # 0) <=> (locked # {})

\* Levels 0 to 4 are beyond the kernel's reach: only an interrupt at least as
\* urgent, or the end of everything, ever holds one of them back.
UrgentNeverMasked ==
  \A i \in Irq :
    /\ i \in pending /\ Level[i] < 5
    /\ \A a \in Active : Priority(i) < Priority(a)
    /\ \A o \in pending : Priority(i) <= Priority(o)
    /\ ~halted
    => Takes(i)

\* After a failed assertion nothing runs: "stop at the failing line so it can be
\* inspected with a debugger".
StopsDead ==
  [][halted => UNCHANGED <<active, basepri, primask, locked, served, halted>>]_vars

\* Default_Handler keeps the processor: neither the thread nor a handler of the
\* kernel runs again, so that an interrupt enabled without a handler stops
\* every task.
TrapStopsTasks ==
  [][Trapped => /\ Trapped'
                /\ ~(Current = "thread")'
                /\ \A k \in Kernel : k \in Active' <=> k \in Active]_vars

\* No tick is put off for ever and every one reaches the kernel, whatever the
\* other interrupts and however the critical sections fall, unless an interrupt
\* without a handler traps the processor or an assertion fails.
TickServed ==
  "SysTick" \in pending ~>
    ("SysTick" \in served \/ halted \/ \E i \in Irq \ Handled : i \in Active)
=============================================================================
