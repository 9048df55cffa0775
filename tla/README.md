# Verification of gps-fw

TLA+ models of the gps-fw firmware (STM32F411, FreeRTOS), the TLC runs that check
them on small instances, and TLAPS proofs of the properties that matter most for
every value of the parameters. Line numbers refer to the repository's files.

## 1. The system

What the repository contains and what its documentation describes are far apart.
The documentation (`src/README.md`, `src/docs/`) describes a tracker: a GNSS task,
a LoRa task, an SD task, a mailbox, a queue, a command FIFO and a watchdog
supervisor. The code is the platform under it: the reset code, the memory layout,
the clock variable, the interrupt priorities, the C library's system calls, two
data structures, and one task that increments a counter.

### Inventory

| component | source | state it keeps | operations | correct when |
|---|---|---|---|---|
| reset code | `startup_stm32f411xe.s` 60-101 | program counter, registers, RAM, FPU access | copy `.data`, clear `.bss`, call `SystemInit`, `__libc_init_array`, `main` | `main` finds every static variable at its initial value, whatever RAM held; nothing else is written |
| memory layout | `STM32F411xx_FLASH.ld` | none; a function of the section sizes | alignment, section bounds, overflow check | sections are disjoint, whole words, and above them there is room for the stack |
| application | `main.c` | `heartbeat`, the loop of `heartbeat_task`, where `main` is | create the task, start the scheduler, increment, delay | the counter moves by one per period and never stops; without memory nothing starts |
| kernel | `rtos/` (submodule, empty), `FreeRTOSConfig.h` | heap, task states, tick, delayed list, pending switch | `xTaskCreate`, `vTaskStartScheduler`, `vTaskDelay`, SysTick, PendSV, critical sections | no tick is lost, priorities decide, delays survive the wrap of the tick |
| exceptions and priorities | vector table and aliases (startup file 123-438), `FreeRTOSConfig.h` 96-128, `core_cm4.h` 1632-2036 | pending, enabled and active exceptions, priority bytes and their grouping, `BASEPRI`, `PRIMASK` | enable, pend, clear, set a priority, preempt, return, lock, unlock, assert, reset | one user of the kernel's data at a time; urgent interrupts are never masked; a failed assertion stops everything; every interrupt runs its own handler, the more urgent one first |
| system clock | `system_stm32f4xx.c` | `SystemCoreClock`, beside the RCC registers | `SystemCoreClockUpdate` | the variable is one clock of the processor, the one the update found, up to the truncation of the divisions |
| system calls | `syscalls.c` | `errno` | `_write`, `_read`, `_close`, `_lseek`, `_fstat`, `_isatty`, `_sbrk`, `_exit` | the null device its comments describe; `errno` is the error of the latest call that failed |
| telemetry structures | `gps_structs.h` | a frame in RAM | assign the members one by one | a filled frame has no byte of earlier memory but its known padding; its fields are those of the radio protocol |
| GNSS, LoRa, SD tasks, watchdog | documentation only | - | - | - |
| register layouts | `stm32f411xe.h`, `core_cm4.h` | the registers of the devices and of the processor | `SET_BIT`, `CLEAR_BIT`, `MODIFY_REG`, `POSITION_VAL`, `_VAL2FLD`, `_FLD2VAL`; access through the structs | each field reads back what was written to it and disturbs no other; each register is where its comment says |
| exclusive access | `stm32f4xx.h` 229-280, `cmsis_gcc.h` | the exclusive monitor, `PRIMASK` | the `ATOMIC_` macros, exclusive load and store | contexts that share a register never undo one another's updates, each update ends, and leaves the interrupt mask as it was |
| memory protection | `mpu_armv7.h` | the regions and the switch of the unit | set, clear and load regions, enable, disable | every region is what was last asked for |
| build script | `build.sh` | none | compile, link, flash | (host side) |

### How the parts interact

Everything starts in `Reset_Handler`. It relies on the symbols of the linker
script, calls `SystemInit`, which enables the FPU, and hands a prepared memory to
`main`. `main` creates one task and gives the processor to the kernel, which lives
in exceptions: SysTick counts and wakes, PendSV switches. Which exception may
interrupt which, and what a critical section holds back, follows from the bytes of
`FreeRTOSConfig.h` and from the names under which the kernel's handlers reach the
vector table; an exception that nobody named ends in `Default_Handler`, an endless
loop. `configCPU_CLOCK_HZ` is the variable `SystemCoreClock`, so the length of a
tick depends on it. All state is shared memory; there are no messages.

### What is hard about it

* **Interleaving.** The increment at `main.c:13` is a load, an add and a store;
  ticks and switches fall anywhere. A tick may wake the task while the switch that
  put it to sleep is still pending.
* **Crash and restart.** A reset keeps RAM. It may come in the middle of the copy,
  of the clearing, or after hours of running.
* **Boundaries.** The tick and the counter wrap; the boot loops store words into
  sections counted in bytes; only four bits of a priority byte exist; the PLL
  divides before it multiplies, in 32 bits.
* **Partial failure.** The heap may hold the task and not the idle task.
* **Stopping.** A trap and a failed assertion never end, and nothing restarts them.
* **Stale values.** The clock hardware follows a request later than the program
  reads it, and `SystemCoreClockUpdate` writes its variable twice. A register shared
  by two contexts changes between one's load and its store. Registers such as ICER and
  AIRCR do not read back what was written.
* **Thousands of constants.** Positions, masks, offsets, interrupt numbers and a table of
  handlers agree with one another only if every one of them is right.

`PROJECT.json` lists every hazard at its line, with the property that would catch it
going wrong, or the reason why none does yet.

## 2. The modules

| module | models | refines |
|---|---|---|
| `LinkerLayout` | RAM map of the linker script | |
| `BootContract` | abstract: what a reset promises to a C program | |
| `Startup` | `Reset_Handler`, resets, the program's writes | `BootContract` |
| `Pulse` | abstract: what the heartbeat promises | |
| `Heartbeat` | `main`, `heartbeat_task`, the kernel | `Pulse` |
| `SystemClock` | `SystemCoreClockUpdate` beside the clock tree | |
| `Interrupts` | vector table, priorities, masking, `configASSERT` | |
| `Syscalls` | the functions of `syscalls.c`, one `errno`, stdio above them | |
| `Firmware` | composition: boot, program (an INSTANCE of `Heartbeat`), traps, resets | |
| `VectorTable` | the interrupt numbers and the vector table, word by word | |
| `Nvic` | `NVIC_` functions, `SysTick_Config`, the processor's choice of what to run | |
| `RegisterMacros` | the register and bit-field macros, on words as sets of bits, and numbers as words | |
| `RegisterLayout` | the forms in which the headers define a field, by a position and a mask | |
| `SystemRegisters`, `PortRegisters`, `TimerRegisters`, `SerialRegisters`, `UsbRegisters`, `CoreRegisters` | the fields of every register that has more than one | |
| `RegisterFields` | a driver that sets up a register field by field | |
| `AtomicAccess` | contexts that share a register, instruction by instruction | |
| `CLayout` | how the compiler lays out a struct | |
| `PeripheralStructs`, `CoreStructs`, `TelemetryStructs` | the structs and their places | |
| `DeviceMap` | drivers and tasks that assign the members of structs in one memory | |
| `TelemetryFrame` | a filled frame in that memory | |
| `Headers` | composition: `RegisterFields` beside an INSTANCE of `TelemetryFrame` | |
| `Mpu` | `mpu_armv7.h`, store by store | |
| `StartupProofs`, `HeartbeatProofs`, `InterruptsProofs`, `SystemProofs`, `FirmwareProofs`, `HeaderProofs`, `AtomicProofs`, `ProcessorProofs` | proofs, each extending the modules of its components | |
| `MC*` | values of the constants for TLC | |

An operator whose comment starts with "Mutant:" is not part of a model. It is a
plausible error in the definition below it, kept so that it can be seen that the
property named for it in `PROJECT.json` fails when the code is wrong in that way.

### Correspondence with the code

**Startup.** One action per basic block, named after its label: `ResetHandler`
(60-71, with `SystemInit`), `LoopCopyDataInit` (78-87, with the set-up of the second
loop, which falls through), `CopyDataInit` (73-76), `LoopFillZerobss` (93-95),
`FillZerobss` (89-91), `LibcInitArray` (98), `CallMain` (100). `ram` is a function
from byte addresses to bytes and a store writes four of them, so that a store beyond
a section is a change of the neighbour and a store outside RAM enlarges the function
and breaks `TypeOK`. A call may leave anything in the stack frames below the top of
the stack. `Reset` may come after every instruction and keeps `ram`; the registers
come back as anything. One iteration of a loop being two actions is as fine as
needed: no interrupt is enabled before `main`, so nothing but a reset observes the
steps between.

**Heartbeat.** `CreateTask` and `StartScheduler` are lines 19-28 of `main.c` with
both error loops (`mainPc` "no_task" and "no_scheduler"). `LoadHeartbeat`,
`StoreHeartbeat` and `Delay` are the loop of `heartbeat_task`; `-O0` and `volatile`
make the increment a load, an add and a store. The kernel is external and modelled
by how `main.c` and `FreeRTOSConfig.h` use it: allocation from a heap of
`configTOTAL_HEAP_SIZE`, preemption, idle priority below the task's, a relative delay
in a wrapping tick counter with its overflow list (`tick' = wake` is what the two
lists amount to), and a switch that waits as a pending PendSV. `since`, `slip` and
`beaten` are history variables.

**SystemClock.** One action per assignment that another context can see:
`ReadSource` (the switch over SWS), `ComputeVco`, `DividePll`, `Prescale`. The clock
tree's actions are external, and the hardware may switch over at any moment, also
between two of these. `read` and `seen` are history variables: the source in use when
the update under way, and the last one that ended, looked. `right` ends when the program
writes the prescaler or the settings of the PLL that was seen; a switch of the source
does not end it. The divisor table of the code (`AHBPrescTable`) and the
divider of the hardware (`HpreDivider`, from the encodings in `stm32f411xe.h`) are
two independent definitions and `MatchesClock` compares them.

**Interrupts.** The priority constants are computed as the header computes them,
shifts included, and cut to the implemented bits where the hardware does. `Handler`
is the vector table after linking. `Enter` is the processor's preemption rule,
`Lock` and `Unlock` are the port's critical section, `AssertFails` is `configASSERT`
reached through the port's check of the caller's priority.

**Syscalls.** Each function of `syscalls.c` is an operator of its name that gives the
value returned and the error stored, if any; one action per function lets a task make
the call. `CallDirectly`, `Printf` and `ReadInput` are the external callers: stdio asks
for the status of a stream and for a buffer at its first use, goes unbuffered when
`_sbrk` refuses, and writes until all bytes are taken. Between a failed call and
`Check` any other task may run and store its own error in the one `errno`.

**Firmware.** `Program(HB!Next)` runs `Heartbeat` while the processor is up. `Boot`
is the boot code by its contract: `Startup` shows that its many steps look like this
one, so it is one action here, and what it takes from the run before is nothing: the
counter and the kernel's lists are in memory that it prepares. `Trap` is what
`Interrupts` shows to be final: an exception without a handler or a failed assertion.

**VectorTable and Nvic.** `IRQn_Type` is the enumeration of `stm32f411xe.h`,
`g_pfnVectors` the words of the startup file with their reserved entries; neither is
derived from the other, and `RunsOwnHandler` compares them through the processor's
fetch (`VectorOf`). Each `NVIC_` function is an action of its name: the word and the bit
of an interrupt, the grouping with AIRCR's key, the packing of a priority into the upper
bits of a byte, the two register files for interrupts and for exceptions. What a
register reads as, and `Enter` and `Return`, are the processor's and external.

**RegisterMacros, RegisterLayout, the `...Registers` and RegisterFields.** A word is the
set of its 1 bits, so that `|`, `&` and `~` are set operations and a mask is a range of
bits. A register is a record of its fields, each with the position of its `_Pos` macro and
the mask of its `_Msk` macro: `Bit` and `Run` are masks shifted by the position,
`Unshifted` one whose shift is commented out, so that position and mask may disagree. They
do in `TPI_DEVTYPE`; and `TPI_ITATBCTR2` and `TPI_ITATBCTR0` have two fields on bit 0 each.
These three are `SharedLayouts`, looked at by a run of their own; every other register of
more than one field is in `headers`. Left out are the second names that a field has for
older programs, and those of its single bits. The unions of
`APSR`, `xPSR` and `CONTROL` are a third view of the same word. `RegisterFields` has an
action per macro; `intended` is what the driver believes to have written.

**AtomicAccess.** One action per instruction of the loop: `LDREX`, `STREX`, and for
the plain update under `PRIMASK` `GetPrimask`, `DisableIrq`, `LDR`, `STR`, `SetPrimask`. The
halfword macros differ in the bits an access carries. `HoldOff` and `Release` are
`__disable_irq` and `__enable_irq` around updates that belong together, so that a plain
update finds interrupts held off already, and `held` remembers that it did. An exception entry, an exception
return and a switch of tasks clear the exclusive monitor, as the Cortex-M4 does.

**CLayout, the `...Structs` and DeviceMap.** Members follow one another at their natural
alignment; `doc` is the offset the comment beside a declaration gives. `Assign` stores
a distinguishable value to every byte of every named member, and memory knows addresses
only, so that two registers on one address, or one beside its documented place, shows.

**Mpu.** The macros pack a region's two words; a call is the list of its stores and
`Store` makes one of them at a time. `ARM_MPU_Load` copies its table four rows at a
time through the alias registers, one `ARM_MPU_OrderedMemcpy` step per word. Each macro of
a kind of memory is compared with the architecture's table of what the bits mean.

## 3. The runs

Each run finishes within two minutes with two workers.

| run | states | bounds | what it shows |
|---|---|---|---|
| `startup` | 3,096 | 32 bytes of RAM, 5 of `.data`, 6 of `.bss`, 3 resets, 3 power-on contents | `ReadyForC`, `NoStrayWrite`, `CopiedStays`, `MainIsReached`, and `ImplementsContract` |
| `heartbeat` | 4,632 | period 3, tick modulo 5, counter modulo 4, up to 4 late ticks per beat, heaps for no, one and both tasks | `WakeAhead`, `RunsByPriority`, `BeatSpacing`, `KeepsBeating`, `NeverHalfStarted`, `ImplementsPulse` |
| `system_clock` | 503,040 | the device's oscillators in kHz, 6 PLL settings, all prescalers | `MatchesClock`, `NeverTooLow` |
| `interrupts` | 129,876 | 4 peripheral interrupts raised twice each, unbounded ticks | `KernelExclusive`, `UrgentNeverMasked`, `StopsDead`, `TrapStopsTasks`, `TickServed` |
| `syscalls` | 135,369 | 2 tasks, 2 descriptors for direct calls, both output streams | `PrintfSucceeds`, `LatestError`, `CallsEnd` |
| `firmware` | 46,242 | the kernel of `heartbeat`, 2 resets, 2 traps | `CountsFromZero`, `FirstBeatAtOnce`, `BeatsOrStuck` |
| `firmware_watchdog` | (violation) | as `firmware` | `StallRestarts` does not hold: see the findings |
| `headers` | 22,745 | every register of several fields but three, 4 contents, 1 write; every two of 139 structs | `ReadsBack`, `ReservedKept`, `AtDocumentedAddress`, `OnlyKnownStale` |
| `device_type` | (violation) | the three registers whose fields share bits | `ReadsBack` does not hold for `TPI_DEVTYPE`: see the findings |
| `frame_size` | (violation) | the structs of `headers` | `FrameHas32Bytes` does not hold for the telemetry frame |
| `atomic_access` | 3,056,352 | 2 tasks, 1 handler, 4 bits of one register, unbounded updates, sections and preemptions | `NoUpdateLost`, `StoresFresh`, `MaskPutBack`, `UpdatesEnd` |
| `processor` | 580,956 | 93 pairs of interrupts, 2 groupings, 2 levels; 2 changes of regions among 69, and tables of up to 9 rows | `ReadsBack`, `RunsOwnHandler`, `UrgentFirst`, `AsAsked` |

A run's properties are the ones that are about more than one assignment. The type
invariants of `Startup`, `Interrupts`, `Syscalls`, `Firmware`, `AtomicAccess`, `Nvic` and
`Mpu`, and `MaskedOnlyWhenLocked` and `OthersKept`, are proved for every value of the
constants (section 4) and are not run a second time. That of `SystemClock` is a part of
what its proof carries along.

`headers` and `processor` each look at two parts that share no state, so that a step of
one can do nothing to the other: a behaviour picks one of them at the start
(`layout`, `unit`) and the other stands still.

**Why the bounds are enough.**

* `startup`: neither section is a multiple of a word before alignment, both need more
  than one iteration, RAM has no unreserved byte, and three resets allow a boot cut
  short during a boot after a run. Registers return as a value that is aligned and
  one that is not. Sizes and contents beyond these are covered by the proofs.
* `heartbeat`: five ticks to the wrap and three to the period are coprime, so the wrap
  meets every phase of the loop. Heaps 2 to 6 are below the task, the task alone,
  between, both exactly, both with room. `MaxSlip` bounds how late the task may be:
  it keeps `since` finite and exceeds the period, so a whole period can be lost.
* `system_clock`: the settings include exact ones, truncating ones, the extremes
  of the multiplier and of the output divider, and one that no device accepts, whose
  product leaves the word: of it nothing is claimed (`VcoFits`). Nor does any setting whose
  frequency fits the word lose it on the way, as one would if the code multiplied before
  it divided. Frequencies in kHz keep the
  products within TLC's integers; the code's arithmetic is the same in every unit,
  except that truncation in kHz is coarser, and the property states its bound.
* `interrupts`: levels below, at and above the kernel's limit, a caller on each side of
  it, an unhandled one, and more raises than nesting needs. An interrupt raised while
  pending merges, as in the hardware, so two raises suffice for one to be
  pending while it is active.
* `syscalls`: two tasks are enough for one to intrude between the other's failure and its
  look at `errno`, and for both to set up a stream together. The descriptors are one
  that some calls accept and one that none does; no function looks at
  more of its arguments than that, or at the length beyond returning it.
* `headers`: a driver's next write meets what earlier ones left, and the four contents
  stand for that: none, all, and every other bit, so that each bit of a field is met
  as 0 and as 1, beside neighbours of both kinds. The theorems cover every content
  and any number of writes. A struct is disturbed by one other struct at a
  time, so every two of them suffice; both orders are taken. That this is enough for any
  number of structs is a theorem, too (`AtDocumentedAddressHolds`).
* `atomic_access`: an update is lost to one other context; two tasks and a handler give
  a switch, a preemption, and a preemption of a task that was switched to. Each may hold
  interrupts off around its updates or not. The theorems cover any number. The register and its bits are those of `RCC_APB1ENR`, two of which belong
  to one task, so that it clears one and keeps the other.
* `processor`, interrupts: what one can do to another is between the two. Neighbours in
  number meet in one word and in adjacent entries of the table, and equal bits in
  different words. Groupings 3 and 5 give four and two bits of preemption priority,
  levels 0 and 3 equal and different ones. The periods are both sides of both limits of
  `SysTick_Config`. Addresses and register words from 2^31 on are negative in TLC and are
  only compared.
* `processor`, protection: two calls give every later change over every earlier one. The
  tables end before, at and behind each multiple of four rows, may have two rows
  for one region, and start at two places, so that the numbers wrap. The theorems of
  `ProcessorProofs` cover every set of interrupts, every grouping and level, every region
  and address, tables of every length, and any number of calls.
* `firmware`: two resets give a run before, between and after, and they come at every
  moment of a delay; two traps one that a reset ends and one that stays.

**Deadlock.** It is checked in `startup`, `system_clock`, `interrupts`, `atomic_access` and
`processor`. `headers` stops when the bound on writes or on structs is reached. The loops of
`main` without memory (`heartbeat`) and a stuck processor with no reset left
(`firmware`), and tasks that have all called `_exit` (`syscalls`), are states in which nothing more happens, by design of the code, so the
check is off there; `KeepsBeating` and `BeatsOrStuck` say more than its absence.

**Fairness.**

* `startup`: weak fairness of the boot's own steps; a processor that is not reset
  executes. No fairness for `Reset` or for what the program does.
* `heartbeat`: weak fairness of `main`, of the running task, of SysTick (a free-running
  timer) and of PendSV (a pending exception is taken when nothing outranks it). The
  guard of SysTick with `MaxSlip` keeps the timer from outrunning the processor for
  ever, which is the assumption that a loop of three statements takes less than the
  tick interval most of the time.
* `interrupts`: weak fairness of taking what can be taken, of a handler's return and of
  its critical section; handlers are finite. The thread owes nothing: it need not
  ever call the kernel. Raising has no fairness and is bounded, because
  an interrupt that is raised without end does starve the tick.
* `firmware`: as `heartbeat`, while up and not stuck, and of `Boot`. None for `Reset`,
  because no code makes one come, and none for `Trap`.
* `syscalls`: weak fairness of every task that is in a call: tasks of one priority share
  the processor by time slices (`configUSE_TIME_SLICING`), also with one that loops in
  `_exit`. Tasks of different priorities would not, and the run does not speak of them.
* `atomic_access`: weak fairness of the instructions of whoever runs; nothing makes a
  preemption come or a new update begin. `UpdatesEnd` allows the one way not to end:
  being preempted for ever.
* `system_clock`, `headers` and `processor` have no liveness property.

### Findings

**No watchdog** (`firmware_watchdog`). `docs/fault-handling.md:25`: "If a critical task stops executing, the watchdog is not
refreshed and the MCU restarts through the startup sequence." No code starts a
watchdog. `StallRestarts` states the sentence; TLC finds a fair behaviour in
which a trap leaves the processor in `Default_Handler` for ever.

**Fields of the trace port** (`device_type`). `core_cm4.h:1193` gives the field
position 4 and `core_cm4.h:1194` the mask 0xF without the shift; those are the bits of
`MajorType`. `_FLD2VAL` of the field is 0 whatever the register holds: this is the
state TLC stops at. The two fields of `TPI_ITATBCTR2` (`core_cm4.h:1133-1138`) and of
`TPI_ITATBCTR0` (`core_cm4.h:1162-1167`), `ATREADY2` and `ATREADY1`, both have position 0
and mask 0x1, so that each reads what was written to the other.

**The size of the frame** (`frame_size`). `docs/protocol.md:5` says that the binary frame is 32
bytes and `docs/protocol.md:27` lists a `version` byte. `telemetry_frame_t` has no such
member, and its fields make 31 bytes.

## 4. The proofs

Everything below holds for every value of the constants that satisfies the modules'
named assumptions, and no proof step is taken on trust.

**`StartupProofs`**, from `LayoutAssumption` (a word-aligned RAM region, an image that
links) and `StartupAssumption`. `MemoryMap` derives from ALIGN and the overflow check
that `.data`, `.bss` and the stack follow each other without overlap and in whole words.
The safety properties are not inductive: that `.data` is ready at `main` depends on
what the loops have done so far. `BootInv` strengthens them with a part per phase:
`CopyInv` (the bytes below `r3` are copied, `r3` is a multiple of four and not beyond
the section), `ZeroInv` (all of `.data` is copied, the bytes of `.bss` below `r2` are zero,
`r3` is zero) and `DoneInv`. `CopyEffect` and `ZeroEffect` say what one store
does to those ranges. From `BootInvariant`: `TypeCorrect`, `ReadyForCHolds`,
`NoStrayWriteHolds`, `CopiedStaysHolds`, and `ImplementsContractSafety`, the
refinement of `BootContract` without its fairness.

**`HeartbeatProofs`**, from `HeartbeatAssumption` (a delay of at least one tick and fewer
than the tick counter tells apart; with 1000 Hz and 32 bits it is 500 of 2^32).
`UntilPlus` and `UntilTick` are the arithmetic of the wrap. `KernelInv` strengthens
`WakeAhead` and `RunsByPriority` with where the task stands in its loop: the register
is the counter while a store is due (`FreshRegister`), and how `since` and `slip`
relate at every label (`Spacing`). From `KernelInvariant`: `TypeCorrect`,
`WakeAheadHolds`, `RunsByPriorityHolds`, `BeatSpacingHolds` and `ImplementsPulseSafety`.

**`InterruptsProofs`**, from `InterruptsAssumption` (levels 0 to 15; every handler that calls
the kernel is defined). `LimitValue` and `PriorityValue` compute the bytes the shifts of the
configuration give. `KernelExclusive` is not inductive: it needs `Shielded` (whatever
has preempted an open critical section is above the kernel's limit), which needs
`Masked` (BASEPRI is that limit while one is open) and `Descending` (only what is
more urgent preempts). `LockAlone` is the heart of it: a context that may call the
kernel is not above the limit, so it has not preempted a critical section. `Depth` (the
i-th active exception has one of the 17 - i most urgent priorities) bounds the
nesting. From `PriorityInvariant`: `TypeCorrect`, `KernelExclusiveHolds`,
`MaskedOnlyWhenLockedHolds`, `UrgentNeverMaskedHolds`, `StopsDeadHolds` and
`TrapStopsTasksHolds`.

**`SystemProofs`**, the two files beside `main.c`. *The clock*, from `ClockAssumption`
(oscillators whose frequency fits a word, and any PLL settings but a divisor of 0). TLC compares frequencies
in kHz; here they are any. `ShiftIsDivider` settles that the shift by the code's table is
the division by the hardware's divider, for each of the sixteen encodings.
`ChainAtMost` and `ChainAtLeast` bound what a chain of truncating divisions loses against
the exact quotient, from both sides, and `SourceMatches` puts the result between `Lowest`
and `Highest`. That the product of a VCO that fits the word fits it, too, is
`ProductFits`. `Progress` strengthens the invariants with what each intermediate
variable holds at each label. Results: `MatchesClockHolds`, `NeverTooLowHolds`. *The system calls*, for any set of tasks, descriptors and lengths.
`LatestError` needs `ErrnoOfLast` (`errno` is that of the latest failure) and `Failed` (who
looks at `errno` has failed, so some call has), and
`PrintfSucceeds` needs `Streams` (stdio writes only to an output stream, so `_write`
cannot refuse). Results: `CallsTypeCorrect`, `PrintfAlwaysSucceeds`, `LatestErrorFound`.

**`FirmwareProofs`**, from `FirmwareAssumption`. The program of `Firmware` is an INSTANCE
of `Heartbeat`; the proof instantiates `HeartbeatProofs` in the same way and
uses its `KernelInv` and its step lemmas, so that nothing about the kernel is proved
twice. What is added is the life around it: down, up, stuck, reset; and `Prompt`, that until
the first beat of a run every tick has found the task ready. Results: `TypeCorrect`,
`CountsFromZeroHolds`, `FirstBeatHolds`.

**`HeaderProofs`**, for any headers, where `headers` looks at the repository's. `Both` says
that a behaviour of `Headers` is one of `RegisterFields` and one of `DeviceMap`.

* *Fields*, from `WellFormed`: the fields of a register are runs of bits that share none
  (`FieldsApart`, which TLC checks of every register of the headers as a part of
  `TypeOK`), and a value that is written fits its field. `PositionIsLow` is
  POSITION_VAL's arithmetic, `RoundTrip` the two shifts, `OneField` the one fact behind
  every macro: a write puts a value in place of one field's bits. Results: `TypeCorrect`,
  `ReadsBackHolds`, `ReservedKeptHolds`, for any number of writes.
* *Struct types.* `Places` is a recursion over the members. `EndsExist` builds its solution
  and `PlacesFollow` shows that the definition chooses one; both argue by the least
  number for which the claim would fail (`Least`, from the library's theorem that < is
  well-founded), so no induction theorem with an operator for parameter is needed.
  Result: `MembersApart`, for any struct type.
* *Objects in one memory.* `StoredInv` says which addresses have been stored to and
  `MemoryInv` what they hold. `AtDocumentedAddressHolds` takes `WellPlaced`, a statement about
  pairs of members, and gives the property for any number of objects in any
  order. The pairs are what the run checks, by using every two structs together.
* *The telemetry frame.* `FixPlaces` and `FramePlaces` compute the layout of the two
  structs from `gps_structs.h`. `OnlyKnownStaleHolds` takes `FrameAt(address)`: the two are
  in memory at any address, and no other object lies inside.

**`AtomicProofs`**, from `ShareAssumption` (the contexts' bits are disjoint), for any number of
tasks and handlers. `NoUpdateLost` is not inductive: it needs `StoresFresh`, which needs
that an open monitor means nothing has intervened and that a masked update is alone
(`MaskedAlone`). `MaskPutBack` needs `SavedMask`: who has read the mask and still runs has
read the right one, because whoever preempted it has put it back. `FreshStore` is the step that counts: a store of a fresh value
changes the bits of the update and no others. Results: `TypeCorrect`, `NoUpdateLostHolds`,
`StoresFreshHolds`, `MaskPutBackHolds`, `OthersKeptHolds`.

**`ProcessorProofs`**, two models of the processor.

* *Interrupts*, from `NvicAssumption` (the interrupts are of `IRQn_Type`, a grouping has three
  bits). `BitsAgree` says of every interrupt that its bit in each register file is what was
  asked of that interrupt; a store to another's word or bit must not disturb it
  (`SetsOwnBit`, `ClearsOwnBit`, which need that no two interrupts have a word and a bit in
  common). `BytesAgree` says how a priority's byte divides under the grouping in force;
  `Splits`, `PartsOfByte` and `OrderOfBytes` are the arithmetic of that, for each grouping.
  `NvicInv` is the types with both, and inductive. `OwnVector` follows the vector table
  block by block (`Places`), and with `OneNumberEach` no two interrupts have one entry.
  For `UrgentFirst`, `SameOrder` shows that the bytes the hardware compares are ordered
  as the priorities that were asked for. Results: `NvicTypeCorrect`, `NvicReadsBack`,
  `NvicRunsOwnHandler`, `NvicUrgentFirst`.
* *Protection unit*, from `MpuAssumption` (the changes and the rows of the tables are among
  `Settings`: any address the field holds, every size and access right that has a name,
  and the kinds of memory that have a macro). `AsAsked` is about a unit at rest, so `MpuInv` says
  what holds in the middle of a call: `SettingRegion` (the region is selected, then its
  address stored, then its attributes, and no other region is touched), `Switching`, and
  `Loading` (the rows copied so far are right, those `Left` are still to come, and of
  two rows for one region the last counts, `LastRow`). `RightIsEnforced` is what
  packing and unpacking come to: the two words of a row, read as the architecture
  reads them, are the access, the memory, the size and the subregions asked for. `Reached` shows
  that four alias registers lead to four regions, and where the numbers wrap.
  Results: `MpuInvariance`, `MpuAsAsked`.

TLC checked `NvicInv` and `MpuInv` on the instances of `processor` before they were proved.

**Only model-checked.** Liveness and the fair halves of both refinements
(`MainIsReached`, `KeepsBeating`, `NeverHalfStarted`, `TickServed`, `BeatsOrStuck`,
`CallsEnd`, `UpdatesEnd`, and the fairness in `ImplementsContract` and
`ImplementsPulse`), which this prover does not reach; and the contents of the headers,
which are the hypotheses of `HeaderProofs`: that the masks of each register lie apart
and that each struct is where its comments say. They are facts about some thousands
of constants, and TLC evaluates every one.

## 5. What is not modelled

* The kernel's own code: `rtos/` is an empty submodule. Everything about it is marked
  external in the map and comes from its use. Its queues, mutexes, timers and
  notifications are configured and used by nothing.
* The tasks and the watchdog of the documentation: there is no code.
* stdio beyond the calls it makes: its locks, its shared buffers and its formatting.
* Stack depth. `configCHECK_FOR_STACK_OVERFLOW` is 0 and a task has 128 words; how deep the
  calls go is the compiler's and the kernel's, neither of which is in the repository.
* The devices behind the registers: what a peripheral does with what it is told. No
  driver is in the repository.
* Of `cmsis/`: the SIMD and saturation intrinsics, each one instruction, which nothing
  uses; the selection of a compiler; the debug output through the ITM; the lists of
  instances (`IS_..._INSTANCE`); and the names for single values of a field. Registers
  of one field, whose mask cannot overlap another's, and second names of a field.
* Setting the protection unit's regions from two contexts at once: the functions do
  nothing against it, and there is no caller whose locking could be modelled.
* A PLLM of 0, which would divide by zero at `system_stm32f4xx.c:241`: PLLCFGR resets to
  16, the reference manual forbids 0 and 1, and no code writes it. `ClockAssumption`
  names the precondition.
* The flash sections of the image.
* The build script: commands on the host, one after the other, of which the first to fail
  ends the script (`set -e`). It links with `-nostdlib` and names no library, while the
  startup file calls `__libc_init_array`; the models describe an image that links.

## 6. Plan

Done: 1. `LinkerLayout`, `BootContract`, `Startup` with proofs. 2. `Pulse`, `Heartbeat`
with proofs. 3. `SystemClock` with proofs, and `Interrupts` with proofs. 4. `Firmware` with
proofs. 5. `Syscalls` with proofs. 6. The register layouts, `RegisterFields` and
`AtomicAccess` with proofs. 7. `DeviceMap` with the telemetry frame, with proofs.
8. `VectorTable`, `Nvic`, `Mpu` with proofs. Every safety property that a run checks is a
theorem.

Next: with the repository's GNSS, LoRa and SD tasks, when they are written, the mailbox
`latest_fix`, the queue `sd_log_queue` and the command FIFO of `docs/architecture.md`,
composed with `Heartbeat`'s kernel and with `AtomicAccess` for the registers they share; and
the watchdog supervisor, which `StallRestarts` is waiting for.
