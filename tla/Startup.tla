------------------------------- MODULE Startup -------------------------------
(***************************************************************************)
(* Reset_Handler of startup_stm32f411xe.s, one action per basic block: the *)
(* call of SystemInit, the loop that copies the initial values of .data    *)
(* from flash, the loop that clears .bss, the static constructors and the  *)
(* entry of main, over the RAM map of the linker script.  A reset may come *)
(* at any moment and keeps what RAM holds.                                 *)
(*                                                                         *)
(* RAM is modelled byte by byte and the loops store words, so that a store *)
(* past the end of a section is seen.  r2 and r3 are the registers the two *)
(* loops share: r3 is first the copy offset and then the word stored into  *)
(* .bss, r2 the cursor of the second loop.  r0, r1 and r4 only hold linker *)
(* symbols or a sum of them and are written out.                           *)
(***************************************************************************)
EXTENDS LinkerLayout

CONSTANTS
  sidata,      \* load address of .data in flash
  Flash,       \* contents of flash, from sidata on
  PowerOnRam,  \* what RAM may hold when power comes up
  RegJunk,     \* what a register may hold after a reset
  Junk,        \* the bytes that stack frames and the running program write
  FrameBytes,  \* the deepest stack the calls made before main need
  Touched,     \* the addresses the running program writes
  MaxResets    \* bound: resets per power-on

Byte == 0 .. 255

ASSUME StartupAssumption ==
  /\ sidata \in Nat
  /\ Flash \in [sidata .. sidata + (edata - sdata) - 1 -> Byte]
  /\ PowerOnRam \subseteq [RamAddr -> Byte]
  /\ RegJunk \subseteq Nat
  /\ Junk \subseteq Byte
  /\ FrameBytes \in 0 .. MinStackSize
  /\ Touched \subseteq RamAddr
  /\ MaxResets \in Nat

VARIABLES
  pc,      \* the label the processor is at
  ram,     \* contents of RAM, by byte address
  r2, r3,  \* registers
  fpu,     \* CPACR gives full access to CP10 and CP11
  resets   \* resets so far

vars == <<pc, ram, r2, r3, fpu, resets>>

Label == {"Reset_Handler", "LoopCopyDataInit", "CopyDataInit",
          "LoopFillZerobss", "FillZerobss", "libc_init_array", "main",
          "running"}

FrameAddr == estack - FrameBytes .. estack - 1

\* ldr: the word at address a of memory m.
LoadWord(m, a) == [i \in 0 .. 3 |-> m[a + i]]

\* The four bytes of a register, least significant first.
WordOf(v) ==
  [i \in 0 .. 3 |-> CASE i = 0 -> v % 256
                      [] i = 1 -> (v \div 256) % 256
                      [] i = 2 -> (v \div 65536) % 256
                      [] i = 3 -> (v \div 16777216) % 256]

\* str: memory m after word w is stored at address a.  An address outside RAM
\* joins the domain, so that such a store is seen.
StoreWord(m, a, w) ==
  [x \in DOMAIN m \cup (a .. a + 3) |-> IF x \in a .. a + 3 THEN w[x - a] ELSE m[x]]

\* A call returns, leaving anything in the frames below the top of the stack.
UseStack(m) ==
  {[x \in DOMAIN m |-> IF x \in FrameAddr THEN f[x] ELSE m[x]] :
     f \in [FrameAddr -> Junk]}

Init ==
  /\ pc = "Reset_Handler"
  /\ ram \in PowerOnRam
  /\ r2 \in RegJunk /\ r3 \in RegJunk
  /\ fpu = FALSE
  /\ resets = 0

-----------------------------------------------------------------------------

\* SystemInit: the only statement compiled for this device enables the FPU.
SystemInit == fpu' = TRUE

\* Set the stack pointer, call SystemInit, prepare the copy loop.
ResetHandler ==
  /\ pc = "Reset_Handler"
  /\ SystemInit
  /\ ram' \in UseStack(ram)
  /\ r2' = sidata
  /\ r3' = 0
  /\ pc' = "LoopCopyDataInit"
  /\ UNCHANGED resets

\* Mutant: "movs r3, #0" before the second loop is dropped.
LoopCopyDataInitKeepsR3 ==
  /\ pc = "LoopCopyDataInit"
  /\ \/ /\ sdata + r3 < edata
        /\ pc' = "CopyDataInit"
        /\ UNCHANGED r2
     \/ /\ sdata + r3 >= edata
        /\ pc' = "LoopFillZerobss"
        /\ r2' = sbss
  /\ UNCHANGED <<ram, r3, fpu, resets>>

\* Mutant: the second loop starts at _sdata.
LoopCopyDataInitFromSdata ==
  /\ pc = "LoopCopyDataInit"
  /\ \/ /\ sdata + r3 < edata
        /\ pc' = "CopyDataInit"
        /\ UNCHANGED <<r2, r3>>
     \/ /\ sdata + r3 >= edata
        /\ pc' = "LoopFillZerobss"
        /\ r2' = sdata
        /\ r3' = 0
  /\ UNCHANGED <<ram, fpu, resets>>

\* adds r4, r0, r3; cmp r4, r1; bcc: go on while _sdata + r3 is below _edata.
LoopCopyDataInit ==
  /\ pc = "LoopCopyDataInit"
  /\ \/ /\ sdata + r3 < edata
        /\ pc' = "CopyDataInit"
        /\ UNCHANGED <<r2, r3>>
     \/ /\ sdata + r3 >= edata
        /\ pc' = "LoopFillZerobss"
        /\ r2' = sbss
        /\ r3' = 0
  /\ UNCHANGED <<ram, fpu, resets>>

\* ldr r4, [r2, r3]; str r4, [r0, r3]; adds r3, r3, #4
CopyDataInit ==
  /\ pc = "CopyDataInit"
  /\ ram' = StoreWord(ram, sdata + r3, LoadWord(Flash, r2 + r3))
  /\ r3' = r3 + 4
  /\ pc' = "LoopCopyDataInit"
  /\ UNCHANGED <<r2, fpu, resets>>

\* Mutant: the last word of .bss is left out.
LoopFillZerobssShort ==
  /\ pc = "LoopFillZerobss"
  /\ \/ r2 + 4 < ebss  /\ pc' = "FillZerobss"
     \/ r2 + 4 >= ebss /\ pc' = "libc_init_array"
  /\ UNCHANGED <<ram, r2, r3, fpu, resets>>

\* cmp r2, r4; bcc: go on while r2 is below _ebss.
LoopFillZerobss ==
  /\ pc = "LoopFillZerobss"
  /\ \/ r2 < ebss  /\ pc' = "FillZerobss"
     \/ r2 >= ebss /\ pc' = "libc_init_array"
  /\ UNCHANGED <<ram, r2, r3, fpu, resets>>

\* Mutant: "adds r2, r2, #4" is dropped.
FillZerobssStuck ==
  /\ pc = "FillZerobss"
  /\ ram' = StoreWord(ram, r2, WordOf(r3))
  /\ pc' = "LoopFillZerobss"
  /\ UNCHANGED <<r2, r3, fpu, resets>>

\* str r3, [r2]; adds r2, r2, #4
FillZerobss ==
  /\ pc = "FillZerobss"
  /\ ram' = StoreWord(ram, r2, WordOf(r3))
  /\ r2' = r2 + 4
  /\ pc' = "LoopFillZerobss"
  /\ UNCHANGED <<r3, fpu, resets>>

\* bl __libc_init_array: the C firmware has no constructor and _init is empty.
LibcInitArray ==
  /\ pc = "libc_init_array"
  /\ ram' \in UseStack(ram)
  /\ pc' = "main"
  /\ UNCHANGED <<r2, r3, fpu, resets>>

\* bl main.  main never returns, so the bx lr behind it is not reached.
CallMain ==
  /\ pc = "main"
  /\ pc' = "running"
  /\ UNCHANGED <<ram, r2, r3, fpu, resets>>

\* The program writes one byte: a variable, a heap block or a stack slot.
ProgramWrites ==
  /\ pc = "running"
  /\ \E a \in Touched, v \in Junk : ram' = [ram EXCEPT ![a] = v]
  /\ UNCHANGED <<pc, r2, r3, fpu, resets>>

\* NRST, a brown-out above RAM retention, a watchdog, a debugger: the core
\* starts over, CPACR returns to its reset value, RAM is kept.
Reset ==
  /\ resets < MaxResets
  /\ resets' = resets + 1
  /\ pc' = "Reset_Handler"
  /\ r2' \in RegJunk /\ r3' \in RegJunk
  /\ fpu' = FALSE
  /\ UNCHANGED ram

BootStep ==
  \/ ResetHandler
  \/ LoopCopyDataInit \/ CopyDataInit
  \/ LoopFillZerobss  \/ FillZerobss
  \/ LibcInitArray    \/ CallMain

Next == BootStep \/ ProgramWrites \/ Reset

Spec == Init /\ [][Next]_vars

\* The processor executes: a boot step that can be taken is taken.
FairSpec == Spec /\ WF_vars(BootStep)

-----------------------------------------------------------------------------

\* The registers, RAM and program counter hold what their names say; no store
\* has left RAM, where it would be a bus fault.
TypeOK ==
  /\ pc \in Label
  /\ ram \in [RamAddr -> Byte]
  /\ r2 \in Nat /\ r3 \in Nat
  /\ fpu \in BOOLEAN
  /\ resets \in 0 .. MaxResets

\* The variables of static storage duration, and their values in C.
Static == DataAddr \cup BssAddr
Image == [a \in Static |-> IF a \in DataAddr THEN Flash[sidata + (a - sdata)] ELSE 0]

\* Code that may rely on C semantics never runs on a half-prepared machine:
\* when the constructors or main are about to be entered, every byte of .data
\* has its initial value, every byte of .bss is zero and the FPU may be used,
\* whatever RAM held at power-on, wherever an earlier boot was cut short by a
\* reset and whatever the program of an earlier boot wrote.
ReadyForC ==
  pc \in {"libc_init_array", "main"} =>
    /\ fpu
    /\ \A a \in Static : ram[a] = Image[a]

\* The word-wise loops never write outside the bytes of their own section: a
\* boot step changes .data, .bss and the reserved stack, and nothing else.
NoStrayWrite ==
  [][BootStep =>
       \A a \in RamAddr : ram'[a] # ram[a] => a \in Static \cup StackAddr]_vars

\* What the copy loop has established stays: the clearing of .bss and the
\* stack frames of later calls do not damage a byte of .data already copied.
CopiedStays ==
  [][BootStep /\ pc \in {"LoopFillZerobss", "FillZerobss", "libc_init_array"} =>
       \A a \in DataAddr : ram'[a] = ram[a]]_vars

\* However often the machine is reset on the way, once resets stop the program
\* is entered and keeps running.
MainIsReached == <>[](pc = "running")

\* The reset code implements its contract: to the program the whole
\* initialisation is one step.
Contract == INSTANCE BootContract WITH
  Image   <- Image,
  Lost    <- "lost",
  up      <- pc = "running",
  statics <- IF pc = "running" THEN [a \in Static |-> ram[a]] ELSE "lost"

ImplementsContract == Contract!Spec
=============================================================================
