---------------------------- MODULE LinkerLayout ----------------------------
(***************************************************************************)
(* The RAM map that STM32F411xx_FLASH.ld lays out, as a function of how    *)
(* many bytes the object files contribute to .data and .bss.  The symbols  *)
(* keep the script's names without the leading underscore.  Addresses are  *)
(* byte addresses.                                                         *)
(***************************************************************************)
EXTENDS Integers

CONSTANTS
  RamOrigin, RamLength,  \* the RAM region of MEMORY
  DataBytes, BssBytes,   \* what the object files put in .data and in .bss
  MinHeapSize,           \* _Min_Heap_Size
  MinStackSize           \* _Min_Stack_Size

\* ". = ALIGN(n)": the first multiple of n at or after the location counter.
AlignUp(a, n) == ((a + n - 1) \div n) * n

sdata == AlignUp(RamOrigin, 4)
edata == AlignUp(sdata + DataBytes, 4)
sbss  == AlignUp(edata, 4)

\* Mutant: the ALIGN(4) before _ebss is dropped.
ebssUnaligned == sbss + BssBytes

ebss  == AlignUp(sbss + BssBytes, 4)

\* The end of ._user_heap_stack, the section that only reserves room.
userEnd == AlignUp(AlignUp(ebss, 8) + MinHeapSize + MinStackSize, 8)

estack == RamOrigin + RamLength
sstack == estack - MinStackSize

\* The linker reports an overflow of region RAM unless everything fits.
Links == userEnd <= estack

RamAddr   == RamOrigin .. estack - 1
DataAddr  == sdata .. edata - 1
BssAddr   == sbss .. ebss - 1
StackAddr == sstack .. estack - 1

\* The region is word aligned, as 0x20000000 and 128K are, and the image links.
ASSUME LayoutAssumption ==
  /\ RamOrigin \in Nat /\ RamOrigin % 4 = 0
  /\ RamLength \in Nat /\ RamLength % 4 = 0
  /\ DataBytes \in Nat /\ BssBytes \in Nat
  /\ MinHeapSize \in Nat /\ MinStackSize \in Nat
  /\ Links
=============================================================================
