---------------------------- MODULE StartupProofs ----------------------------
(***************************************************************************)
(* For every size of .data and .bss that links and for every contents of   *)
(* RAM and flash: the boot code leaves the C program a correct memory      *)
(* image, and writes nothing else on the way.                              *)
(***************************************************************************)
EXTENDS Startup, TLAPS

-----------------------------------------------------------------------------
(* The memory map.                                                          *)

\* ALIGN(4) moves forward to a multiple of four by less than four.
LEMMA AlignUp4 ==
  ASSUME NEW a \in Nat
  PROVE  /\ AlignUp(a, 4) \in Nat
         /\ AlignUp(a, 4) % 4 = 0
         /\ a <= AlignUp(a, 4)
         /\ AlignUp(a, 4) < a + 4
         /\ a % 4 = 0 => AlignUp(a, 4) = a
  BY DEF AlignUp

\* ALIGN(8) never moves backwards.
LEMMA AlignUp8 ==
  ASSUME NEW a \in Nat
  PROVE  /\ AlignUp(a, 8) \in Nat
         /\ a <= AlignUp(a, 8)
  BY DEF AlignUp

\* .data, .bss and the reserved stack follow each other without overlap inside
\* RAM, and the two sections the boot code walks are whole words.
LEMMA MemoryMap ==
  /\ sdata \in Nat /\ edata \in Nat /\ sbss \in Nat /\ ebss \in Nat
  /\ estack \in Nat /\ sstack \in Int
  /\ sdata % 4 = 0 /\ edata % 4 = 0 /\ sbss % 4 = 0 /\ ebss % 4 = 0
  /\ RamOrigin = sdata /\ sdata <= edata
  /\ edata = sbss /\ sbss <= ebss
  /\ ebss <= sstack /\ sstack <= estack
<1> USE LayoutAssumption
<1>1. sdata \in Nat /\ sdata % 4 = 0 /\ sdata = RamOrigin
  BY AlignUp4 DEF sdata
<1>2. edata \in Nat /\ edata % 4 = 0 /\ sdata <= edata
  <2>1. sdata + DataBytes \in Nat /\ sdata <= sdata + DataBytes
    BY <1>1
  <2> DEFINE end == sdata + DataBytes
  <2> HIDE DEF end
  <2>2. end \in Nat /\ sdata <= end /\ edata = AlignUp(end, 4)
    BY <2>1 DEF edata, end
  <2>3. AlignUp(end, 4) \in Nat /\ AlignUp(end, 4) % 4 = 0 /\ end <= AlignUp(end, 4)
    BY <2>2, AlignUp4
  <2>4. QED
    BY <1>1, <2>2, <2>3
<1>3. sbss \in Nat /\ sbss % 4 = 0 /\ sbss = edata
  BY <1>2, AlignUp4 DEF sbss
<1>4. ebss \in Nat /\ ebss % 4 = 0 /\ sbss <= ebss
  <2>1. sbss + BssBytes \in Nat /\ sbss <= sbss + BssBytes
    BY <1>3
  <2> DEFINE end == sbss + BssBytes
  <2> HIDE DEF end
  <2>2. end \in Nat /\ sbss <= end /\ ebss = AlignUp(end, 4)
    BY <2>1 DEF ebss, end
  <2>3. AlignUp(end, 4) \in Nat /\ AlignUp(end, 4) % 4 = 0 /\ end <= AlignUp(end, 4)
    BY <2>2, AlignUp4
  <2>4. QED
    BY <1>3, <2>2, <2>3
<1>5. estack \in Nat /\ sstack \in Int /\ sstack <= estack
  BY DEF estack, sstack
<1>6. ebss + MinStackSize <= userEnd
  <2>1. AlignUp(ebss, 8) \in Nat /\ ebss <= AlignUp(ebss, 8)
    BY <1>4, AlignUp8
  <2>2. AlignUp(ebss, 8) + MinHeapSize + MinStackSize \in Nat
    BY <2>1
  <2>3. AlignUp(ebss, 8) + MinHeapSize + MinStackSize <= userEnd /\ userEnd \in Nat
    BY <2>2, AlignUp8 DEF userEnd
  <2>4. QED
    BY <1>4, <2>1, <2>3
<1>7. ebss <= sstack
  <2>1. userEnd <= estack
    BY DEF Links
  <2>2. userEnd \in Nat
    <3>1. AlignUp(ebss, 8) \in Nat
      BY <1>4, AlignUp8
    <3>2. QED
      BY <3>1, AlignUp8 DEF userEnd
  <2>3. QED
    BY <1>4, <1>5, <1>6, <2>1, <2>2 DEF sstack
<1>8. QED
  BY <1>1, <1>2, <1>3, <1>4, <1>5, <1>7

-----------------------------------------------------------------------------
(* Words and stack frames.                                                  *)

\* A word stored leaves a memory of bytes, changed at its four bytes only.
LEMMA StoreWordFacts ==
  ASSUME NEW m \in [RamAddr -> Byte], NEW a \in Nat, NEW w \in [0 .. 3 -> Byte],
         a .. a + 3 \subseteq RamAddr
  PROVE  /\ StoreWord(m, a, w) \in [RamAddr -> Byte]
         /\ \A x \in RamAddr : x \notin a .. a + 3 => StoreWord(m, a, w)[x] = m[x]
         /\ \A x \in RamAddr : x \in a .. a + 3 => StoreWord(m, a, w)[x] = w[x - a]
<1>1. \A x \in RamAddr : x \in Int
  BY LayoutAssumption DEF RamAddr, estack
<1>2. \A x \in RamAddr : x \in a .. a + 3 => x - a \in 0 .. 3
  BY <1>1
<1>3. DOMAIN m \cup (a .. a + 3) = RamAddr
  OBVIOUS
<1>4. QED
  BY <1>2, <1>3 DEF StoreWord

\* The word zero is four zero bytes.
LEMMA WordOfZero == WordOf(0) = [i \in 0 .. 3 |-> 0]
<1>1. \A i \in 0 .. 3 : WordOf(0)[i] = 0
  BY DEF WordOf
<1>2. QED
  BY <1>1 DEF WordOf

\* What a call leaves in its frames is a memory of bytes, the same outside them.
LEMMA UseStackFacts ==
  ASSUME NEW m \in [RamAddr -> Byte], NEW n \in UseStack(m)
  PROVE  /\ n \in [RamAddr -> Byte]
         /\ \A x \in RamAddr : x \notin StackAddr => n[x] = m[x]
<1>1. DOMAIN m = RamAddr
  OBVIOUS
<1>2. PICK f \in [FrameAddr -> Junk] :
        n = [x \in RamAddr |-> IF x \in FrameAddr THEN f[x] ELSE m[x]]
  BY <1>1 DEF UseStack
<1>3. n \in [RamAddr -> Byte]
  BY <1>2, StartupAssumption
<1>4. \A x \in RamAddr : x \in FrameAddr => x \in StackAddr
  BY StartupAssumption, LayoutAssumption DEF FrameAddr, StackAddr, RamAddr, sstack, estack
<1>5. QED
  BY <1>2, <1>3, <1>4

-----------------------------------------------------------------------------
(* The inductive invariant.  It says how far each loop has come; ReadyForC  *)
(* alone is not inductive, because it says nothing while the loops run.     *)

\* In memory m, .data holds its initial values below offset n.
DataCopied(m, n) ==
  \A a \in DataAddr : a < sdata + n => m[a] = Flash[sidata + (a - sdata)]

\* In memory m, .bss is zero below address n.
BssCleared(m, n) == \A a \in BssAddr : a < n => m[a] = 0

CopyInv ==
  pc \in {"LoopCopyDataInit", "CopyDataInit"} =>
    /\ fpu
    /\ r2 = sidata
    /\ r3 % 4 = 0 /\ sdata + r3 <= edata
    /\ pc = "CopyDataInit" => sdata + r3 < edata
    /\ DataCopied(ram, r3)

ZeroInv ==
  pc \in {"LoopFillZerobss", "FillZerobss"} =>
    /\ fpu
    /\ r3 = 0
    /\ r2 % 4 = 0 /\ sbss <= r2 /\ r2 <= ebss
    /\ pc = "FillZerobss" => r2 < ebss
    /\ DataCopied(ram, edata - sdata)
    /\ BssCleared(ram, r2)

DoneInv ==
  pc \in {"libc_init_array", "main"} =>
    /\ fpu
    /\ DataCopied(ram, edata - sdata)
    /\ BssCleared(ram, ebss)

BootInv == TypeOK /\ CopyInv /\ ZeroInv /\ DoneInv

-----------------------------------------------------------------------------

\* The three regions are disjoint parts of RAM.
LEMMA Regions ==
  /\ \A a \in RamAddr : a \in Int
  /\ \A a \in DataAddr : a \in RamAddr /\ a \notin BssAddr /\ a \notin StackAddr
  /\ \A a \in BssAddr : a \in RamAddr /\ a \notin DataAddr /\ a \notin StackAddr
  BY MemoryMap DEF RamAddr, DataAddr, BssAddr, StackAddr

LEMMA InitBootInv == Init => BootInv
<1> SUFFICES ASSUME Init PROVE BootInv
  OBVIOUS
<1>1. ram \in [RamAddr -> Byte] /\ r2 \in Nat /\ r3 \in Nat
  BY StartupAssumption DEF Init
<1>2. resets \in 0 .. MaxResets
  BY StartupAssumption DEF Init
<1>3. pc \in Label /\ fpu \in BOOLEAN
  BY DEF Init, Label
<1>4. QED
  BY <1>1, <1>2, <1>3 DEF Init, BootInv, TypeOK, CopyInv, ZeroInv, DoneInv

\* The word loaded by the copy loop lies within flash.
LEMMA LoadedWord ==
  ASSUME BootInv, pc = "CopyDataInit"
  PROVE  /\ LoadWord(Flash, r2 + r3) \in [0 .. 3 -> Byte]
         /\ \A i \in 0 .. 3 : LoadWord(Flash, r2 + r3)[i] = Flash[sidata + (r3 + i)]
         /\ sdata + r3 + 4 <= edata
<1> USE MemoryMap, StartupAssumption DEF BootInv, TypeOK, CopyInv
<1>1. r3 \in Nat /\ sidata \in Nat /\ r2 = sidata
  OBVIOUS
<1>2. sdata + r3 + 4 <= edata
  OBVIOUS
<1>3. \A i \in 0 .. 3 : /\ sidata + (r3 + i) \in sidata .. sidata + (edata - sdata) - 1
                        /\ r2 + r3 + i = sidata + (r3 + i)
  BY <1>1, <1>2
<1>4. QED
  BY <1>1, <1>2, <1>3 DEF LoadWord

\* What the store of the copy loop leaves: one more word of .data in place, the
\* rest of RAM as it was.
LEMMA CopyEffect ==
  ASSUME BootInv, CopyDataInit
  PROVE  /\ ram' \in [RamAddr -> Byte]
         /\ \A x \in RamAddr : x \notin DataAddr => ram'[x] = ram[x]
         /\ DataCopied(ram', r3 + 4)
         /\ sdata + (r3 + 4) <= edata
<1> DEFINE w == LoadWord(Flash, r2 + r3)
<1>1. /\ ram \in [RamAddr -> Byte] /\ r3 \in Nat
      /\ pc = "CopyDataInit" /\ DataCopied(ram, r3)
  BY DEF BootInv, TypeOK, CopyInv, CopyDataInit
<1>2. /\ w \in [0 .. 3 -> Byte]
      /\ \A i \in 0 .. 3 : w[i] = Flash[sidata + (r3 + i)]
      /\ sdata + r3 + 4 <= edata
  BY <1>1, LoadedWord
<1>3. sdata + r3 \in Nat /\ sdata + r3 .. sdata + r3 + 3 \subseteq RamAddr
  BY <1>1, <1>2, MemoryMap DEF RamAddr
<1>4. ram' = StoreWord(ram, sdata + r3, w)
  BY DEF CopyDataInit
<1> HIDE DEF w
<1>5. /\ ram' \in [RamAddr -> Byte]
      /\ \A x \in RamAddr : x \notin sdata + r3 .. sdata + r3 + 3 => ram'[x] = ram[x]
      /\ \A x \in RamAddr : x \in sdata + r3 .. sdata + r3 + 3 => ram'[x] = w[x - (sdata + r3)]
  BY <1>1, <1>2, <1>3, <1>4, StoreWordFacts
<1>6. \A x \in RamAddr : x \notin DataAddr => x \notin sdata + r3 .. sdata + r3 + 3
  BY <1>1, <1>2, MemoryMap, Regions DEF DataAddr
<1>7. ASSUME NEW a \in DataAddr, a < sdata + (r3 + 4)
      PROVE  ram'[a] = Flash[sidata + (a - sdata)]
  <2>1. a \in RamAddr /\ a \in Int
    BY Regions
  <2>2. CASE a < sdata + r3
    <3>1. a \notin sdata + r3 .. sdata + r3 + 3
      BY <2>1, <2>2, <1>3
    <3>2. QED
      BY <1>1, <1>5, <2>1, <2>2, <3>1 DEF DataCopied
  <2>3. CASE a \in sdata + r3 .. sdata + r3 + 3
    <3>1. a - (sdata + r3) \in 0 .. 3
      BY <1>3, <2>1, <2>3
    <3>2. r3 + (a - (sdata + r3)) = a - sdata
      BY <1>1, <2>1, MemoryMap
    <3>3. QED
      BY <1>2, <1>5, <2>1, <2>3, <3>1, <3>2
  <2>4. QED
    BY <1>1, <1>3, <1>7, <2>1, <2>2, <2>3, MemoryMap
<1>8. QED
  BY <1>1, <1>2, <1>5, <1>6, <1>7, MemoryMap DEF DataCopied

\* What the store of the zero loop leaves: one more word of .bss is zero.
LEMMA ZeroEffect ==
  ASSUME BootInv, FillZerobss
  PROVE  /\ ram' \in [RamAddr -> Byte]
         /\ \A x \in RamAddr : x \notin BssAddr => ram'[x] = ram[x]
         /\ BssCleared(ram', r2 + 4)
         /\ r2 + 4 <= ebss
<1>1. /\ ram \in [RamAddr -> Byte] /\ r2 \in Nat
      /\ pc = "FillZerobss" /\ r3 = 0 /\ BssCleared(ram, r2)
      /\ r2 % 4 = 0 /\ sbss <= r2 /\ r2 < ebss
  BY DEF BootInv, TypeOK, ZeroInv, FillZerobss
<1>2. r2 + 4 <= ebss
  BY <1>1, MemoryMap
<1> DEFINE w == [i \in 0 .. 3 |-> 0]
<1>3. w \in [0 .. 3 -> Byte] /\ \A i \in 0 .. 3 : w[i] = 0
  BY DEF Byte
<1>4. ram' = StoreWord(ram, r2, w)
  BY <1>1, WordOfZero DEF FillZerobss
<1> HIDE DEF w
<1>5. /\ ram' \in [RamAddr -> Byte]
      /\ \A x \in RamAddr : x \notin r2 .. r2 + 3 => ram'[x] = ram[x]
      /\ \A x \in RamAddr : x \in r2 .. r2 + 3 => ram'[x] = w[x - r2]
  <2>1. /\ r2 \in Nat /\ ram \in [RamAddr -> Byte] /\ w \in [0 .. 3 -> Byte]
        /\ r2 .. r2 + 3 \subseteq RamAddr
    BY <1>1, <1>2, <1>3, MemoryMap DEF RamAddr
  <2>2. /\ StoreWord(ram, r2, w) \in [RamAddr -> Byte]
        /\ \A x \in RamAddr : x \notin r2 .. r2 + 3 => StoreWord(ram, r2, w)[x] = ram[x]
        /\ \A x \in RamAddr : x \in r2 .. r2 + 3 => StoreWord(ram, r2, w)[x] = w[x - r2]
    BY <2>1, StoreWordFacts
  <2>3. QED
    BY <1>4, <2>2
<1>6. \A x \in RamAddr : x \notin BssAddr => x \notin r2 .. r2 + 3
  BY <1>1, <1>2, MemoryMap, Regions DEF BssAddr
<1>7. ASSUME NEW a \in BssAddr, a < r2 + 4
      PROVE  ram'[a] = 0
  <2>1. a \in RamAddr /\ a \in Int
    BY Regions
  <2>2. CASE a < r2
    <3>1. a \notin r2 .. r2 + 3
      BY <1>1, <2>1, <2>2
    <3>2. QED
      BY <1>1, <1>5, <2>1, <2>2, <3>1 DEF BssCleared
  <2>3. CASE a \in r2 .. r2 + 3
    <3>1. a - r2 \in 0 .. 3
      BY <1>1, <2>1, <2>3
    <3>2. QED
      BY <1>3, <1>5, <2>1, <2>3, <3>1
  <2>4. QED
    BY <1>1, <1>7, <2>1, <2>2, <2>3
<1>8. QED
  BY <1>2, <1>5, <1>6, <1>7 DEF BssCleared

-----------------------------------------------------------------------------
(* Every action preserves the invariant.                                    *)

\* The calls made before the copy loop leave it ready to start at offset 0.
LEMMA ResetHandlerInv ==
  ASSUME BootInv, ResetHandler
  PROVE  BootInv'
<1>1. ram \in [RamAddr -> Byte] /\ resets \in 0 .. MaxResets
  BY DEF BootInv, TypeOK
<1>2. ram' \in [RamAddr -> Byte]
  BY <1>1, UseStackFacts DEF ResetHandler
<1>3. TypeOK'
  BY <1>1, <1>2, StartupAssumption DEF ResetHandler, SystemInit, TypeOK, Label
<1>4. CopyInv'
  <2>1. DataCopied(ram', 0)
    BY MemoryMap, Regions DEF DataCopied, DataAddr
  <2>2. QED
    BY <2>1, MemoryMap DEF ResetHandler, SystemInit, CopyInv
<1>5. ZeroInv' /\ DoneInv'
  BY DEF ResetHandler, ZeroInv, DoneInv
<1>6. QED
  BY <1>3, <1>4, <1>5 DEF BootInv

\* Leaving the copy loop, all of .data is in place and none of .bss is owed.
LEMMA LoopCopyDataInitInv ==
  ASSUME BootInv, LoopCopyDataInit
  PROVE  BootInv'
<1>1. /\ fpu /\ r2 = sidata /\ r3 % 4 = 0 /\ sdata + r3 <= edata
      /\ DataCopied(ram, r3) /\ TypeOK
  BY DEF BootInv, CopyInv, LoopCopyDataInit
<1>2. ram' = ram /\ fpu' = fpu /\ resets' = resets
  BY DEF LoopCopyDataInit
<1>3. CASE sdata + r3 < edata /\ pc' = "CopyDataInit" /\ r2' = r2 /\ r3' = r3
  BY <1>1, <1>2, <1>3 DEF BootInv, TypeOK, CopyInv, ZeroInv, DoneInv, Label
<1>4. CASE sdata + r3 >= edata /\ pc' = "LoopFillZerobss" /\ r2' = sbss /\ r3' = 0
  <2>1. TypeOK'
    BY <1>1, <1>2, <1>4, MemoryMap DEF TypeOK, Label
  <2>2. DataCopied(ram', edata - sdata)
    <3>1. r3 = edata - sdata
      BY <1>1, <1>4, MemoryMap DEF TypeOK
    <3>2. QED
      BY <1>1, <1>2, <3>1
  <2>3. BssCleared(ram', sbss)
    BY MemoryMap DEF BssCleared, BssAddr
  <2>4. ZeroInv'
    BY <1>1, <1>2, <1>4, <2>2, <2>3, MemoryMap DEF ZeroInv
  <2>5. CopyInv' /\ DoneInv'
    BY <1>4 DEF CopyInv, DoneInv
  <2>6. QED
    BY <2>1, <2>4, <2>5 DEF BootInv
<1>5. QED
  BY <1>3, <1>4 DEF LoopCopyDataInit

LEMMA CopyDataInitInv ==
  ASSUME BootInv, CopyDataInit
  PROVE  BootInv'
<1>1. TypeOK /\ r3 \in Nat /\ fpu /\ r2 = sidata /\ r3 % 4 = 0
  BY DEF BootInv, TypeOK, CopyInv, CopyDataInit
<1>2. /\ ram' \in [RamAddr -> Byte]
      /\ DataCopied(ram', r3 + 4)
      /\ sdata + (r3 + 4) <= edata
  BY CopyEffect
<1>3. /\ pc' = "LoopCopyDataInit" /\ r3' = r3 + 4
      /\ r2' = r2 /\ fpu' = fpu /\ resets' = resets
  BY DEF CopyDataInit
<1>4. (r3 + 4) % 4 = 0 /\ r3 + 4 \in Nat
  BY <1>1
<1>5. TypeOK'
  BY <1>1, <1>2, <1>3, <1>4 DEF TypeOK, Label
<1>6. CopyInv'
  BY <1>1, <1>2, <1>3, <1>4 DEF CopyInv
<1>7. QED
  BY <1>3, <1>5, <1>6 DEF BootInv, ZeroInv, DoneInv

\* The loop is left exactly at the end of .bss.
LEMMA LoopFillZerobssInv ==
  ASSUME BootInv, LoopFillZerobss
  PROVE  BootInv'
<1>1. /\ TypeOK /\ fpu /\ r3 = 0
      /\ r2 % 4 = 0 /\ sbss <= r2 /\ r2 <= ebss
      /\ DataCopied(ram, edata - sdata)
      /\ BssCleared(ram, r2)
  BY DEF BootInv, ZeroInv, LoopFillZerobss
<1>2. ram' = ram /\ r2' = r2 /\ r3' = r3 /\ fpu' = fpu /\ resets' = resets
  BY DEF LoopFillZerobss
<1>3. CASE r2 < ebss /\ pc' = "FillZerobss"
  BY <1>1, <1>2, <1>3 DEF BootInv, TypeOK, CopyInv, ZeroInv, DoneInv, Label
<1>4. CASE r2 >= ebss /\ pc' = "libc_init_array"
  <2>1. r2 = ebss
    BY <1>1, <1>4, MemoryMap DEF TypeOK
  <2>2. QED
    BY <1>1, <1>2, <1>4, <2>1 DEF BootInv, TypeOK, CopyInv, ZeroInv, DoneInv, Label
<1>5. QED
  BY <1>3, <1>4 DEF LoopFillZerobss

LEMMA FillZerobssInv ==
  ASSUME BootInv, FillZerobss
  PROVE  BootInv'
<1>1. /\ TypeOK /\ r2 \in Nat /\ ram \in [RamAddr -> Byte] /\ fpu /\ r3 = 0
      /\ r2 % 4 = 0 /\ sbss <= r2
      /\ DataCopied(ram, edata - sdata)
  BY DEF BootInv, TypeOK, ZeroInv, FillZerobss
<1>2. /\ ram' \in [RamAddr -> Byte]
      /\ \A x \in RamAddr : x \notin BssAddr => ram'[x] = ram[x]
      /\ BssCleared(ram', r2 + 4)
      /\ r2 + 4 <= ebss
  BY ZeroEffect
<1>3. /\ pc' = "LoopFillZerobss" /\ r2' = r2 + 4
      /\ r3' = r3 /\ fpu' = fpu /\ resets' = resets
  BY DEF FillZerobss
<1>4. (r2 + 4) % 4 = 0 /\ r2 + 4 \in Nat /\ sbss <= r2 + 4
  BY <1>1, MemoryMap
<1>5. DataCopied(ram', edata - sdata)
  BY <1>1, <1>2, Regions DEF DataCopied
<1>6. TypeOK'
  BY <1>1, <1>2, <1>3, <1>4 DEF TypeOK, Label
<1>7. ZeroInv'
  BY <1>1, <1>2, <1>3, <1>4, <1>5 DEF ZeroInv
<1>8. QED
  BY <1>3, <1>6, <1>7 DEF BootInv, CopyInv, DoneInv

\* The frames of the constructors lie in the reserved stack, outside .data and
\* .bss.
LEMMA LibcInitArrayInv ==
  ASSUME BootInv, LibcInitArray
  PROVE  BootInv'
<1>1. /\ TypeOK /\ ram \in [RamAddr -> Byte] /\ fpu
      /\ DataCopied(ram, edata - sdata) /\ BssCleared(ram, ebss)
  BY DEF BootInv, TypeOK, DoneInv, LibcInitArray
<1>2. /\ ram' \in [RamAddr -> Byte]
      /\ \A x \in RamAddr : x \notin StackAddr => ram'[x] = ram[x]
  BY <1>1, UseStackFacts DEF LibcInitArray
<1>3. pc' = "main" /\ r2' = r2 /\ r3' = r3 /\ fpu' = fpu /\ resets' = resets
  BY DEF LibcInitArray
<1>4. TypeOK'
  BY <1>1, <1>2, <1>3 DEF TypeOK, Label
<1>5. DataCopied(ram', edata - sdata)
  BY <1>1, <1>2, Regions DEF DataCopied
<1>6. BssCleared(ram', ebss)
  BY <1>1, <1>2, Regions DEF BssCleared
<1>7. QED
  BY <1>1, <1>3, <1>4, <1>5, <1>6 DEF BootInv, CopyInv, ZeroInv, DoneInv

LEMMA CallMainInv ==
  ASSUME BootInv, CallMain
  PROVE  BootInv'
  BY DEF BootInv, TypeOK, CopyInv, ZeroInv, DoneInv, CallMain, Label

LEMMA ProgramWritesInv ==
  ASSUME BootInv, ProgramWrites
  PROVE  BootInv'
<1>1. TypeOK /\ ram \in [RamAddr -> Byte]
  BY DEF BootInv, TypeOK
<1>2. ram' \in [RamAddr -> Byte]
  BY <1>1, StartupAssumption DEF ProgramWrites
<1>3. TypeOK'
  BY <1>1, <1>2 DEF TypeOK, ProgramWrites
<1>4. QED
  BY <1>3 DEF BootInv, CopyInv, ZeroInv, DoneInv, ProgramWrites

LEMMA ResetInv ==
  ASSUME BootInv, Reset
  PROVE  BootInv'
<1>1. resets' \in 0 .. MaxResets
  BY StartupAssumption DEF BootInv, TypeOK, Reset
<1>2. TypeOK'
  BY <1>1, StartupAssumption DEF BootInv, TypeOK, Reset, Label
<1>3. QED
  BY <1>2 DEF BootInv, CopyInv, ZeroInv, DoneInv, Reset

\* BootInv is inductive.
LEMMA BootInvStep == BootInv /\ [Next]_vars => BootInv'
<1> SUFFICES ASSUME BootInv, [Next]_vars PROVE BootInv'
  OBVIOUS
<1>1. CASE ResetHandler
  BY <1>1, ResetHandlerInv
<1>2. CASE LoopCopyDataInit
  BY <1>2, LoopCopyDataInitInv
<1>3. CASE CopyDataInit
  BY <1>3, CopyDataInitInv
<1>4. CASE LoopFillZerobss
  BY <1>4, LoopFillZerobssInv
<1>5. CASE FillZerobss
  BY <1>5, FillZerobssInv
<1>6. CASE LibcInitArray
  BY <1>6, LibcInitArrayInv
<1>7. CASE CallMain
  BY <1>7, CallMainInv
<1>8. CASE ProgramWrites
  BY <1>8, ProgramWritesInv
<1>9. CASE Reset
  BY <1>9, ResetInv
<1>10. CASE UNCHANGED vars
  BY <1>10 DEF vars, BootInv, TypeOK, CopyInv, ZeroInv, DoneInv
<1>11. QED
  BY <1>1, <1>2, <1>3, <1>4, <1>5, <1>6, <1>7, <1>8, <1>9, <1>10
  DEF Next, BootStep

\* The inductive invariant holds in every reachable state.
THEOREM BootInvariant == Spec => []BootInv
  BY InitBootInv, BootInvStep, PTL DEF Spec

-----------------------------------------------------------------------------

\* RAM always holds bytes, and the registers natural numbers: no loop leaves
\* the memory the model describes.
THEOREM TypeCorrect == Spec => []TypeOK
<1>1. BootInv => TypeOK
  BY DEF BootInv
<1>2. QED
  BY <1>1, BootInvariant, PTL

\* The constructors and main find all static storage initialised, for every
\* size of the sections, every content of RAM and every point of interruption.
THEOREM ReadyForCHolds == Spec => []ReadyForC
<1>1. ASSUME BootInv, pc \in {"libc_init_array", "main"}
      PROVE  fpu /\ \A a \in Static : ram[a] = Image[a]
  <2>1. fpu /\ DataCopied(ram, edata - sdata) /\ BssCleared(ram, ebss)
    BY <1>1 DEF BootInv, DoneInv
  <2>2. ASSUME NEW a \in DataAddr
        PROVE  ram[a] = Image[a]
    BY <2>1, MemoryMap DEF DataCopied, DataAddr, Image, Static
  <2>3. ASSUME NEW a \in BssAddr
        PROVE  ram[a] = Image[a]
    BY <2>1, MemoryMap, Regions DEF BssCleared, BssAddr, Image, Static
  <2>4. QED
    BY <2>1, <2>2, <2>3 DEF Static
<1>2. BootInv => ReadyForC
  BY <1>1 DEF ReadyForC
<1>3. QED
  BY <1>2, BootInvariant, PTL

\* The boot code changes no byte outside .data, .bss and the reserved stack.
THEOREM NoStrayWriteHolds == Spec => NoStrayWrite
<1>1. ASSUME BootInv, BootStep, NEW a \in RamAddr, ram'[a] # ram[a]
      PROVE  a \in Static \cup StackAddr
  <2>1. ram \in [RamAddr -> Byte]
    BY <1>1 DEF BootInv, TypeOK
  <2>2. CASE ResetHandler
    BY <1>1, <2>1, <2>2, UseStackFacts DEF ResetHandler
  <2>3. CASE CopyDataInit
    BY <1>1, <2>3, CopyEffect DEF Static
  <2>4. CASE FillZerobss
    BY <1>1, <2>4, ZeroEffect DEF Static
  <2>5. CASE LibcInitArray
    BY <1>1, <2>1, <2>5, UseStackFacts DEF LibcInitArray
  <2>6. CASE LoopCopyDataInit \/ LoopFillZerobss \/ CallMain
    BY <1>1, <2>6 DEF LoopCopyDataInit, LoopFillZerobss, CallMain
  <2>7. QED
    BY <1>1, <2>2, <2>3, <2>4, <2>5, <2>6 DEF BootStep
<1>2. BootInv /\ [Next]_vars =>
        [BootStep =>
           \A a \in RamAddr : ram'[a] # ram[a] => a \in Static \cup StackAddr]_vars
  BY <1>1
<1>3. QED
  BY <1>2, BootInvariant, PTL DEF Spec, NoStrayWrite

\* Once .data is copied no later boot step damages it.
THEOREM CopiedStaysHolds == Spec => CopiedStays
<1>1. ASSUME BootInv, BootStep,
             pc \in {"LoopFillZerobss", "FillZerobss", "libc_init_array"},
             NEW a \in DataAddr
      PROVE  ram'[a] = ram[a]
  <2>1. ram \in [RamAddr -> Byte] /\ a \in RamAddr /\ a \notin BssAddr /\ a \notin StackAddr
    BY <1>1, Regions DEF BootInv, TypeOK
  <2>2. CASE FillZerobss
    BY <1>1, <2>1, <2>2, ZeroEffect
  <2>3. CASE LibcInitArray
    BY <1>1, <2>1, <2>3, UseStackFacts DEF LibcInitArray
  <2>4. CASE LoopFillZerobss
    BY <2>4 DEF LoopFillZerobss
  <2>5. QED
    BY <1>1, <2>2, <2>3, <2>4
    DEF BootStep, ResetHandler, LoopCopyDataInit, CopyDataInit, CallMain
<1>2. BootInv /\ [Next]_vars =>
        [BootStep /\ pc \in {"LoopFillZerobss", "FillZerobss", "libc_init_array"} =>
           \A a \in DataAddr : ram'[a] = ram[a]]_vars
  BY <1>1
<1>3. QED
  BY <1>2, BootInvariant, PTL DEF Spec, CopiedStays

-----------------------------------------------------------------------------

\* Leaving out fairness, every execution of the reset code is an execution of
\* its contract: main is entered with all of static storage in one step.
THEOREM ImplementsContractSafety ==
  Spec => Contract!Init /\ [][Contract!Next]_(Contract!bvars)
<1>1. Init => Contract!Init
  BY DEF Init, Contract!Init
<1>2. ASSUME BootInv, ReadyForC, [Next]_vars
      PROVE  [Contract!Next]_(Contract!bvars)
  <2> DEFINE image(m) == [a \in Static |-> m[a]]
  <2>1. ram \in [RamAddr -> Byte] /\ Static \subseteq RamAddr
    BY <1>2, Regions DEF BootInv, TypeOK, Static
  <2>2. CASE CallMain
    <3>1. image(ram) = Image
      BY <1>2, <2>2 DEF CallMain, ReadyForC, Image
    <3>2. Contract!EnterMain
      BY <2>2, <3>1 DEF CallMain, Contract!EnterMain
    <3>3. QED
      BY <3>2 DEF Contract!Next
  <2>3. CASE ProgramWrites
    <3>1. ram' \in [RamAddr -> Byte]
      BY <2>1, <2>3, StartupAssumption DEF ProgramWrites
    <3>2. Contract!Run
      BY <2>1, <2>3, <3>1 DEF ProgramWrites, Contract!Run
    <3>3. QED
      BY <3>2 DEF Contract!Next
  <2>4. CASE Reset
    BY <2>4 DEF Reset, Contract!Next, Contract!Reset, Contract!bvars
  <2>5. CASE BootStep /\ ~CallMain
    BY <2>5 DEF BootStep, ResetHandler, LoopCopyDataInit, CopyDataInit,
                LoopFillZerobss, FillZerobss, LibcInitArray, Contract!bvars
  <2>6. CASE UNCHANGED vars
    BY <2>6 DEF vars, Contract!bvars
  <2>7. QED
    BY <1>2, <2>2, <2>3, <2>4, <2>5, <2>6 DEF Next
<1>3. QED
  BY <1>1, <1>2, BootInvariant, ReadyForCHolds, PTL DEF Spec
=============================================================================
