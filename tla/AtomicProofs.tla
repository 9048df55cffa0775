--------------------------------- MODULE AtomicProofs ----------------------------------
(* AtomicAccess for any tasks and handlers, any register and any disjoint shares of it:
   no update is ever lost, and an update puts back the interrupt mask that it found. *)
EXTENDS AtomicAccess, SequenceTheorems, TLAPS

(* The inductive invariant. A value about to be stored is fresh, which only holds as long
   as nobody else stores: the monitor is open for who runs alone, and whoever holds off
   interrupts goes on running. What is to be changed lies in the context's own share and
   in the bits that its accesses carry. *)
OwnBits == \A c \in Contexts :
    op[c].clear \cup op[c].set \subseteq Share[c] \cap Low(op[c].width)

MaskedPCs == {"ldr", "str", "set_primask"}

MaskedAlone == \A c \in Contexts :
    /\ pc[c] \in MaskedPCs => c = Running /\ primask
    /\ pc[c] \in {"get_primask", "disable_irq", "ldr", "str"} => op[c].width = 32

(* Whoever has saved the mask and runs has saved the right one. Interrupted meanwhile,
   it had found interrupts enabled. *)
SavedMask == \A c \in Contexts :
    /\ saved[c] => /\ c = Running /\ held
                   /\ pc[c] \in {"disable_irq"} \cup MaskedPCs
    /\ c = Running /\ held /\ pc[c] \in {"disable_irq"} \cup MaskedPCs => saved[c]

Inv == /\ TypeOK /\ NoUpdateLost /\ StoresFresh
       /\ MaskPutBack /\ OwnBits /\ MaskedAlone /\ SavedMask

USE ShareAssumption

(* Who runs is a context, also after a handler has been entered. *)
LEMMA RunningIsContext ==
    ASSUME TypeOK
    PROVE  Running \in Contexts
BY DEF TypeOK, Running

LEMMA EnterRuns ==
    ASSUME NEW s \in Seq(Contexts), NEW h \in Contexts
    PROVE  <<h>> \o s \in Seq(Contexts) /\ <<h>> \o s # <<>> /\ Head(<<h>> \o s) = h
OBVIOUS

LEMMA LeaveRuns ==
    ASSUME NEW s \in Seq(Contexts), Len(s) > 1
    PROVE  Tail(s) \in Seq(Contexts) /\ Tail(s) # <<>>
<1>1. s # <<>>
    BY EmptySeq
<1>2. Tail(s) \in Seq(Contexts) /\ Len(Tail(s)) = Len(s) - 1
    BY <1>1, HeadTailProperties
<1>3. Len(Tail(s)) # 0
    <2>1. Len(s) \in Nat
        BY LenProperties
    <2> QED BY <1>2, <2>1, SMT
<1> QED BY <1>2, <1>3, EmptySeq

----------------------------------------------------------------------------------------
LEMMA InitInv ==
    ASSUME Init
    PROVE  Inv
<1>1. PICK t \in Tasks : stack = <<t>>
    BY DEF Init
<1>2. stack \in Seq(Contexts) /\ stack # <<>>
    BY <1>1 DEF Contexts
<1>3. None \in Updates
    BY DEF None, Updates
<1>4. TypeOK
    BY <1>2, <1>3 DEF Init, TypeOK
<1>5. OwnBits
    BY DEF Init, OwnBits, None
<1> QED BY <1>2, <1>4, <1>5, RunningIsContext
        DEF Init, Inv, NoUpdateLost, StoresFresh, MaskPutBack, MaskedAlone, MaskedPCs,
            SavedMask

(* A store of a fresh value changes the bits of the update and no others. *)
LEMMA FreshStore ==
    ASSUME Inv, NEW c \in Contexts, Store(c), val[c] = register \cap Low(op[c].width)
    PROVE  /\ register' = (register \ op[c].clear) \cup op[c].set
           /\ register' \subseteq Bits
           /\ op' \in [Contexts -> Updates] /\ wrote' \in [Contexts -> SUBSET Bits]
           /\ OwnBits' /\ NoUpdateLost'
           /\ \A d \in Contexts : d # c => op'[d] = op[d]
           /\ op'[c] = None
<1> DEFINE L == Low(op[c].width)
           clear == op[c].clear
           set == op[c].set
<1>1. clear \subseteq L /\ set \subseteq L /\ clear \subseteq Share[c] /\ set \subseteq Share[c]
    BY DEF Inv, OwnBits
<1>2. register' = (register \ L) \cup ((((register \cap L) \ clear) \cup set) \cap L)
    BY DEF Store, Updated
<1>3. wrote' = [wrote EXCEPT ![c] = (wrote[c] \ clear) \cup set]
    BY DEF Store, Inv, TypeOK
<1>4. op' = [op EXCEPT ![c] = None]
    BY DEF Store
<1>5. None \in Updates
    BY DEF None, Updates
<1>6. op' \in [Contexts -> Updates] /\ op'[c] = None
      /\ \A d \in Contexts : d # c => op'[d] = op[d]
    BY <1>4, <1>5 DEF Inv, TypeOK
<1>7. OwnBits'
    <2>1. None.clear = {} /\ None.set = {}
        BY DEF None
    <2> QED BY <1>6, <2>1 DEF Inv, OwnBits
<1>8. clear \subseteq Bits /\ set \subseteq Bits
    BY <1>1
<1> HIDE DEF L, clear, set
<1>9. register' = (register \ clear) \cup set
    BY <1>1, <1>2
<1>10. register' \subseteq Bits
    BY <1>8, <1>9 DEF Inv, TypeOK
<1>11. wrote' \in [Contexts -> SUBSET Bits]
    BY <1>3, <1>8 DEF Inv, TypeOK
<1>12. ASSUME NEW d \in Contexts PROVE register' \cap Share[d] = wrote'[d]
    <2>1. register \cap Share[d] = wrote[d]
        BY DEF Inv, NoUpdateLost
    <2>2. CASE d = c
        BY <1>1, <1>3, <1>9, <2>1, <2>2 DEF Inv, TypeOK
    <2>3. CASE d # c
        <3>1. Share[c] \cap Share[d] = {}
            BY <2>3
        <3>2. register' \cap Share[d] = register \cap Share[d]
            BY <1>1, <1>9, <3>1
        <3> QED BY <1>3, <2>1, <2>3, <3>2 DEF Inv, TypeOK
    <2> QED BY <2>2, <2>3
<1>13. NoUpdateLost'
    BY <1>12 DEF NoUpdateLost
<1> QED BY <1>6, <1>7, <1>9, <1>10, <1>11, <1>13 DEF clear, set

(* The seven macros and the plain update begin alike: with bits of the context's own,
   which the accesses carry. *)
LEMMA BeginKeepsInv ==
    ASSUME Inv, NEW c \in Contexts, NEW entry, NEW width, NEW clear, NEW set,
           Begin(c, entry, width, clear, set),
           clear \subseteq Share[c], set \subseteq Share[c],
           \/ entry = "ldrex" /\ width \in {16, 32}
           \/ entry = "get_primask" /\ width = 32
    PROVE  Inv'
<1> USE DEF Begin
<1>1. [width |-> width, clear |-> clear, set |-> set] \in Updates
    BY DEF Updates
<1>2. TypeOK'
    BY <1>1 DEF Inv, TypeOK
<1>3. pc'[c] = entry /\ op'[c] = [width |-> width, clear |-> clear, set |-> set]
      /\ \A d \in Contexts : d # c => pc'[d] = pc[d] /\ op'[d] = op[d]
    BY DEF Inv, TypeOK
<1>4. Running' = Running
    BY DEF Running
<1>5. pc[c] = "idle" /\ c = Running /\ held' = held /\ primask' = primask /\ saved' = saved
    OBVIOUS
<1>6. NoUpdateLost'
    BY DEF Inv, NoUpdateLost
<1>7. StoresFresh'
    BY <1>3, <1>4 DEF Inv, StoresFresh
<1>8. MaskPutBack'
    BY <1>4, <1>5 DEF Inv, MaskPutBack
<1>9. OwnBits'
    <2> SUFFICES ASSUME NEW d \in Contexts
                 PROVE  op'[d].clear \cup op'[d].set \subseteq Share[d] \cap Low(op'[d].width)
        BY DEF OwnBits
    <2>1. CASE d = c
        BY <1>3, <2>1
    <2>2. CASE d # c
        BY <1>3, <2>2 DEF Inv, OwnBits
    <2> QED BY <2>1, <2>2
<1>10. MaskedAlone'
    <2> SUFFICES ASSUME NEW d \in Contexts
                 PROVE  /\ pc'[d] \in MaskedPCs => d = Running' /\ primask'
                        /\ pc'[d] \in {"get_primask", "disable_irq", "ldr", "str"}
                            => op'[d].width = 32
        BY DEF MaskedAlone
    <2>1. CASE d = c
        BY <1>3, <2>1 DEF MaskedPCs, Inv, MaskedAlone
    <2>2. CASE d # c
        BY <1>3, <1>4, <2>2 DEF Inv, MaskedAlone
    <2> QED BY <2>1, <2>2
<1>11. SavedMask'
    BY <1>3, <1>4, <1>5 DEF Inv, SavedMask, MaskedPCs
<1> QED BY <1>2, <1>6, <1>7, <1>8, <1>9, <1>10, <1>11 DEF Inv

(* A section that holds interrupts off begins or ends, between two updates. *)
LEMMA SectionKeepsInv ==
    ASSUME Inv, NEW c \in Contexts, HoldOff(c) \/ Release(c)
    PROVE  Inv'
<1>1. /\ c = Running /\ pc[c] = "idle" /\ primask' = held' /\ held' = ~held
      /\ primask' \in BOOLEAN
      /\ UNCHANGED <<register, stack, monitor, pc, op, val, saved, wrote>>
    BY DEF HoldOff, Release, Inv, TypeOK
<1>2. Running' = Running /\ pc[Running] = "idle"
    BY <1>1 DEF Running
<1>3. \A d \in Contexts : pc[d] \notin MaskedPCs
    BY <1>1 DEF Inv, MaskedAlone, MaskedPCs
<1>4. \A d \in Contexts : ~saved[d]
    BY <1>1 DEF Inv, SavedMask, MaskedPCs
<1>5. TypeOK'
    BY <1>1 DEF Inv, TypeOK
<1>6. NoUpdateLost' /\ OwnBits' /\ MaskPutBack'
    BY <1>1, <1>2 DEF Inv, NoUpdateLost, OwnBits, MaskPutBack
<1>7. StoresFresh'
    BY <1>1, <1>2, <1>3 DEF Inv, StoresFresh, MaskedPCs
<1>8. MaskedAlone'
    BY <1>1, <1>2, <1>3 DEF Inv, MaskedAlone
<1>9. SavedMask'
    BY <1>1, <1>2, <1>4 DEF SavedMask, MaskedPCs
<1> QED BY <1>5, <1>6, <1>7, <1>8, <1>9 DEF Inv

(* The starts of Next, by the macro. *)
LEMMA StartKeepsInv ==
    ASSUME Inv, NEW c \in Contexts, Start(c)
    PROVE  Inv'
<1>1. \A bit \in Masks(c) : bit \subseteq Share[c] /\ {} \subseteq Share[c]
    BY DEF Masks
<1>2. \A clearmask \in Masks(c) : \A setmask \in SUBSET clearmask :
        clearmask \subseteq Share[c] /\ setmask \subseteq Share[c]
    BY DEF Masks
<1>3. CASE ATOMIC_SET_BIT(c)
    BY <1>1, <1>3, BeginKeepsInv DEF ATOMIC_SET_BIT
<1>4. CASE ATOMIC_CLEAR_BIT(c)
    BY <1>1, <1>4, BeginKeepsInv DEF ATOMIC_CLEAR_BIT
<1>5. CASE ATOMIC_MODIFY_REG(c)
    BY <1>2, <1>5, BeginKeepsInv DEF ATOMIC_MODIFY_REG
<1>6. CASE ATOMIC_SETH_BIT(c)
    BY <1>1, <1>6, BeginKeepsInv DEF ATOMIC_SETH_BIT
<1>7. CASE ATOMIC_CLEARH_BIT(c)
    BY <1>1, <1>7, BeginKeepsInv DEF ATOMIC_CLEARH_BIT
<1>8. CASE ATOMIC_MODIFYH_REG(c)
    BY <1>2, <1>8, BeginKeepsInv DEF ATOMIC_MODIFYH_REG
<1>9. CASE MaskedModify(c)
    BY <1>2, <1>9, BeginKeepsInv DEF MaskedModify
<1>10. CASE HoldOff(c) \/ Release(c)
    BY <1>10, SectionKeepsInv
<1> QED BY <1>3, <1>4, <1>5, <1>6, <1>7, <1>8, <1>9, <1>10 DEF Start

LEMMA LDREXKeepsInv ==
    ASSUME Inv, NEW c \in Contexts, LDREX(c)
    PROVE  Inv'
<1> USE DEF LDREX
<1>1. Running' = Running
    BY DEF Running
<1>2. TypeOK'
    BY DEF Inv, TypeOK
<1>3. \A d \in Contexts : pc[d] \notin MaskedPCs
    BY DEF Inv, MaskedAlone, MaskedPCs
<1>4. /\ pc'[c] = "strex" /\ \A d \in Contexts : d # c => pc'[d] = pc[d]
      /\ val'[c] = register \cap Low(op[c].width)
    BY DEF Inv, TypeOK
<1>5. NoUpdateLost'
    BY DEF Inv, NoUpdateLost
<1>6. StoresFresh'
    <2>1. ASSUME NEW d \in Contexts, pc'[d] = "str" PROVE FALSE
        BY <1>3, <1>4, <2>1 DEF MaskedPCs
    <2> QED BY <1>1, <1>4, <2>1 DEF StoresFresh
<1>7. MaskPutBack' /\ OwnBits'
    BY <1>1 DEF Inv, MaskPutBack, OwnBits
<1>8. MaskedAlone'
    BY <1>1, <1>4 DEF Inv, MaskedAlone, MaskedPCs
<1>9. SavedMask'
    BY <1>1, <1>4 DEF Inv, SavedMask, MaskedPCs
<1> QED BY <1>2, <1>5, <1>6, <1>7, <1>8, <1>9 DEF Inv

LEMMA STREXKeepsInv ==
    ASSUME Inv, NEW c \in Contexts, STREX(c)
    PROVE  Inv'
<1>1. Running' = Running /\ monitor' = FALSE /\ primask' = primask /\ saved' = saved
      /\ held' = held
      /\ stack' = stack /\ val' = [val EXCEPT ![c] = {}] /\ pc[c] = "strex" /\ c = Running
    BY DEF STREX, Running
<1>2. (held => primask) /\ (primask => held)
    BY <1>1 DEF Inv, MaskPutBack
<1>3. \A d \in Contexts : pc[d] \notin MaskedPCs
    BY <1>1 DEF Inv, MaskedAlone, MaskedPCs
<1>4. CASE monitor
    <2>1. Store(c) /\ pc' = [pc EXCEPT ![c] = "idle"]
        BY <1>4 DEF STREX
    <2>2. val[c] = register \cap Low(op[c].width)
        BY <1>1, <1>4 DEF Inv, StoresFresh
    <2>3. /\ register' \subseteq Bits /\ op' \in [Contexts -> Updates]
          /\ wrote' \in [Contexts -> SUBSET Bits]
          /\ OwnBits' /\ NoUpdateLost'
          /\ \A d \in Contexts : d # c => op'[d] = op[d]
          /\ op'[c] = None
        BY <2>1, <2>2, FreshStore
    <2>4. TypeOK'
        BY <1>1, <2>1, <2>3 DEF Inv, TypeOK
    <2>5. pc'[c] = "idle" /\ \A d \in Contexts : d # c => pc'[d] = pc[d]
        BY <2>1 DEF Inv, TypeOK
    <2>6. StoresFresh' /\ MaskPutBack'
        BY <1>1, <1>2, <1>3, <2>5 DEF StoresFresh, MaskPutBack, MaskedPCs
    <2>7. MaskedAlone'
        BY <1>1, <1>3, <2>3, <2>5 DEF Inv, MaskedAlone, MaskedPCs
    <2>8. SavedMask'
        BY <1>1, <2>5 DEF Inv, SavedMask, MaskedPCs
    <2> QED BY <2>3, <2>4, <2>6, <2>7, <2>8 DEF Inv
<1>5. CASE ~monitor
    <2>1. pc' = [pc EXCEPT ![c] = "ldrex"] /\ UNCHANGED <<register, wrote, op>>
        BY <1>5 DEF STREX
    <2>2. TypeOK'
        BY <1>1, <2>1 DEF Inv, TypeOK
    <2>3. pc'[c] = "ldrex" /\ \A d \in Contexts : d # c => pc'[d] = pc[d]
        BY <2>1 DEF Inv, TypeOK
    <2>4. StoresFresh' /\ MaskPutBack'
        BY <1>1, <1>2, <1>3, <2>3 DEF StoresFresh, MaskPutBack, MaskedPCs
    <2>5. MaskedAlone'
        BY <1>1, <1>3, <2>1, <2>3 DEF Inv, MaskedAlone, MaskedPCs
    <2>6. NoUpdateLost' /\ OwnBits'
        BY <2>1 DEF Inv, NoUpdateLost, OwnBits
    <2>7. SavedMask'
        BY <1>1, <2>3 DEF Inv, SavedMask, MaskedPCs
    <2> QED BY <2>2, <2>4, <2>5, <2>6, <2>7 DEF Inv
<1> QED BY <1>4, <1>5

LEMMA GetPrimaskKeepsInv ==
    ASSUME Inv, NEW c \in Contexts, GetPrimask(c)
    PROVE  Inv'
<1> USE DEF GetPrimask
<1>1. Running' = Running
    BY DEF Running
<1>2. TypeOK'
    BY DEF Inv, TypeOK
<1>3. primask = held
    BY DEF Inv, TypeOK, MaskPutBack
<1>4. /\ pc'[c] = "disable_irq" /\ saved'[c] = held
      /\ \A d \in Contexts : d # c => pc'[d] = pc[d] /\ saved'[d] = saved[d]
    BY <1>3 DEF Inv, TypeOK
<1>5. NoUpdateLost' /\ OwnBits'
    BY DEF Inv, NoUpdateLost, OwnBits
<1>6. StoresFresh'
    BY <1>1, <1>4 DEF Inv, StoresFresh
<1>7. MaskPutBack'
    BY <1>3 DEF MaskPutBack
<1>8. MaskedAlone'
    BY <1>1, <1>4 DEF Inv, MaskedAlone, MaskedPCs
<1>9. SavedMask'
    BY <1>1, <1>4 DEF Inv, SavedMask, MaskedPCs
<1> QED BY <1>2, <1>5, <1>6, <1>7, <1>8, <1>9 DEF Inv

LEMMA DisableIrqKeepsInv ==
    ASSUME Inv, NEW c \in Contexts, DisableIrq(c)
    PROVE  Inv'
<1> USE DEF DisableIrq
<1>1. Running' = Running
    BY DEF Running
<1>2. TypeOK'
    BY DEF Inv, TypeOK
<1>3. pc'[c] = "ldr" /\ \A d \in Contexts : d # c => pc'[d] = pc[d]
    BY DEF Inv, TypeOK
<1>4. NoUpdateLost' /\ OwnBits'
    BY DEF Inv, NoUpdateLost, OwnBits
<1>5. StoresFresh'
    BY <1>1, <1>3 DEF Inv, StoresFresh
<1>6. MaskPutBack'
    BY <1>1, <1>3 DEF MaskPutBack
<1>7. MaskedAlone'
    BY <1>1, <1>3 DEF Inv, MaskedAlone, MaskedPCs
<1>8. SavedMask'
    BY <1>1, <1>3 DEF Inv, SavedMask, MaskedPCs
<1> QED BY <1>2, <1>4, <1>5, <1>6, <1>7, <1>8 DEF Inv

LEMMA LDRKeepsInv ==
    ASSUME Inv, NEW c \in Contexts, LDR(c)
    PROVE  Inv'
<1> USE DEF LDR
<1>1. Running' = Running
    BY DEF Running
<1>2. TypeOK'
    BY DEF Inv, TypeOK
<1>3. primask /\ op[c].width = 32
    BY DEF Inv, MaskedAlone, MaskedPCs
<1>4. /\ pc'[c] = "str" /\ \A d \in Contexts : d # c => pc'[d] = pc[d] /\ val'[d] = val[d]
      /\ val'[c] = register
    BY DEF Inv, TypeOK
<1>5. register = register \cap Low(op[c].width)
    <2>1. Low(op[c].width) = Bits
        BY <1>3, SMT DEF Bits, Low
    <2> QED BY <2>1 DEF Inv, TypeOK
<1>6. NoUpdateLost' /\ OwnBits'
    BY DEF Inv, NoUpdateLost, OwnBits
<1>7. StoresFresh'
    BY <1>1, <1>3, <1>4, <1>5 DEF Inv, StoresFresh
<1>8. MaskPutBack'
    BY <1>1, <1>3, <1>4 DEF MaskPutBack
<1>9. MaskedAlone'
    BY <1>1, <1>3, <1>4 DEF Inv, MaskedAlone, MaskedPCs
<1>10. SavedMask'
    BY <1>1, <1>4 DEF Inv, SavedMask, MaskedPCs
<1> QED BY <1>2, <1>6, <1>7, <1>8, <1>9, <1>10 DEF Inv

LEMMA STRKeepsInv ==
    ASSUME Inv, NEW c \in Contexts, STR(c)
    PROVE  Inv'
<1>1. /\ Running' = Running /\ monitor' = monitor /\ primask' = primask /\ saved' = saved
      /\ held' = held
      /\ stack' = stack /\ val' = [val EXCEPT ![c] = {}] /\ pc[c] = "str" /\ c = Running
      /\ pc' = [pc EXCEPT ![c] = "set_primask"] /\ Store(c)
    BY DEF STR, Running
<1>2. primask /\ \A d \in Contexts : d # c => pc[d] \notin MaskedPCs
    BY <1>1 DEF Inv, MaskedAlone, MaskedPCs
<1>3. val[c] = register \cap Low(op[c].width)
    BY <1>1 DEF Inv, StoresFresh
<1>4. /\ register' \subseteq Bits /\ op' \in [Contexts -> Updates]
      /\ wrote' \in [Contexts -> SUBSET Bits]
      /\ OwnBits' /\ NoUpdateLost'
      /\ \A d \in Contexts : d # c => op'[d] = op[d]
      /\ op'[c] = None
    BY <1>1, <1>3, FreshStore
<1>5. TypeOK'
    BY <1>1, <1>4 DEF Inv, TypeOK
<1>6. pc'[c] = "set_primask" /\ \A d \in Contexts : d # c => pc'[d] = pc[d]
    BY <1>1 DEF Inv, TypeOK
<1>7. StoresFresh' /\ MaskPutBack'
    BY <1>1, <1>2, <1>6 DEF StoresFresh, MaskPutBack, MaskedPCs
<1>8. MaskedAlone'
    BY <1>1, <1>2, <1>4, <1>6 DEF Inv, MaskedAlone, MaskedPCs
<1>9. SavedMask'
    BY <1>1, <1>6 DEF Inv, SavedMask, MaskedPCs
<1> QED BY <1>4, <1>5, <1>7, <1>8, <1>9 DEF Inv

LEMMA SetPrimaskKeepsInv ==
    ASSUME Inv, NEW c \in Contexts, SetPrimask(c)
    PROVE  Inv'
<1> USE DEF SetPrimask
<1>1. Running' = Running
    BY DEF Running
<1>2. TypeOK'
    BY DEF Inv, TypeOK
<1>3. saved[c] = held /\ primask' = held /\ held' = held
    BY DEF Inv, TypeOK, SavedMask, MaskedPCs
<1>4. /\ pc'[c] = "idle" /\ saved'[c] = FALSE
      /\ \A d \in Contexts : d # c => pc'[d] = pc[d] /\ saved'[d] = saved[d]
    BY DEF Inv, TypeOK
<1>5. \A d \in Contexts : d # c => pc[d] \notin MaskedPCs
    BY DEF Inv, MaskedAlone
<1>6. NoUpdateLost' /\ OwnBits'
    BY DEF Inv, NoUpdateLost, OwnBits
<1>7. StoresFresh' /\ MaskPutBack'
    BY <1>1, <1>3, <1>4, <1>5 DEF Inv, StoresFresh, MaskPutBack, MaskedPCs
<1>8. MaskedAlone'
    BY <1>1, <1>4, <1>5 DEF Inv, MaskedAlone, MaskedPCs
<1>9. SavedMask'
    BY <1>1, <1>4 DEF Inv, SavedMask, MaskedPCs
<1> QED BY <1>2, <1>6, <1>7, <1>8, <1>9 DEF Inv

(* A switch closes the monitor, and there is none while interrupts are held off. *)
LEMMA SwitchKeepsInv ==
    ASSUME Inv, Switch
    PROVE  Inv'
<1>1. /\ monitor' = FALSE
      /\ UNCHANGED <<register, primask, held, pc, op, val, saved, wrote>>
      /\ stack' \in Seq(Contexts) /\ stack' # <<>>
      /\ ~primask
    <2>1. CASE \E h \in Handlers : Interrupt(h)
        BY <2>1, EnterRuns DEF Interrupt, Inv, TypeOK, Contexts
    <2>2. CASE Return
        <3>1. ~primask
            BY <2>2 DEF Return, Inv, MaskPutBack
        <3> QED BY <2>2, <3>1, LeaveRuns DEF Return, Inv, TypeOK
    <2>3. CASE \E t \in Tasks : SwitchTask(t)
        <3>1. PICK t \in Tasks : SwitchTask(t)
            BY <2>3
        <3>2. t \in Contexts /\ <<t>> \in Seq(Contexts) /\ <<t>> # <<>>
            BY DEF Contexts
        <3> QED BY <3>1, <3>2 DEF SwitchTask
    <2> QED BY <2>1, <2>2, <2>3 DEF Switch
<1>2. TypeOK'
    BY <1>1 DEF Inv, TypeOK
<1>3. \A d \in Contexts : pc[d] \notin MaskedPCs
    BY <1>1 DEF Inv, MaskedAlone
<1>4. StoresFresh'
    BY <1>1, <1>3 DEF StoresFresh, MaskedPCs
<1>5. MaskedAlone' /\ NoUpdateLost' /\ OwnBits'
    BY <1>1, <1>3 DEF Inv, MaskedAlone, NoUpdateLost, OwnBits
<1>6. ~held /\ \A d \in Contexts : ~saved[d]
    BY <1>1 DEF Inv, MaskPutBack, SavedMask
<1>7. SavedMask' /\ MaskPutBack'
    BY <1>1, <1>6 DEF SavedMask, MaskPutBack
<1> QED BY <1>2, <1>4, <1>5, <1>7 DEF Inv

LEMMA StutterKeepsInv ==
    ASSUME Inv, UNCHANGED vars
    PROVE  Inv'
BY DEF vars, Inv, TypeOK, NoUpdateLost, StoresFresh, MaskPutBack, OwnBits, MaskedAlone,
       SavedMask, Running

LEMMA Inductive == Spec => []Inv
<1>1. Init => Inv
    BY InitInv
<1>2. Inv /\ [Next]_vars => Inv'
    <2> SUFFICES ASSUME Inv, [Next]_vars PROVE Inv'
        OBVIOUS
    <2>1. CASE Switch
        BY <2>1, SwitchKeepsInv
    <2>2. ASSUME NEW c \in Contexts, Start(c) PROVE Inv'
        BY <2>2, StartKeepsInv
    <2>3. ASSUME NEW c \in Contexts, Access(c) PROVE Inv'
        BY <2>3, LDREXKeepsInv, STREXKeepsInv, GetPrimaskKeepsInv, DisableIrqKeepsInv,
           LDRKeepsInv, STRKeepsInv, SetPrimaskKeepsInv DEF Access
    <2>4. CASE UNCHANGED vars
        BY <2>4, StutterKeepsInv
    <2> QED BY <2>1, <2>2, <2>3, <2>4 DEF Next
<1> QED BY <1>1, <1>2, PTL DEF Spec

----------------------------------------------------------------------------------------
(* For any contexts and shares: every variable keeps its kind. *)
THEOREM TypeCorrect == Spec => []TypeOK
<1>1. Inv => TypeOK
    BY DEF Inv
<1> QED BY <1>1, Inductive, PTL

(* For any number of tasks and handlers with disjoint shares of any register: no
   update is lost, whichever of the macros each of them uses. *)
THEOREM NoUpdateLostHolds == Spec => []NoUpdateLost
<1>1. Inv => NoUpdateLost
    BY DEF Inv
<1> QED BY <1>1, Inductive, PTL

(* What is about to be stored is what the register still holds. *)
THEOREM StoresFreshHolds == Spec => []StoresFresh
<1>1. Inv => StoresFresh
    BY DEF Inv
<1> QED BY <1>1, Inductive, PTL

(* An update inside a section that holds interrupts off leaves them off, and outside
   of one interrupts are held off for its own three instructions only. *)
THEOREM MaskPutBackHolds == Spec => []MaskPutBack
<1>1. Inv => MaskPutBack
    BY DEF Inv
<1> QED BY <1>1, Inductive, PTL

(* The bits that are no context's own are never changed by any of them. *)
THEOREM OthersKeptHolds == Spec => OthersKept
<1> DEFINE All == UNION {Share[c] : c \in Contexts}
<1>1. ASSUME Inv, [Next]_vars PROVE register' \ All = register \ All
    <2>1. ASSUME NEW c \in Contexts, Store(c), val[c] = register \cap Low(op[c].width)
          PROVE  register' \ All = register \ All
        <3>1. op[c].clear \subseteq All /\ op[c].set \subseteq All
            <4>1. op[c].clear \subseteq Share[c] /\ op[c].set \subseteq Share[c]
                BY <1>1 DEF Inv, OwnBits
            <4> QED BY <4>1
        <3>2. register' = (register \ op[c].clear) \cup op[c].set
            BY <1>1, <2>1, FreshStore
        <3> QED BY <3>1, <3>2
    <2>2. ASSUME NEW c \in Contexts, STREX(c) PROVE register' \ All = register \ All
        BY <1>1, <2>1, <2>2 DEF STREX, Inv, StoresFresh
    <2>3. ASSUME NEW c \in Contexts, STR(c) PROVE register' \ All = register \ All
        BY <1>1, <2>1, <2>3 DEF STR, Inv, StoresFresh
    <2>4. CASE Switch
        BY <2>4 DEF Switch, Interrupt, Return, SwitchTask
    <2>5. ASSUME NEW c \in Contexts, Start(c) PROVE register' = register
        BY <2>5 DEF Start, ATOMIC_SET_BIT, ATOMIC_CLEAR_BIT, ATOMIC_MODIFY_REG,
           ATOMIC_SETH_BIT, ATOMIC_CLEARH_BIT, ATOMIC_MODIFYH_REG, MaskedModify, Begin,
           HoldOff, Release
    <2>6. ASSUME NEW c \in Contexts, Access(c) PROVE register' \ All = register \ All
        BY <2>2, <2>3, <2>6 DEF Access, LDREX, GetPrimask, DisableIrq, LDR, SetPrimask
    <2>7. CASE UNCHANGED vars
        BY <2>7 DEF vars
    <2> QED BY <1>1, <2>4, <2>5, <2>6, <2>7 DEF Next
<1>2. Inv /\ [Next]_vars => [register' \ All = register \ All]_vars
    BY <1>1
<1> QED BY <1>2, Inductive, PTL DEF Spec, OthersKept
========================================================================================
