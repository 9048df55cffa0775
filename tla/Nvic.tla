------------------------------------- MODULE Nvic --------------------------------------
(* Two interrupts of the device, configured with the NVIC_ functions and SysTick_Config
   of core_cm4.h, raised by hardware or by software, and taken by the processor. Two
   suffice: all that one interrupt can do to another is between the two of them. A word
   is the set of its 1 bits; priorities and bytes are numbers. *)
EXTENDS RegisterMacros, CoreRegisters, VectorTable

CONSTANTS
    Pairs,      \* the pairs of interrupts that are looked at
    Groups,     \* the priority groupings that are set
    Levels,     \* the preemption priorities and subpriorities that are asked for
    Periods     \* the numbers of ticks SysTick_Config is called with

VARIABLES
    used,       \* the pair in use
    iser, ispr, \* NVIC: the enabled and the pending interrupts, 32 to a word
    icsr,       \* SCB: the pending exceptions
    ip, shp,    \* the priority bytes of interrupts (NVIC) and of exceptions (SCB)
    prigroup,   \* SCB: the bits of the field PRIGROUP of AIRCR
    reload,     \* SysTick: the reload value; with 0 the timer stands still
    active,     \* the interrupts being handled, the running one first, each with its
                \* handler
    wanted,     \* ghost: what the calls so far have asked for, interrupt by interrupt
    group       \* ghost: the grouping asked for

vars == <<used, iser, ispr, icsr, ip, shp, prigroup, reload, active, wanted, group>>

PRIO_BITS == 4      \* __NVIC_PRIO_BITS
Device == {irq \in DOMAIN IRQn_Type : IRQn_Type[irq] >= 0}
Configurable == DOMAIN IRQn_Type \ {"NonMaskableInt"}

ASSUME NvicAssumption ==
    /\ Pairs \subseteq SUBSET DOMAIN IRQn_Type
    /\ Groups \subseteq 0..7 /\ Levels \subseteq Nat

Lesser(m, n) == IF m < n THEN m ELSE n

(* Where the registers of one bit for each interrupt have the bit of this one. *)
WordOf(irq) == IRQn_Type[irq] \div 32
BitOf(irq) == {IRQn_Type[irq] % 32}
ShpOf(irq) == (IRQn_Type[irq] % 16) - 4

PreemptBits(g) == Lesser(7 - (g % 8), PRIO_BITS)
SubBits(g) == IF (g % 8) + PRIO_BITS < 7 THEN 0 ELSE (g % 8) - 7 + PRIO_BITS

NoBits == [w \in 0..2 |-> {}]
ZeroBytes(irqs) == [irq \in irqs |-> 0]
NothingAsked ==
    [irq \in used |->
       [enabled |-> irq \notin Device, pending |-> FALSE,
        preempt |-> IF irq \in Configurable THEN 0 ELSE -2, sub |-> 0]]

Init ==
    /\ used \in Pairs
    /\ iser = NoBits
    /\ ispr = NoBits
    /\ icsr = {}
    /\ ip = ZeroBytes(used \cap Device)
    /\ shp = ZeroBytes(0..11)
    /\ prigroup = {}
    /\ reload = 0
    /\ active = <<>>
    /\ wanted = NothingAsked
    /\ group = 0

----------------------------------------------------------------------------------------
(* Priorities *)

(* AIRCR: its key reads as FA05H; a write without the key 5FAH is ignored. *)
ReadAIRCR == VAL2FLD(16, SCB_AIRCR.VECTKEY.mask, Word(\hFA05)) \cup prigroup
WriteAIRCR(word) ==
    prigroup' = IF FLD2VAL(16, SCB_AIRCR.VECTKEY.mask, word) = Word(\h5FA)
                  THEN word \cap SCB_AIRCR.PRIGROUP.mask
                  ELSE prigroup

(* The grouping is set before any priority. *)
Unconfigured ==
    /\ active = <<>>
    /\ \A irq \in used : wanted[irq].preempt <= 0 /\ wanted[irq].sub = 0

(* Mutant: the key that was read is left in the word that is written. *)
NVIC_SetPriorityGrouping_KeepsKey(g) ==
    /\ Unconfigured
    /\ WriteAIRCR((ReadAIRCR \ SCB_AIRCR.PRIGROUP.mask)
                  \cup VAL2FLD(16, SCB_AIRCR.VECTKEY.mask, Word(\h5FA))
                  \cup ShiftLeft(Word(g % 8), 8))
    /\ group' = g
    /\ UNCHANGED <<used, iser, ispr, icsr, ip, shp, reload, active, wanted>>

NVIC_SetPriorityGrouping(g) ==
    /\ Unconfigured
    /\ WriteAIRCR((ReadAIRCR \ (SCB_AIRCR.VECTKEY.mask \cup SCB_AIRCR.PRIGROUP.mask))
                  \cup VAL2FLD(16, SCB_AIRCR.VECTKEY.mask, Word(\h5FA))
                  \cup ShiftLeft(Word(g % 8), 8))
    /\ group' = g
    /\ UNCHANGED <<used, iser, ispr, icsr, ip, shp, reload, active, wanted>>

NVIC_GetPriorityGrouping == Number(FLD2VAL(8, SCB_AIRCR.PRIGROUP.mask, ReadAIRCR))

NVIC_EncodePriority(g, preempt, sub) ==
    (preempt % 2^PreemptBits(g)) * 2^SubBits(g) + (sub % 2^SubBits(g))

NVIC_DecodePriority(priority, g) ==
    [preempt |-> (priority \div 2^SubBits(g)) % 2^PreemptBits(g),
     sub |-> priority % 2^SubBits(g)]

PriorityByte(priority) == (priority * 2^(8 - PRIO_BITS)) % 256

\* What NVIC_SetPriority does to the registers.
StorePriority(irq, priority) ==
    IF irq \in Device
      THEN /\ ip' = [ip EXCEPT ![irq] = PriorityByte(priority)]
           /\ UNCHANGED shp
      ELSE /\ shp' = [shp EXCEPT ![ShpOf(irq)] = PriorityByte(priority)]
           /\ UNCHANGED ip

Asks(irq, preempt, sub) ==
    wanted' = [wanted EXCEPT ![irq].preempt = preempt, ![irq].sub = sub]

NVIC_SetPriority(irq, preempt, sub) ==
    /\ irq \in Configurable
    /\ preempt < 2^PreemptBits(group) /\ sub < 2^SubBits(group)
    /\ StorePriority(irq, NVIC_EncodePriority(NVIC_GetPriorityGrouping, preempt, sub))
    /\ Asks(irq, preempt, sub)
    /\ UNCHANGED <<used, iser, ispr, icsr, prigroup, reload, active, group>>

Byte(irq) == IF irq \in Device THEN ip[irq] ELSE shp[ShpOf(irq)]

NVIC_GetPriority(irq) == Byte(irq) \div 2^(8 - PRIO_BITS)

----------------------------------------------------------------------------------------
(* Enabling and pending *)

NVIC_EnableIRQ(irq) ==
    /\ irq \in Device
    /\ iser' = [iser EXCEPT ![WordOf(irq)] = @ \cup BitOf(irq)]
    /\ wanted' = [wanted EXCEPT ![irq].enabled = TRUE]
    /\ UNCHANGED <<used, ispr, icsr, ip, shp, prigroup, reload, active, group>>

NVIC_GetEnableIRQ(irq) == irq \in Device /\ BitOf(irq) \subseteq iser[WordOf(irq)]

(* Mutant: the bit is set in ICER by |=; ICER reads as the enabled interrupts. *)
NVIC_DisableIRQ_ReadModifyWrite(irq) ==
    /\ irq \in Device
    /\ iser' = [iser EXCEPT ![WordOf(irq)] = @ \ (@ \cup BitOf(irq))]
    /\ wanted' = [wanted EXCEPT ![irq].enabled = FALSE]
    /\ UNCHANGED <<used, ispr, icsr, ip, shp, prigroup, reload, active, group>>

NVIC_DisableIRQ(irq) ==
    /\ irq \in Device
    /\ iser' = [iser EXCEPT ![WordOf(irq)] = @ \ BitOf(irq)]
    /\ wanted' = [wanted EXCEPT ![irq].enabled = FALSE]
    /\ UNCHANGED <<used, ispr, icsr, ip, shp, prigroup, reload, active, group>>

\* The call, or the device behind the interrupt.
NVIC_SetPendingIRQ(irq) ==
    /\ irq \in Device
    /\ ispr' = [ispr EXCEPT ![WordOf(irq)] = @ \cup BitOf(irq)]
    /\ wanted' = [wanted EXCEPT ![irq].pending = TRUE]
    /\ UNCHANGED <<used, iser, icsr, ip, shp, prigroup, reload, active, group>>

\* The timer, the kernel (PendSV) or a failing clock (NMI).
RaiseException(irq) ==
    /\ irq \notin Device
    /\ irq = "SysTick" => reload > 0
    /\ icsr' = icsr \cup {irq}
    /\ wanted' = [wanted EXCEPT ![irq].pending = TRUE]
    /\ UNCHANGED <<used, iser, ispr, ip, shp, prigroup, reload, active, group>>

NVIC_ClearPendingIRQ(irq) ==
    /\ irq \in Device
    /\ ispr' = [ispr EXCEPT ![WordOf(irq)] = @ \ BitOf(irq)]
    /\ wanted' = [wanted EXCEPT ![irq].pending = FALSE]
    /\ UNCHANGED <<used, iser, icsr, ip, shp, prigroup, reload, active, group>>

NVIC_GetPendingIRQ(irq) == irq \in Device /\ BitOf(irq) \subseteq ispr[WordOf(irq)]

----------------------------------------------------------------------------------------
(* The calls about the timer and the reset *)

(* ticks - 1 of 0 is the largest unsigned number: it is rejected like every other
   period of more than 24 bits, and nothing is changed. *)
SysTick_Config(ticks) ==
    /\ "SysTick" \in used
    /\ ticks \in 1..2^24
    /\ reload' = ticks - 1
    /\ StorePriority("SysTick", 2^PRIO_BITS - 1)
    /\ Asks("SysTick", 2^PreemptBits(group) - 1, 2^SubBits(group) - 1)
    /\ UNCHANGED <<used, iser, ispr, icsr, prigroup, active, group>>

\* The write has the key, so the processor is reset.
NVIC_SystemReset ==
    /\ iser' = NoBits
    /\ ispr' = NoBits
    /\ icsr' = {}
    /\ ip' = ZeroBytes(DOMAIN ip)
    /\ shp' = ZeroBytes(DOMAIN shp)
    /\ prigroup' = {}
    /\ reload' = 0
    /\ active' = <<>>
    /\ wanted' = NothingAsked
    /\ group' = 0
    /\ UNCHANGED used

----------------------------------------------------------------------------------------
(* The processor *)

\* The bits of the priority that count for preemption, and the other ones.
GroupPriority(irq) ==
    IF irq \in Configurable
      THEN Byte(irq) \div 2^(Number(ShiftRight(prigroup, 8)) + 1) ELSE -2
SubPriority(irq) ==
    IF irq \in Configurable
      THEN Byte(irq) % 2^(Number(ShiftRight(prigroup, 8)) + 1) ELSE 0

Pending(irq) == irq \in icsr \/ NVIC_GetPendingIRQ(irq)
Eligible(irq) == Pending(irq) /\ (irq \in Device => NVIC_GetEnableIRQ(irq))
Handled == {active[k].irq : k \in DOMAIN active}

Precedes(irq, other) ==
    \/ GroupPriority(irq) < GroupPriority(other)
    \/ /\ GroupPriority(irq) = GroupPriority(other)
       /\ \/ SubPriority(irq) < SubPriority(other)
          \/ /\ SubPriority(irq) = SubPriority(other)
             /\ IRQn_Type[irq] < IRQn_Type[other]

Enter(irq) ==
    /\ Eligible(irq)
    /\ \A other \in used \ {irq} : Eligible(other) => Precedes(irq, other)
    /\ \A other \in Handled : GroupPriority(irq) < GroupPriority(other)
    /\ ispr' = IF irq \in Device THEN [ispr EXCEPT ![WordOf(irq)] = @ \ BitOf(irq)]
               ELSE ispr
    /\ icsr' = icsr \ {irq}
    /\ active' = <<[irq |-> irq, handler |-> VectorOf(irq)]>> \o active
    /\ wanted' = [wanted EXCEPT ![irq].pending = FALSE]
    /\ UNCHANGED <<used, iser, ip, shp, prigroup, reload, group>>

Return ==
    /\ active # <<>>
    /\ active' = Tail(active)
    /\ UNCHANGED <<used, iser, ispr, icsr, ip, shp, prigroup, reload, wanted, group>>

Next ==
    \/ \E g \in Groups : NVIC_SetPriorityGrouping(g)
    \/ \E irq \in used, preempt \in Levels, sub \in Levels :
          NVIC_SetPriority(irq, preempt, sub)
    \/ \E irq \in used : NVIC_EnableIRQ(irq)
    \/ \E irq \in used : NVIC_DisableIRQ(irq)
    \/ \E irq \in used : NVIC_SetPendingIRQ(irq)
    \/ \E irq \in used : RaiseException(irq)
    \/ \E irq \in used : NVIC_ClearPendingIRQ(irq)
    \/ \E ticks \in Periods : SysTick_Config(ticks)
    \/ NVIC_SystemReset
    \/ \E irq \in used : Enter(irq)
    \/ Return

Spec == Init /\ [][Next]_vars

----------------------------------------------------------------------------------------
(* What the program reads back is what it asked for, of each interrupt whatever was
   asked for the other: NVIC_GetEnableIRQ and NVIC_GetPendingIRQ tell of the last call,
   the grouping is the one set, and NVIC_DecodePriority of NVIC_GetPriority gives both
   parts of the priority. *)
ReadsBack ==
    /\ NVIC_GetPriorityGrouping = group
    /\ \A irq \in used \cap Device :
          /\ NVIC_GetEnableIRQ(irq) = wanted[irq].enabled
          /\ NVIC_GetPendingIRQ(irq) = wanted[irq].pending
    /\ \A irq \in used \cap Configurable :
          NVIC_DecodePriority(NVIC_GetPriority(irq), group)
            = [preempt |-> wanted[irq].preempt, sub |-> wanted[irq].sub]

(* The vector table agrees with the interrupt numbers: whatever is being handled is
   handled by the handler of its own name. *)
RunsOwnHandler == \A k \in DOMAIN active : active[k].handler = HandlerName(active[k].irq)

(* The processor takes interrupts as the program asked: only one that is enabled, only
   in front of what has a higher preemption priority number, and of two that are
   waiting the one with the lower preemption priority, then subpriority, then number. *)
UrgentFirst ==
    [][\A irq \in used :
          Len(active') > Len(active) /\ Head(active').irq = irq =>
            /\ wanted[irq].enabled
            /\ \A other \in Handled : wanted[irq].preempt < wanted[other].preempt
            /\ \A other \in used \ {irq} :
                  wanted[other].pending /\ wanted[other].enabled =>
                    \/ wanted[irq].preempt < wanted[other].preempt
                    \/ /\ wanted[irq].preempt = wanted[other].preempt
                       /\ \/ wanted[irq].sub < wanted[other].sub
                          \/ /\ wanted[irq].sub = wanted[other].sub
                             /\ IRQn_Type[irq] < IRQn_Type[other]]_vars
========================================================================================
