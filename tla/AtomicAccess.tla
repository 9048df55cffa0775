--------------------------------- MODULE AtomicAccess ----------------------------------
(* Tasks and interrupt handlers that change bits of one register, each its own ones,
   with the ATOMIC_ macros of stm32f4xx.h on the exclusive load and store of
   cmsis_gcc.h, or with a plain load and store while PRIMASK holds off interrupts.
   A word is the set of its 1 bits. *)
EXTENDS Integers, Sequences

CONSTANTS
    Tasks, Handlers,    \* who uses the register
    Share,              \* Share[c]: the bits of the register that are c's to change
    StartWords          \* what the register may hold at first

Contexts == Tasks \cup Handlers
Bits == 0..31

ASSUME ShareAssumption ==
    /\ StartWords \subseteq SUBSET Bits
    /\ Share \in [Contexts -> SUBSET Bits]
    /\ \A c, d \in Contexts : c # d => Share[c] \cap Share[d] = {}

VARIABLES
    register,   \* the register
    stack,      \* who runs, and in front of whom
    monitor,    \* the processor's exclusive monitor
    primask,    \* PRIMASK: interrupts are held off
    held,       \* who runs is in a section of its own that holds them off
    pc,         \* what each context does next with the register
    op,         \* its update: the width of its accesses, the bits to clear and to set
    val,        \* what it has loaded, until it is stored
    saved,      \* the PRIMASK it has saved, until it is restored
    wrote       \* ghost: its bits as its last completed update left them

vars == <<register, stack, monitor, primask, held, pc, op, val, saved, wrote>>

Running == Head(stack)
Low(width) == 0..width - 1
Updates == [width : {16, 32}, clear : SUBSET Bits, set : SUBSET Bits]
None == [width |-> 32, clear |-> {}, set |-> {}]

(* The bits a macro is called with: some of the context's own. *)
Masks(c) == SUBSET Share[c] \ {{}}

Init ==
    /\ register \in StartWords
    /\ \E t \in Tasks : stack = <<t>>
    /\ monitor = FALSE
    /\ primask = FALSE
    /\ held = FALSE
    /\ pc = [c \in Contexts |-> "idle"]
    /\ op = [c \in Contexts |-> None]
    /\ val = [c \in Contexts |-> {}]
    /\ saved = [c \in Contexts |-> FALSE]
    /\ wrote = [c \in Contexts |-> register \cap Share[c]]

----------------------------------------------------------------------------------------
(* An update begins: which bits it is to clear and then to set. *)
Begin(c, entry, width, clear, set) ==
    /\ c = Running
    /\ pc[c] = "idle"
    /\ clear \cup set \subseteq Low(width)
    /\ op' = [op EXCEPT ![c] = [width |-> width, clear |-> clear, set |-> set]]
    /\ pc' = [pc EXCEPT ![c] = entry]
    /\ UNCHANGED <<register, stack, monitor, primask, held, val, saved, wrote>>

ATOMIC_SET_BIT(c) ==
    \E bit \in Masks(c) : Begin(c, "ldrex", 32, {}, bit)
ATOMIC_CLEAR_BIT(c) ==
    \E bit \in Masks(c) : Begin(c, "ldrex", 32, bit, {})
ATOMIC_MODIFY_REG(c) ==
    \E clearmask \in Masks(c) : \E setmask \in SUBSET clearmask :
        Begin(c, "ldrex", 32, clearmask, setmask)

ATOMIC_SETH_BIT(c) ==
    \E bit \in Masks(c) : Begin(c, "ldrex", 16, {}, bit)
ATOMIC_CLEARH_BIT(c) ==
    \E bit \in Masks(c) : Begin(c, "ldrex", 16, bit, {})
ATOMIC_MODIFYH_REG(c) ==
    \E clearmask \in Masks(c) : \E setmask \in SUBSET clearmask :
        Begin(c, "ldrex", 16, clearmask, setmask)

(* MODIFY_REG between __disable_irq and the restoring of PRIMASK. *)
MaskedModify(c) ==
    \E clearmask \in Masks(c) : \E setmask \in SUBSET clearmask :
        Begin(c, "get_primask", 32, clearmask, setmask)

(* What the update makes of the value loaded. *)
Updated(c) == (val[c] \ op[c].clear) \cup op[c].set

(* A store of the low bits that the access is wide. It ends the update. *)
Store(c) ==
    /\ register' = (register \ Low(op[c].width)) \cup (Updated(c) \cap Low(op[c].width))
    /\ wrote' = [wrote EXCEPT ![c] = (@ \ op[c].clear) \cup op[c].set]
    /\ op' = [op EXCEPT ![c] = None]

(* __LDREXW and __LDREXH: load, and open the monitor. *)
LDREX(c) ==
    /\ c = Running
    /\ pc[c] = "ldrex"
    /\ val' = [val EXCEPT ![c] = register \cap Low(op[c].width)]
    /\ monitor' = TRUE
    /\ pc' = [pc EXCEPT ![c] = "strex"]
    /\ UNCHANGED <<register, stack, primask, held, op, saved, wrote>>

(* Mutant: an ordinary store. *)
STREX_Plain(c) ==
    /\ c = Running
    /\ pc[c] = "strex"
    /\ Store(c)
    /\ monitor' = FALSE
    /\ val' = [val EXCEPT ![c] = {}]
    /\ pc' = [pc EXCEPT ![c] = "idle"]
    /\ UNCHANGED <<stack, primask, held, saved>>

(* Mutant: the loop goes round on success, and ends when the store has failed. *)
STREX_Inverted(c) ==
    /\ c = Running
    /\ pc[c] = "strex"
    /\ IF monitor
       THEN Store(c) /\ pc' = [pc EXCEPT ![c] = "ldrex"]
       ELSE pc' = [pc EXCEPT ![c] = "idle"] /\ UNCHANGED <<register, wrote, op>>
    /\ monitor' = FALSE
    /\ val' = [val EXCEPT ![c] = {}]
    /\ UNCHANGED <<stack, primask, held, saved>>

(* __STREXW and __STREXH: store if the monitor is still open, else go round. *)
STREX(c) ==
    /\ c = Running
    /\ pc[c] = "strex"
    /\ IF monitor
       THEN Store(c) /\ pc' = [pc EXCEPT ![c] = "idle"]
       ELSE pc' = [pc EXCEPT ![c] = "ldrex"] /\ UNCHANGED <<register, wrote, op>>
    /\ monitor' = FALSE
    /\ val' = [val EXCEPT ![c] = {}]
    /\ UNCHANGED <<stack, primask, held, saved>>

(* __get_PRIMASK *)
GetPrimask(c) ==
    /\ c = Running
    /\ pc[c] = "get_primask"
    /\ saved' = [saved EXCEPT ![c] = primask]
    /\ pc' = [pc EXCEPT ![c] = "disable_irq"]
    /\ UNCHANGED <<register, stack, monitor, primask, held, op, val, wrote>>

(* Mutant: the instruction for fault exceptions, which leaves PRIMASK alone. *)
DisableIrq_Faults(c) ==
    /\ c = Running
    /\ pc[c] = "disable_irq"
    /\ pc' = [pc EXCEPT ![c] = "ldr"]
    /\ UNCHANGED <<register, stack, monitor, primask, held, op, val, saved, wrote>>

(* __disable_irq *)
DisableIrq(c) ==
    /\ c = Running
    /\ pc[c] = "disable_irq"
    /\ primask' = TRUE
    /\ pc' = [pc EXCEPT ![c] = "ldr"]
    /\ UNCHANGED <<register, stack, monitor, held, op, val, saved, wrote>>

(* READ_REG and WRITE_REG in MODIFY_REG *)
LDR(c) ==
    /\ c = Running
    /\ pc[c] = "ldr"
    /\ val' = [val EXCEPT ![c] = register]
    /\ pc' = [pc EXCEPT ![c] = "str"]
    /\ UNCHANGED <<register, stack, monitor, primask, held, op, saved, wrote>>

STR(c) ==
    /\ c = Running
    /\ pc[c] = "str"
    /\ Store(c)
    /\ val' = [val EXCEPT ![c] = {}]
    /\ pc' = [pc EXCEPT ![c] = "set_primask"]
    /\ UNCHANGED <<stack, monitor, primask, held, saved>>

(* Mutant: __enable_irq in its place. *)
SetPrimask_Enables(c) ==
    /\ c = Running
    /\ pc[c] = "set_primask"
    /\ primask' = FALSE
    /\ saved' = [saved EXCEPT ![c] = FALSE]
    /\ pc' = [pc EXCEPT ![c] = "idle"]
    /\ UNCHANGED <<register, stack, monitor, held, op, val, wrote>>

(* __set_PRIMASK *)
SetPrimask(c) ==
    /\ c = Running
    /\ pc[c] = "set_primask"
    /\ primask' = saved[c]
    /\ saved' = [saved EXCEPT ![c] = FALSE]
    /\ pc' = [pc EXCEPT ![c] = "idle"]
    /\ UNCHANGED <<register, stack, monitor, held, op, val, wrote>>

(* __disable_irq and __enable_irq around updates that belong together. *)
HoldOff(c) ==
    /\ c = Running
    /\ pc[c] = "idle"
    /\ ~held
    /\ primask' = TRUE
    /\ held' = TRUE
    /\ UNCHANGED <<register, stack, monitor, pc, op, val, saved, wrote>>

Release(c) ==
    /\ c = Running
    /\ pc[c] = "idle"
    /\ held
    /\ primask' = FALSE
    /\ held' = FALSE
    /\ UNCHANGED <<register, stack, monitor, pc, op, val, saved, wrote>>

Access(c) ==
    \/ LDREX(c) \/ STREX(c)
    \/ GetPrimask(c) \/ DisableIrq(c) \/ LDR(c) \/ STR(c) \/ SetPrimask(c)

(* An interrupt is taken; a handler that has ended returns; the kernel, in an
   exception of its own, goes over to another task. Each closes the monitor. Nobody
   leaves a section of its own open behind it. *)
Interrupt(h) ==
    /\ ~primask
    /\ h \notin {stack[i] : i \in DOMAIN stack}
    /\ stack' = <<h>> \o stack
    /\ monitor' = FALSE
    /\ UNCHANGED <<register, primask, held, pc, op, val, saved, wrote>>

Return ==
    /\ Len(stack) > 1
    /\ pc[Running] = "idle"
    /\ ~held
    /\ stack' = Tail(stack)
    /\ monitor' = FALSE
    /\ UNCHANGED <<register, primask, held, pc, op, val, saved, wrote>>

SwitchTask(t) ==
    /\ ~primask
    /\ Len(stack) = 1
    /\ t # Running
    /\ stack' = <<t>>
    /\ monitor' = FALSE
    /\ UNCHANGED <<register, primask, held, pc, op, val, saved, wrote>>

Switch == \/ \E h \in Handlers : Interrupt(h)
          \/ Return
          \/ \E t \in Tasks : SwitchTask(t)

Start(c) ==
    \/ ATOMIC_SET_BIT(c) \/ ATOMIC_CLEAR_BIT(c) \/ ATOMIC_MODIFY_REG(c)
    \/ ATOMIC_SETH_BIT(c) \/ ATOMIC_CLEARH_BIT(c) \/ ATOMIC_MODIFYH_REG(c)
    \/ MaskedModify(c)
    \/ HoldOff(c) \/ Release(c)

Next == Switch \/ \E c \in Contexts : Start(c) \/ Access(c)

(* The processor executes the instructions of whoever runs. *)
Fairness == WF_vars(\E c \in Contexts : Access(c))

Spec == Init /\ [][Next]_vars /\ Fairness
----------------------------------------------------------------------------------------
(* Every variable keeps its kind. *)
TypeOK ==
    /\ register \subseteq Bits
    /\ stack \in Seq(Contexts) /\ stack # <<>>
    /\ monitor \in BOOLEAN
    /\ primask \in BOOLEAN
    /\ held \in BOOLEAN
    /\ pc \in [Contexts -> {"idle", "ldrex", "strex", "get_primask", "disable_irq",
                            "ldr", "str", "set_primask"}]
    /\ op \in [Contexts -> Updates]
    /\ val \in [Contexts -> SUBSET Bits]
    /\ saved \in [Contexts -> BOOLEAN]
    /\ wrote \in [Contexts -> SUBSET Bits]

(* Whatever else has run meanwhile: the bits of a context are as its own completed
   updates left them. No read-modify-write of another context has put old ones back. *)
NoUpdateLost == \A c \in Contexts : register \cap Share[c] = wrote[c]

(* A value that is going to be stored is still what the register holds: while the
   monitor is open, and while interrupts are held off. *)
StoresFresh ==
    LET fresh(c) == val[c] = register \cap Low(op[c].width)
    IN  /\ pc[Running] = "strex" /\ monitor => fresh(Running)
        /\ \A c \in Contexts : pc[c] = "str" => c = Running /\ primask /\ fresh(c)

(* A plain update puts back the mask that it found. Inside a section that holds
   interrupts off they stay off, so that the updates of the section belong together;
   outside of one they are off for no longer than the update. *)
MaskPutBack ==
    /\ held => primask
    /\ primask /\ ~held => pc[Running] \in {"ldr", "str", "set_primask"}

(* Bits that are nobody's never change. *)
OthersKept ==
    [][register' \ UNION {Share[c] : c \in Contexts}
        = register \ UNION {Share[c] : c \in Contexts}]_vars

(* Who runs completes its update, or contexts change for ever: the loop of an ATOMIC_
   macro goes round only as often as it is interrupted. *)
UpdatesEnd == []<>(pc[Running] = "idle") \/ []<><<Switch>>_stack
========================================================================================
