--------------------------- MODULE InterruptsProofs ---------------------------
(***************************************************************************)
(* For any set of interrupts at any levels, with and without handlers, and *)
(* raised any number of times: the priorities of FreeRTOSConfig.h give the *)
(* kernel's data one user at a time, never hold back what is above the     *)
(* kernel's limit, and a failed assertion or a trap is final.              *)
(***************************************************************************)
EXTENDS Interrupts, SequenceTheorems, TLAPS

-----------------------------------------------------------------------------
(* Priorities.                                                              *)

\* The kernel's limit survives the cut to the implemented bits.
LEMMA LimitValue ==
  /\ configMAX_SYSCALL_INTERRUPT_PRIORITY = 80
  /\ Implemented(configMAX_SYSCALL_INTERRUPT_PRIORITY) = 80
  BY DEF configMAX_SYSCALL_INTERRUPT_PRIORITY, configPRIO_BITS, Implemented

\* The kernel's handlers have the last of sixteen priorities, an interrupt the
\* one of its level.
LEMMA PriorityValue ==
  /\ \A k \in Kernel : Priority(k) = 240
  /\ \A i \in Irq : Level[i] \in 0 .. 15 /\ Priority(i) = 16 * Level[i]
<1>1. ASSUME NEW k \in Kernel PROVE Priority(k) = 240
  BY DEF Priority, Implemented, configKERNEL_INTERRUPT_PRIORITY, configPRIO_BITS
<1>2. ASSUME NEW i \in Irq PROVE Level[i] \in 0 .. 15 /\ Priority(i) = 16 * Level[i]
  <2>1. Level[i] \in 0 .. 15 /\ i \notin Kernel
    BY InterruptsAssumption
  <2>2. Priority(i) = Implemented((Level[i] * 16) % 256)
    BY <2>1 DEF Priority, NVIC_SetPriority, configPRIO_BITS
  <2>3. (Level[i] * 16) % 256 = 16 * Level[i]
    BY <2>1
  <2>4. Implemented(16 * Level[i]) = 16 * Level[i]
    BY <2>1 DEF Implemented, configPRIO_BITS
  <2>5. QED
    BY <2>1, <2>2, <2>3, <2>4
<1>3. QED
  BY <1>1, <1>2

\* Priorities are multiples of sixteen.
LEMMA PriorityStep ==
  \A e \in Exception : \E n \in 0 .. 15 : Priority(e) = 16 * n
<1>1. ASSUME NEW e \in Exception PROVE \E n \in 0 .. 15 : Priority(e) = 16 * n
  <2>1. CASE e \in Kernel
    <3>1. Priority(e) = 16 * 15
      BY <2>1, PriorityValue
    <3>2. QED
      BY <3>1
  <2>2. CASE e \in Irq
    BY <2>2, PriorityValue
  <2>3. QED
    BY <2>1, <2>2 DEF Exception
<1>2. QED
  BY <1>1

\* The thread is no exception.
LEMMA ThreadApart == "thread" \notin Exception
  BY InterruptsAssumption DEF Exception, Kernel

-----------------------------------------------------------------------------
(* The stack of active exceptions.                                          *)

LEMMA Push ==
  ASSUME NEW e \in Exception, active \in Seq(Exception),
         active' = Append(active, e)
  PROVE  /\ active' \in Seq(Exception)
         /\ Len(active) \in Nat /\ Len(active') = Len(active) + 1
         /\ \A i \in 1 .. Len(active) : active'[i] = active[i]
         /\ active'[Len(active')] = e
         /\ Active' = Active \cup {e}
<1>1. /\ active' \in Seq(Exception)
      /\ Len(active) \in Nat /\ Len(active') = Len(active) + 1
      /\ \A i \in 1 .. Len(active) : active'[i] = active[i]
      /\ active'[Len(active')] = e
  BY AppendProperties
<1>2. QED
  BY <1>1 DEF Active

LEMMA Pop ==
  ASSUME active \in Seq(Exception), active # <<>>,
         active' = SubSeq(active, 1, Len(active) - 1)
  PROVE  /\ active' \in Seq(Exception)
         /\ Len(active) \in Nat \ {0} /\ Len(active') = Len(active) - 1
         /\ \A i \in 1 .. Len(active') : active'[i] = active[i]
         /\ Active = Active' \cup {Current}
<1>1. Len(active) \in Nat \ {0}
  BY EmptySeq
<1>2. \A i \in 1 .. Len(active) - 1 : active[i] \in Exception
  BY <1>1
<1>3. /\ active' \in Seq(Exception)
      /\ Len(active') = Len(active) - 1
      /\ \A i \in 1 .. Len(active') : active'[i] = active[i]
  <2> DEFINE n == Len(active) - 1
  <2>1. n \in Nat /\ active' = SubSeq(active, 1, n)
    BY <1>1
  <2>2. \A i \in 1 .. n : active[i] \in Exception
    BY <1>2
  <2> HIDE DEF n
  <2>3. /\ SubSeq(active, 1, n) \in Seq(Exception)
        /\ Len(SubSeq(active, 1, n)) = IF 1 <= n THEN n - 1 + 1 ELSE 0
        /\ \A i \in 1 .. n - 1 + 1 : SubSeq(active, 1, n)[i] = active[1 + i - 1]
    BY <2>1, <2>2, SubSeqProperties
  <2>4. Len(active') = n
    BY <2>1, <2>3
  <2>5. \A i \in 1 .. n : active'[i] = active[i]
    BY <2>1, <2>3
  <2>6. QED
    BY <2>1, <2>3, <2>4, <2>5 DEF n
<1>4. Current = active[Len(active)]
  BY DEF Current
<1>5. QED
  BY <1>1, <1>3, <1>4 DEF Active

-----------------------------------------------------------------------------
(* The inductive invariant: KernelExclusive and MaskedOnlyWhenLocked, with  *)
(* how preemption orders the active exceptions and what may have preempted  *)
(* a critical section.                                                      *)

\* Only a more urgent exception preempts.
Descending ==
  \A i, j \in 1 .. Len(active) : i < j => Priority(active[j]) < Priority(active[i])

\* Sixteen priorities, so at most sixteen exceptions deep.
Depth == \A i \in 1 .. Len(active) : Priority(active[i]) <= 256 - 16 * i

\* Only a context that has been entered is in a critical section.
LockedEntered == locked \subseteq Active \cup {"thread"}

\* BASEPRI is the kernel's limit in a critical section and zero outside.
Masked == basepri = IF locked = {} THEN 0 ELSE 80

\* What preempts a critical section is above the kernel's limit.
Shielded ==
  \A c \in locked, j \in 1 .. Len(active) :
    (c = "thread" \/ \E i \in 1 .. j - 1 : active[i] = c) => Priority(active[j]) < 80

\* PRIMASK is set by a failed assertion and by nothing else.
Stopped == primask = halted

PriorityInv ==
  /\ TypeOK
  /\ Descending /\ Depth
  /\ LockedEntered /\ Masked /\ Shielded
  /\ KernelExclusive
  /\ Stopped

LEMMA InitPriorityInv == Init => PriorityInv
<1> SUFFICES ASSUME Init PROVE PriorityInv
  OBVIOUS
<1>1. active \in Seq(Exception) /\ Len(active) = 0
  BY DEF Init
<1>2. TypeOK
  <2>1. raised \in [Irq -> 0 .. MaxRaised]
    BY InterruptsAssumption DEF Init
  <2>2. pending \subseteq Exception /\ locked \subseteq Exception \cup {"thread"}
        /\ served \subseteq Active
    BY DEF Init
  <2>3. basepri \in 0 .. 255
    BY DEF Init
  <2>4. primask \in BOOLEAN /\ halted \in BOOLEAN
    BY DEF Init
  <2>5. Len(active) <= 16
    BY <1>1
  <2>6. QED
    BY <1>1, <2>1, <2>2, <2>3, <2>4, <2>5 DEF TypeOK
<1>3. \A i \in 1 .. Len(active) : FALSE
  BY <1>1
<1>4. Descending /\ Depth /\ Shielded
  BY <1>3 DEF Descending, Depth, Shielded
<1>5. QED
  BY <1>2, <1>4
  DEF Init, PriorityInv, LockedEntered, Masked, KernelExclusive, Stopped

\* Raising an exception changes neither the stack nor the masks.
LEMMA RaiseInv ==
  ASSUME PriorityInv, RaiseSysTick \/ \E i \in Irq : RaiseIrq(i)
  PROVE  PriorityInv'
<1>1. UNCHANGED <<active, basepri, primask, locked, served, halted>>
  BY DEF RaiseSysTick, RaiseIrq
<1>2. pending' \subseteq Exception
  <2>1. CASE RaiseSysTick
    BY <2>1 DEF PriorityInv, TypeOK, RaiseSysTick, Exception, Kernel
  <2>2. ASSUME NEW i \in Irq, RaiseIrq(i) PROVE pending' \subseteq Exception
    BY <2>2 DEF PriorityInv, TypeOK, RaiseIrq, Exception
  <2>3. QED
    BY <2>1, <2>2
<1>3. raised' \in [Irq -> 0 .. MaxRaised]
  BY InterruptsAssumption DEF PriorityInv, TypeOK, RaiseSysTick, RaiseIrq
<1>4. QED
  BY <1>1, <1>2, <1>3
  DEF PriorityInv, TypeOK, Active, Descending, Depth, LockedEntered, Masked, Shielded,
      KernelExclusive, Stopped

\* What is entered is more urgent than all that is active and, in a critical
\* section, than the kernel's limit.
LEMMA EnterInv ==
  ASSUME PriorityInv, NEW e \in Exception, Enter(e)
  PROVE  PriorityInv'
<1> DEFINE n == Len(active)
<1>1. /\ active' \in Seq(Exception)
      /\ n \in Nat /\ Len(active') = n + 1
      /\ \A i \in 1 .. n : active'[i] = active[i]
      /\ active'[n + 1] = e
      /\ Active' = Active \cup {e}
  BY Push DEF PriorityInv, TypeOK, Enter
<1>2. \A i \in 1 .. n : active[i] \in Active /\ active[i] \in Exception
  BY <1>1 DEF Active, PriorityInv, TypeOK
<1>3. \A i \in 1 .. n : Priority(e) < Priority(active[i])
  BY <1>2 DEF Enter, Takes
<1>4. locked # {} => Priority(e) < 80
  BY DEF Enter, Takes, PriorityInv, Masked
<1>5. UNCHANGED <<basepri, primask, locked, served, halted, raised>>
  BY DEF Enter
<1> HIDE DEF n
<1>6. Descending'
  BY <1>1, <1>3, n \in Nat DEF Descending, PriorityInv, n
<1>7. Depth'
  <2>1. PICK p \in 0 .. 15 : Priority(e) = 16 * p
    BY PriorityStep
  <2>2. Priority(e) <= 256 - 16 * (n + 1)
    <3>1. CASE n = 0
      BY <2>1, <3>1
    <3>2. CASE n > 0
      <4>1. n \in 1 .. n
        BY <1>1, <3>2
      <4>2. PICK q \in 0 .. 15 : Priority(active[n]) = 16 * q
        BY <4>1, <1>2, PriorityStep
      <4>3. 16 * q <= 256 - 16 * n /\ p < q
        BY <4>1, <4>2, <2>1, <1>3 DEF PriorityInv, Depth, n
      <4>4. QED
        BY <2>1, <4>3, <1>1
    <3>3. QED
      BY <3>1, <3>2, <1>1
  <2>3. QED
    BY <1>1, <2>2 DEF Depth, PriorityInv, n
<1>8. Shielded'
  <2> SUFFICES ASSUME NEW c \in locked, NEW j \in 1 .. n + 1,
                      c = "thread" \/ \E i \in 1 .. j - 1 : active'[i] = c
               PROVE  Priority(active'[j]) < 80
    BY <1>1, <1>5 DEF Shielded
  <2>1. CASE j = n + 1
    BY <2>1, <1>1, <1>4
  <2>2. CASE j \in 1 .. n
    <3>1. c = "thread" \/ \E i \in 1 .. j - 1 : active[i] = c
      BY <2>2, <1>1
    <3>2. QED
      BY <3>1, <2>2, <1>1 DEF PriorityInv, Shielded, n
  <2>3. QED
    BY <2>1, <2>2, <1>1
<1>9. TypeOK'
  <2>1. Len(active') <= 16
    <3>1. n + 1 \in 1 .. Len(active') /\ Priority(active'[n + 1]) <= 256 - 16 * (n + 1)
      BY <1>1, <1>7 DEF Depth
    <3>2. PICK p \in 0 .. 15 : Priority(e) = 16 * p
      BY PriorityStep
    <3>3. QED
      BY <1>1, <3>1, <3>2
  <2>2. pending' \subseteq Exception
    BY DEF Enter, PriorityInv, TypeOK
  <2>3. QED
    BY <1>1, <1>5, <2>1, <2>2 DEF PriorityInv, TypeOK
<1>10. QED
  BY <1>1, <1>5, <1>6, <1>7, <1>8, <1>9
  DEF PriorityInv, LockedEntered, Masked, KernelExclusive, Stopped

\* A return takes away the context that stands above all others.
LEMMA ReturnInv ==
  ASSUME PriorityInv, Return
  PROVE  PriorityInv'
<1>1. /\ active' \in Seq(Exception)
      /\ Len(active) \in Nat \ {0} /\ Len(active') = Len(active) - 1
      /\ \A i \in 1 .. Len(active') : active'[i] = active[i]
      /\ Active = Active' \cup {Current}
  BY Pop DEF PriorityInv, TypeOK, Return
<1>2. UNCHANGED <<pending, basepri, primask, locked, halted, raised>>
      /\ Current \notin locked
      /\ served' = served \ {Current}
  BY DEF Return
<1>3. Descending' /\ Depth'
  <2>1. \A i \in 1 .. Len(active') : i \in 1 .. Len(active) /\ active'[i] = active[i]
    BY <1>1
  <2>2. Descending'
    BY <2>1 DEF PriorityInv, Descending
  <2>3. Depth'
    BY <2>1 DEF PriorityInv, Depth
  <2>4. QED
    BY <2>2, <2>3
<1>4. Shielded'
  <2> SUFFICES ASSUME NEW c \in locked, NEW j \in 1 .. Len(active'),
                      c = "thread" \/ \E i \in 1 .. j - 1 : active'[i] = c
               PROVE  Priority(active'[j]) < 80
    BY <1>2 DEF Shielded
  <2>1. j \in 1 .. Len(active) /\ active'[j] = active[j]
    BY <1>1
  <2>2. c = "thread" \/ \E i \in 1 .. j - 1 : active[i] = c
    BY <1>1
  <2>3. QED
    BY <2>1, <2>2 DEF PriorityInv, Shielded
<1>5. LockedEntered' /\ served' \subseteq Active'
  BY <1>1, <1>2 DEF PriorityInv, TypeOK, LockedEntered
<1>6. QED
  BY <1>1, <1>2, <1>3, <1>4, <1>5
  DEF PriorityInv, TypeOK, Masked, KernelExclusive, Stopped

\* The context that runs is the thread or the innermost exception.
LEMMA CurrentPlace ==
  ASSUME PriorityInv
  PROVE  \/ /\ Current = "thread" /\ Active = {} /\ Len(active) = 0
         \/ /\ Len(active) \in Nat \ {0} /\ Current = active[Len(active)]
            /\ Current \in Active /\ Current \in Exception
<1>1. active \in Seq(Exception)
  BY DEF PriorityInv, TypeOK
<1>2. CASE active = <<>>
  BY <1>2 DEF Current, Active
<1>3. CASE active # <<>>
  <2>1. Len(active) \in Nat \ {0}
    BY <1>1, <1>3, EmptySeq
  <2>2. Len(active) \in 1 .. Len(active)
    BY <2>1
  <2>3. Current = active[Len(active)]
    BY <1>3 DEF Current
  <2>4. QED
    BY <1>1, <2>1, <2>2, <2>3 DEF Active
<1>4. QED
  BY <1>2, <1>3

\* Whoever may open a critical section finds none open: what preempts one is
\* above the limit and may not call the kernel.
LEMMA LockAlone ==
  ASSUME PriorityInv, CallsKernel, PriorityValid
  PROVE  locked = {}
<1> SUFFICES ASSUME NEW c \in locked PROVE FALSE
  OBVIOUS
<1>1. c # Current
  BY DEF CallsKernel
<1>2. c \in Active \cup {"thread"}
  BY DEF PriorityInv, LockedEntered
<1>3. CASE Current = "thread" /\ Active = {}
  BY <1>1, <1>2, <1>3
<1>4. CASE Len(active) \in Nat \ {0} /\ Current = active[Len(active)] /\ Current \in Exception
  <2>1. c = "thread" \/ \E i \in 1 .. Len(active) - 1 : active[i] = c
    <3>1. CASE c \in Active
      <4>1. PICK i \in 1 .. Len(active) : active[i] = c
        BY <3>1 DEF Active
      <4>2. i # Len(active)
        BY <4>1, <1>1, <1>4
      <4>3. i \in 1 .. Len(active) - 1
        BY <4>1, <4>2, <1>4
      <4>4. QED
        BY <4>1, <4>3
    <3>2. QED
      BY <3>1, <1>2
  <2>2. Priority(Current) < 80
    BY <2>1, <1>4 DEF PriorityInv, Shielded
  <2>3. Priority(Current) >= 80
    <3>1. CASE Current \in Kernel
      BY <3>1, PriorityValue
    <3>2. CASE Current \in Irq
      BY <3>2, LimitValue DEF PriorityValid
    <3>3. QED
      BY <3>1, <3>2, <1>4 DEF Exception
  <2>4. PICK p \in 0 .. 15 : Priority(Current) = 16 * p
    BY <1>4, PriorityStep
  <2>5. QED
    BY <2>2, <2>3, <2>4
<1>5. QED
  BY <1>3, <1>4, CurrentPlace

LEMMA LockInv ==
  ASSUME PriorityInv, Lock
  PROVE  PriorityInv'
<1>1. locked = {} /\ locked' = {Current} /\ basepri' = 80
  BY LockAlone, LimitValue DEF Lock
<1>2. UNCHANGED <<pending, active, primask, served, halted, raised>>
  BY DEF Lock
<1>3. Current \in Active \cup {"thread"} /\ Current \in Exception \cup {"thread"}
  BY CurrentPlace
<1>4. Shielded'
  <2> SUFFICES ASSUME NEW j \in 1 .. Len(active),
                      Current = "thread" \/ \E i \in 1 .. j - 1 : active[i] = Current
               PROVE  FALSE
    BY <1>1, <1>2 DEF Shielded
  <2>1. CASE Len(active) = 0
    BY <2>1
  <2>2. CASE /\ Len(active) \in Nat \ {0} /\ Current = active[Len(active)]
             /\ Current \in Exception
    <3>1. PICK i \in 1 .. j - 1 : active[i] = Current
      BY <2>2, ThreadApart
    <3>2. i \in 1 .. Len(active) /\ Len(active) \in 1 .. Len(active) /\ i < Len(active)
      BY <2>2, <3>1
    <3>3. Priority(Current) < Priority(Current)
      BY <2>2, <3>1, <3>2 DEF PriorityInv, Descending
    <3>4. PICK p \in 0 .. 15 : Priority(Current) = 16 * p
      BY <2>2, PriorityStep
    <3>5. QED
      BY <3>3, <3>4
  <2>3. QED
    BY <2>1, <2>2, CurrentPlace
<1>5. TypeOK'
  BY <1>1, <1>2, <1>3 DEF PriorityInv, TypeOK, Active
<1>6. QED
  BY <1>1, <1>2, <1>3, <1>4, <1>5
  DEF PriorityInv, Descending, Depth, LockedEntered, Masked, KernelExclusive, Stopped,
      Active

\* A failed assertion touches PRIMASK only.
LEMMA AssertFailsInv ==
  ASSUME PriorityInv, AssertFails
  PROVE  PriorityInv'
<1>1. UNCHANGED <<pending, active, basepri, locked, served, raised>>
      /\ primask' = TRUE /\ halted' = TRUE
  BY DEF AssertFails
<1>2. TypeOK'
  BY <1>1 DEF PriorityInv, TypeOK, Active
<1>3. QED
  BY <1>1, <1>2
  DEF PriorityInv, Active, Descending, Depth, LockedEntered, Masked, Shielded,
      KernelExclusive, Stopped

\* The only critical section ends, and with it the mask.
LEMMA UnlockInv ==
  ASSUME PriorityInv, Unlock
  PROVE  PriorityInv'
<1>1. locked' = {} /\ basepri' = 0
  BY DEF Unlock, PriorityInv, KernelExclusive
<1>2. UNCHANGED <<active, primask, halted, raised>>
  BY DEF Unlock
<1>3. pending' \subseteq Exception
  BY DEF Unlock, PriorityInv, TypeOK, Exception, Kernel
<1>4. served' \subseteq Active
  BY CurrentPlace DEF Unlock, PriorityInv, TypeOK
<1>5. TypeOK'
  BY <1>1, <1>2, <1>3, <1>4 DEF PriorityInv, TypeOK, Active
<1>6. QED
  BY <1>1, <1>2, <1>5
  DEF PriorityInv, Active, Descending, Depth, LockedEntered, Masked, Shielded,
      KernelExclusive, Stopped

LEMMA PriorityInvStep == PriorityInv /\ [Next]_vars => PriorityInv'
<1> SUFFICES ASSUME PriorityInv, [Next]_vars PROVE PriorityInv'
  OBVIOUS
<1>1. CASE RaiseSysTick \/ \E i \in Irq : RaiseIrq(i)
  BY <1>1, RaiseInv
<1>2. CASE EnterSome
  BY <1>2, EnterInv DEF EnterSome
<1>3. CASE Return
  BY <1>3, ReturnInv
<1>4. CASE Lock
  BY <1>4, LockInv
<1>5. CASE AssertFails
  BY <1>5, AssertFailsInv
<1>6. CASE Unlock
  BY <1>6, UnlockInv
<1>7. CASE UNCHANGED vars
  BY <1>7
  DEF vars, PriorityInv, TypeOK, Active, Descending, Depth, LockedEntered, Masked,
      Shielded, KernelExclusive, Stopped
<1>8. QED
  BY <1>1, <1>2, <1>3, <1>4, <1>5, <1>6, <1>7 DEF Next

\* The inductive invariant holds in every reachable state.
THEOREM PriorityInvariant == Spec => []PriorityInv
  BY InitPriorityInv, PriorityInvStep, PTL DEF Spec

-----------------------------------------------------------------------------

\* Every variable holds a value of its kind, and exceptions nest at most sixteen
\* deep, however many interrupts there are.
THEOREM TypeCorrect == Spec => []TypeOK
<1>1. PriorityInv => TypeOK
  BY DEF PriorityInv
<1>2. QED
  BY <1>1, PriorityInvariant, PTL

\* One user of the kernel's data at a time, for any levels and any handlers, the
\* ones that call the kernel and may not included.
THEOREM KernelExclusiveHolds == Spec => []KernelExclusive
<1>1. PriorityInv => KernelExclusive
  BY DEF PriorityInv
<1>2. QED
  BY <1>1, PriorityInvariant, PTL

\* BASEPRI is set in a critical section and at no other time.
THEOREM MaskedOnlyWhenLockedHolds == Spec => []MaskedOnlyWhenLocked
<1>1. PriorityInv => MaskedOnlyWhenLocked
  BY DEF PriorityInv, Masked, MaskedOnlyWhenLocked
<1>2. QED
  BY <1>1, PriorityInvariant, PTL

\* No critical section holds back an interrupt of level 0 to 4.
THEOREM UrgentNeverMaskedHolds == Spec => []UrgentNeverMasked
<1>1. PriorityInv => UrgentNeverMasked
  <2> SUFFICES ASSUME PriorityInv, NEW i \in Irq,
                      i \in pending, Level[i] < 5, ~halted,
                      \A a \in Active : Priority(i) < Priority(a),
                      \A o \in pending : Priority(i) <= Priority(o)
               PROVE  Takes(i)
    BY DEF UrgentNeverMasked
  <2>1. Priority(i) < 80
    BY PriorityValue
  <2>2. basepri # 0 => Priority(i) < basepri
    BY <2>1 DEF PriorityInv, Masked
  <2>3. ~primask
    BY DEF PriorityInv, Stopped
  <2>4. QED
    BY <2>2, <2>3 DEF Takes
<1>2. QED
  BY <1>1, PriorityInvariant, PTL

\* After a failed assertion nothing is entered, left, locked or unlocked.
THEOREM StopsDeadHolds == Spec => StopsDead
<1>1. PriorityInv /\ [Next]_vars =>
        [halted => UNCHANGED <<active, basepri, primask, locked, served, halted>>]_vars
  <2> SUFFICES ASSUME PriorityInv, Next, halted
               PROVE  UNCHANGED <<active, basepri, primask, locked, served, halted>>
    OBVIOUS
  <2>1. primask
    BY DEF PriorityInv, Stopped
  <2>2. ~EnterSome
    BY <2>1 DEF EnterSome, Enter, Takes
  <2>3. ~Return /\ ~Lock /\ ~AssertFails /\ ~Unlock
    BY DEF Return, Lock, AssertFails, Unlock, CallsKernel
  <2>4. RaiseSysTick \/ \E i \in Irq : RaiseIrq(i)
    BY <2>2, <2>3 DEF Next
  <2>5. QED
    BY <2>4 DEF RaiseSysTick, RaiseIrq
<1>2. QED
  BY <1>1, PriorityInvariant, PTL DEF Spec, StopsDead

-----------------------------------------------------------------------------
(* Traps.                                                                   *)

\* An exception without a handler is a peripheral's.
LEMMA TrapKind ==
  ASSUME NEW e \in Exception, Handler(e) = "Default_Handler"
  PROVE  e \in Irq
  BY DEF Handler, Exception, Kernel

\* While the processor is trapped the trap stays where it is and no exception of
\* the kernel is entered, and none is left.
LEMMA TrapStep ==
  ASSUME PriorityInv, Next, Trapped
  PROVE  /\ Trapped'
         /\ ~(Current = "thread")'
         /\ \A k \in Kernel : k \in Active' <=> k \in Active
<1>1. PICK e \in Active : Handler(e) = "Default_Handler"
  BY DEF Trapped
<1>2. active \in Seq(Exception)
  BY DEF PriorityInv, TypeOK
<1>3. PICK p \in 1 .. Len(active) : active[p] = e
  BY <1>1 DEF Active
<1>4. e \in Irq /\ e \in Exception /\ Priority(e) <= 240
  <2>1. e \in Exception
    BY <1>2, <1>3
  <2>2. QED
    BY <1>1, <2>1, TrapKind, PriorityValue
<1>5. CASE UNCHANGED active
  <2>1. Active' = Active /\ Current' = Current
    BY <1>5 DEF Active, Current
  <2>2. Current # "thread"
    BY <1>1, CurrentPlace, ThreadApart
  <2>3. QED
    BY <1>1, <2>1, <2>2 DEF Trapped
<1>6. CASE EnterSome
  <2>1. PICK x \in Exception : Enter(x)
    BY <1>6 DEF EnterSome
  <2>2. /\ active' \in Seq(Exception)
        /\ Len(active) \in Nat /\ Len(active') = Len(active) + 1
        /\ active'[Len(active')] = x
        /\ Active' = Active \cup {x}
    BY <1>2, <2>1, Push DEF Enter
  <2>3. Trapped'
    BY <1>1, <2>2 DEF Trapped
  <2>4. ~(Current = "thread")'
    <3>1. active' # <<>>
      BY <2>2, EmptySeq
    <3>2. Current' = x
      BY <2>2, <3>1 DEF Current
    <3>3. QED
      BY <3>2, ThreadApart
  <2>5. x \notin Kernel
    <3>1. Priority(x) < Priority(e)
      BY <1>1, <2>1 DEF Enter, Takes
    <3>2. PICK n \in 0 .. 15 : Priority(e) = 16 * n
      BY <1>4, PriorityStep
    <3>3. QED
      BY <3>1, <3>2, PriorityValue
  <2>6. QED
    BY <2>2, <2>3, <2>4, <2>5
<1>7. CASE Return
  <2>1. /\ active' \in Seq(Exception)
        /\ Len(active) \in Nat \ {0} /\ Len(active') = Len(active) - 1
        /\ \A i \in 1 .. Len(active') : active'[i] = active[i]
        /\ Active = Active' \cup {Current}
    BY <1>2, <1>7, Pop DEF Return
  <2>2. Current # e
    BY <1>1, <1>7 DEF Return
  <2>3. e \in Active'
    BY <1>1, <2>1, <2>2
  <2>4. Current = active[Len(active)]
    BY <1>7 DEF Return, Current
  <2>5. p \in 1 .. Len(active') /\ p < Len(active) /\ Len(active) \in 1 .. Len(active)
    <3>1. p # Len(active)
      BY <1>3, <2>2, <2>4
    <3>2. QED
      BY <1>3, <2>1, <3>1
  <2>6. Current \notin Kernel
    <3>1. Priority(Current) < Priority(e)
      BY <1>3, <2>4, <2>5 DEF PriorityInv, Descending
    <3>2. PICK n \in 0 .. 15 : Priority(e) = 16 * n
      BY <1>4, PriorityStep
    <3>3. QED
      BY <3>1, <3>2, PriorityValue
  <2>7. ~(Current = "thread")'
    <3>1. active' # <<>> /\ Len(active') \in 1 .. Len(active')
      BY <2>1, <2>5, EmptySeq
    <3>2. Current' = active'[Len(active')]
      BY <3>1 DEF Current
    <3>3. Current' \in Exception
      BY <2>1, <3>1, <3>2, ElementOfSeq
    <3>4. QED
      BY <3>3, ThreadApart
  <2>8. QED
    BY <1>1, <2>1, <2>3, <2>6, <2>7 DEF Trapped
<1>8. QED
  BY <1>5, <1>6, <1>7
  DEF Next, RaiseSysTick, RaiseIrq, Lock, AssertFails, Unlock

\* Once an exception without a handler is active, no task and no handler of the
\* kernel runs again.
THEOREM TrapStopsTasksHolds == Spec => TrapStopsTasks
<1>1. PriorityInv /\ [Next]_vars =>
        [Trapped => /\ Trapped'
                    /\ ~(Current = "thread")'
                    /\ \A k \in Kernel : k \in Active' <=> k \in Active]_vars
  BY TrapStep
<1>2. QED
  BY <1>1, PriorityInvariant, PTL DEF Spec, TrapStopsTasks
=============================================================================
