----------------------------- MODULE SystemClock -----------------------------
(***************************************************************************)
(* SystemCoreClock of system_stm32f4xx.c and the function that recomputes  *)
(* it, one action per assignment that another context can see, beside the  *)
(* RCC registers that decide the real processor clock.                     *)
(*                                                                         *)
(* A write of the RCC registers comes from the caller of                   *)
(* SystemCoreClockUpdate, never while that function runs, but the hardware *)
(* follows a requested switch in its own time, in the middle of the        *)
(* function too.  The firmware as built never leaves the reset clock and   *)
(* never calls the function; FreeRTOSConfig.h reads the variable as        *)
(* configCPU_CLOCK_HZ.                                                     *)
(*                                                                         *)
(* read, seen and right are history: the source in use when the running    *)
(* update looked, the one the last finished update saw, and whether the    *)
(* caller has left the prescaler and, when it counts, the PLL alone since. *)
(***************************************************************************)
EXTENDS Integers

CONSTANTS
  HSI_VALUE, HSE_VALUE,  \* frequencies of the two oscillators
  WordMod,               \* values of uint32_t, in the unit of the frequencies
  Plls                   \* the values of PLLCFGR explored

HSI == 0
HSE == 1
PLL == 2

\* log2 of the divider, by the value of HPRE.
AHBPrescTable == <<0, 0, 0, 0, 0, 0, 0, 0, 1, 2, 3, 4, 6, 7, 8, 9>>

\* What the hardware divides by, by the value of HPRE.
HpreDivider ==
  [h \in 0 .. 15 |->
     CASE h < 8   -> 1
       [] h = 8   -> 2
       [] h = 9   -> 4
       [] h = 10  -> 8
       [] h = 11  -> 16
       [] h = 12  -> 64
       [] h = 13  -> 128
       [] h = 14  -> 256
       [] h = 15  -> 512]

\* The oscillator behind the PLL.
PllInput(p) == IF p.src # 0 THEN HSE_VALUE ELSE HSI_VALUE

\* What the hardware divides the PLL's oscillator by, by the value of PLLP.
PllDivider(p) == 2 * (p.p + 1)

\* Oscillators fit the word and the PLL divides by something.  Its VCO need not
\* fit: PLLN holds multipliers the device does not allow.
ASSUME ClockAssumption ==
  /\ WordMod \in Nat
  /\ HSI_VALUE \in 1 .. WordMod - 1 /\ HSE_VALUE \in 1 .. WordMod - 1
  /\ Plls \subseteq [src : {0, 1}, m : 1 .. 63, n : 0 .. 511, p : 0 .. 3]
  /\ Plls # {}

VARIABLES
  sw, sws,          \* RCC_CFGR: the clock asked for, the clock in use
  hpre,             \* RCC_CFGR: the AHB prescaler
  pll,              \* RCC_PLLCFGR
  SystemCoreClock,
  pc,               \* the next assignment of SystemCoreClockUpdate
  pllvco,           \* its local variable
  read, seen,       \* history: sources in use
  right             \* history

rcc  == <<sw, sws, hpre, pll>>
vars == <<sw, sws, hpre, pll, SystemCoreClock, pc, pllvco, read, seen, right>>

\* Reset clocks the core from HSI, undivided, and .data holds the frequency.
Init ==
  /\ sw = HSI /\ sws = HSI /\ hpre = 0
  /\ pll \in Plls
  /\ SystemCoreClock = HSI_VALUE
  /\ pc = "idle"
  /\ pllvco = 0
  /\ read = HSI /\ seen = HSI /\ right = TRUE

-----------------------------------------------------------------------------
(* The clock tree                                                           *)

RequestSwitch ==
  /\ pc = "idle" /\ sw = sws
  /\ sw' \in {HSI, HSE, PLL} \ {sw}
  /\ UNCHANGED <<sws, hpre, pll, SystemCoreClock, pc, pllvco, read, seen, right>>

\* The new source is ready: the core clock changes now.
HardwareSwitch ==
  /\ sws # sw
  /\ sws' = sw
  /\ UNCHANGED <<sw, hpre, pll, SystemCoreClock, pc, pllvco, read, seen, right>>

WritePrescaler ==
  /\ pc = "idle"
  /\ hpre' \in 0 .. 15
  /\ right' = FALSE
  /\ UNCHANGED <<sw, sws, pll, SystemCoreClock, pc, pllvco, read, seen>>

\* PLLCFGR may only be written while the PLL is off.
WritePll ==
  /\ pc = "idle" /\ PLL \notin {sw, sws}
  /\ pll' \in Plls
  /\ right' = (right /\ seen # PLL)
  /\ UNCHANGED <<sw, sws, hpre, SystemCoreClock, pc, pllvco, read, seen>>

-----------------------------------------------------------------------------
(* SystemCoreClockUpdate                                                    *)

CallUpdate ==
  /\ pc = "idle"
  /\ pc' = "source"
  /\ UNCHANGED <<rcc, SystemCoreClock, pllvco, read, seen, right>>

\* Mutant: the variable is cleared before the PLL's frequency is known.
ReadSourceClears ==
  /\ pc = "source"
  /\ \/ /\ sws = PLL
        /\ pc' = "pllvco"
        /\ SystemCoreClock' = 0
     \/ /\ sws # PLL
        /\ pc' = "prescale"
        /\ SystemCoreClock' = IF sws = HSE THEN HSE_VALUE ELSE HSI_VALUE
  /\ read' = sws
  /\ UNCHANGED <<rcc, pllvco, seen, right>>

\* Mutant: the clock that was asked for is taken for the one in use.
ReadSourceRequested ==
  /\ pc = "source"
  /\ \/ /\ sw = PLL
        /\ pc' = "pllvco"
        /\ UNCHANGED SystemCoreClock
     \/ /\ sw # PLL
        /\ pc' = "prescale"
        /\ SystemCoreClock' = IF sw = HSE THEN HSE_VALUE ELSE HSI_VALUE
  /\ read' = sws
  /\ UNCHANGED <<rcc, pllvco, seen, right>>

\* switch (RCC->CFGR & RCC_CFGR_SWS); the default is HSI.
ReadSource ==
  /\ pc = "source"
  /\ \/ /\ sws = PLL
        /\ pc' = "pllvco"
        /\ UNCHANGED SystemCoreClock
     \/ /\ sws # PLL
        /\ pc' = "prescale"
        /\ SystemCoreClock' = IF sws = HSE THEN HSE_VALUE ELSE HSI_VALUE
  /\ read' = sws
  /\ UNCHANGED <<rcc, pllvco, seen, right>>

\* Mutant: the product is taken before the division, and does not fit.
ComputeVcoMultipliesFirst ==
  /\ pc = "pllvco"
  /\ pllvco' = ((PllInput(pll) * pll.n) % WordMod) \div pll.m
  /\ pc' = "pllp"
  /\ UNCHANGED <<rcc, SystemCoreClock, read, seen, right>>

\* pllvco = (source / pllm) * plln, in 32 bits
ComputeVco ==
  /\ pc = "pllvco"
  /\ pllvco' = ((PllInput(pll) \div pll.m) * pll.n) % WordMod
  /\ pc' = "pllp"
  /\ UNCHANGED <<rcc, SystemCoreClock, read, seen, right>>

\* SystemCoreClock = pllvco / pllp
DividePll ==
  /\ pc = "pllp"
  /\ SystemCoreClock' = pllvco \div ((pll.p + 1) * 2)
  /\ pc' = "prescale"
  /\ UNCHANGED <<rcc, pllvco, read, seen, right>>

\* Mutant: HPRE is read without its gap at 32.
PrescaleNoGap ==
  /\ pc = "prescale"
  /\ SystemCoreClock' =
       SystemCoreClock \div 2 ^ (IF hpre < 8 THEN 0 ELSE hpre - 7)
  /\ pc' = "idle"
  /\ seen' = read /\ right' = TRUE
  /\ UNCHANGED <<rcc, pllvco, read>>

\* SystemCoreClock >>= AHBPrescTable[HPRE]
Prescale ==
  /\ pc = "prescale"
  /\ SystemCoreClock' = SystemCoreClock \div 2 ^ AHBPrescTable[hpre + 1]
  /\ pc' = "idle"
  /\ seen' = read /\ right' = TRUE
  /\ UNCHANGED <<rcc, pllvco, read>>

Update == CallUpdate \/ ReadSource \/ ComputeVco \/ DividePll \/ Prescale
ClockTree == RequestSwitch \/ HardwareSwitch \/ WritePrescaler \/ WritePll

Next == Update \/ ClockTree

Spec == Init /\ [][Next]_vars

-----------------------------------------------------------------------------

\* Every variable holds a value of its type.
TypeOK ==
  /\ sw \in {HSI, HSE, PLL} /\ sws \in {HSI, HSE, PLL}
  /\ hpre \in 0 .. 15 /\ pll \in Plls
  /\ SystemCoreClock \in 0 .. WordMod - 1 /\ pllvco \in 0 .. WordMod - 1
  /\ pc \in {"idle", "source", "pllvco", "pllp", "prescale"}
  /\ read \in {HSI, HSE, PLL} /\ seen \in {HSI, HSE, PLL} /\ right \in BOOLEAN

\* The processor clock that source s makes is HclkNum(s) / HclkDen(s).
HclkNum(s) ==
  CASE s = HSI -> HSI_VALUE
    [] s = HSE -> HSE_VALUE
    [] s = PLL -> PllInput(pll) * pll.n
HclkDen(s) ==
  HpreDivider[hpre] * (IF s = PLL THEN pll.m * PllDivider(pll) ELSE 1)

\* What the integer divisions may lose, times HclkDen: less than one unit in
\* the last one, and with the PLL less than one of the VCO's input, which is
\* then multiplied, and less than one of the PLL's output.
Loss(s) ==
  HclkDen(s) + (IF s = PLL THEN pll.m * (pll.n + PllDivider(pll)) ELSE 0)

\* The whole frequencies from the real one down to what the divisions may lose.
Lowest(s)  == (HclkNum(s) - Loss(s)) \div HclkDen(s) + 1
Highest(s) == HclkNum(s) \div HclkDen(s)

\* The frequency of the VCO, before any truncation, is less than WordMod.
VcoFits == PllInput(pll) * pll.n < WordMod * pll.m

\* SystemCoreClock is the clock of one source that was in use when the last update
\* looked, or since reset, from below and up to the truncation of the divisions,
\* until the caller writes the registers again.  It is never a mixture of two
\* clocks, whenever the hardware switched: before, during or after the update.
\* No product of the computation leaves the word for a VCO that fits it.
MatchesClock ==
  right /\ pc # "prescale" /\ (seen = PLL => VcoFits) =>
    SystemCoreClock \in Lowest(seen) .. Highest(seen)

\* The source the value of SystemCoreClock comes from.
Current == IF pc = "prescale" THEN read ELSE seen

\* An update writes the variable before the prescaler is applied.  Whoever reads it
\* at that moment sees a clock that is too high, never too low, so that a tick
\* period derived from it is never too short.
NeverTooLow ==
  (right \/ pc = "prescale") /\ (Current = PLL => VcoFits) =>
    SystemCoreClock >= Lowest(Current)
=============================================================================
