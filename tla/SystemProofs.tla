--------------------------------- MODULE SystemProofs ---------------------------------
(***************************************************************************)
(* The two files beside main.c.  SystemCoreClock for all oscillators, PLL  *)
(* settings and widths of the word: what it gives is the clock of a source *)
(* that was in use, up to the loss of its three divisions, and its product *)
(* does not wrap when the VCO's own frequency fits (ProductFits).          *)
(* The system calls for every set of tasks, of descriptors and of lengths: *)
(* PrintfSucceeds needs to know which stages a stream of stdio goes        *)
(* through (Streams), and LatestError that errno belongs to the latest     *)
(* failure in every stage (ErrnoOfLast), of which there has been one       *)
(* whenever a task looks (Failed).                                         *)
(***************************************************************************)
EXTENDS SystemClock, Syscalls, TLAPS

-----------------------------------------------------------------------------
(* Division                                                                 *)

LEMMA Quotient ==
  ASSUME NEW x \in Nat, NEW d \in Nat \ {0}
  PROVE  /\ x \div d \in 0 .. x
         /\ (x \div d) * d <= x
         /\ x < (x \div d + 1) * d
  OBVIOUS

LEMMA Monotone ==
  ASSUME NEW a \in Int, NEW b \in Int, NEW d \in Nat, a <= b
  PROVE  a * d <= b * d
  OBVIOUS

LEMMA QuotientAtLeast ==
  ASSUME NEW x \in Nat, NEW d \in Nat \ {0}, NEW c \in Nat, c * d <= x
  PROVE  c <= x \div d
  <1>1. SUFFICES ASSUME x \div d + 1 <= c PROVE FALSE
    BY Quotient
  <1>2. (x \div d + 1) * d <= c * d
    BY <1>1, Quotient, Monotone
  <1> QED  BY <1>2, Quotient

LEMMA QuotientBelow ==
  ASSUME NEW x \in Int, NEW d \in Nat \ {0}, NEW c \in Int, x < c * d
  PROVE  x \div d + 1 <= c
  <1>1. x \div d \in Int /\ (x \div d) * d <= x
    OBVIOUS
  <1>2. SUFFICES ASSUME c <= x \div d PROVE FALSE
    BY <1>1
  <1>3. c * d <= (x \div d) * d
    BY <1>1, <1>2, Monotone
  <1> QED  BY <1>1, <1>3

\* The divider the hardware has for each value of HPRE is the one the table of the
\* code shifts by.
LEMMA ShiftIsDivider ==
  ASSUME NEW h \in 0 .. 15
  PROVE  /\ 2 ^ AHBPrescTable[h + 1] = HpreDivider[h]
         /\ HpreDivider[h] \in Nat \ {0}
  <1>1. CASE h < 8
    <2>1. AHBPrescTable[h + 1] = 0
      BY <1>1 DEF AHBPrescTable
    <2>2. HpreDivider[h] = 1
      BY <1>1 DEF HpreDivider
    <2>3. 2 ^ 0 = 1
      OBVIOUS
    <2> QED  BY <2>1, <2>2, <2>3
  <1>2. CASE h = 8
    <2>1. AHBPrescTable[h + 1] = 1
      BY <1>2 DEF AHBPrescTable
    <2>2. HpreDivider[h] = 2
      BY <1>2 DEF HpreDivider
    <2>3. 2 ^ 1 = 2
      OBVIOUS
    <2> QED  BY <2>1, <2>2, <2>3
  <1>3. CASE h = 9
    <2>1. AHBPrescTable[h + 1] = 2
      BY <1>3 DEF AHBPrescTable
    <2>2. HpreDivider[h] = 4
      BY <1>3 DEF HpreDivider
    <2>3. 2 ^ 2 = 4
      OBVIOUS
    <2> QED  BY <2>1, <2>2, <2>3
  <1>4. CASE h = 10
    <2>1. AHBPrescTable[h + 1] = 3
      BY <1>4 DEF AHBPrescTable
    <2>2. HpreDivider[h] = 8
      BY <1>4 DEF HpreDivider
    <2>3. 2 ^ 3 = 8
      OBVIOUS
    <2> QED  BY <2>1, <2>2, <2>3
  <1>5. CASE h = 11
    <2>1. AHBPrescTable[h + 1] = 4
      BY <1>5 DEF AHBPrescTable
    <2>2. HpreDivider[h] = 16
      BY <1>5 DEF HpreDivider
    <2>3. 2 ^ 4 = 16
      OBVIOUS
    <2> QED  BY <2>1, <2>2, <2>3
  <1>6. CASE h = 12
    <2>1. AHBPrescTable[h + 1] = 6
      BY <1>6 DEF AHBPrescTable
    <2>2. HpreDivider[h] = 64
      BY <1>6 DEF HpreDivider
    <2>3. 2 ^ 6 = 64
      OBVIOUS
    <2> QED  BY <2>1, <2>2, <2>3
  <1>7. CASE h = 13
    <2>1. AHBPrescTable[h + 1] = 7
      BY <1>7 DEF AHBPrescTable
    <2>2. HpreDivider[h] = 128
      BY <1>7 DEF HpreDivider
    <2>3. 2 ^ 7 = 128
      OBVIOUS
    <2> QED  BY <2>1, <2>2, <2>3
  <1>8. CASE h = 14
    <2>1. AHBPrescTable[h + 1] = 8
      BY <1>8 DEF AHBPrescTable
    <2>2. HpreDivider[h] = 256
      BY <1>8 DEF HpreDivider
    <2>3. 2 ^ 8 = 256
      OBVIOUS
    <2> QED  BY <2>1, <2>2, <2>3
  <1>9. CASE h = 15
    <2>1. AHBPrescTable[h + 1] = 9
      BY <1>9 DEF AHBPrescTable
    <2>2. HpreDivider[h] = 512
      BY <1>9 DEF HpreDivider
    <2>3. 2 ^ 9 = 512
      OBVIOUS
    <2> QED  BY <2>1, <2>2, <2>3
  <1> QED  BY <1>1, <1>2, <1>3, <1>4, <1>5, <1>6, <1>7, <1>8, <1>9

\* The chain of divisions against the division of the whole, from both sides.
LEMMA ChainAtMost ==
  ASSUME NEW in \in Nat, NEW m \in Nat \ {0}, NEW n \in Nat,
         NEW d \in Nat \ {0}, NEW h \in Nat \ {0}
  PROVE  ((((in \div m) * n) \div d) \div h) <= (in * n) \div (h * (m * d))
  <1> DEFINE a == in \div m
             b == (a * n) \div d
             c == b \div h
  <1>1. a \in Nat /\ a * m <= in
    BY Quotient
  <1>2. a * n \in Nat
    BY <1>1
  <1>3. b \in Nat /\ b * d <= a * n
    BY <1>2, Quotient
  <1>4. c \in Nat /\ c * h <= b
    BY <1>3, Quotient
  <1> HIDE DEF a, b, c
  <1>5. (c * h) * d <= b * d
    BY <1>3, <1>4, Monotone
  <1>6. (c * h) * d <= a * n
    <2> DEFINE x == (c * h) * d
               y == b * d
    <2>1. x \in Int /\ y \in Int /\ x <= y /\ y <= a * n
      BY <1>3, <1>4, <1>5
    <2> HIDE DEF x, y
    <2>2. x <= a * n
      BY <1>2, <2>1
    <2> QED  BY <2>2 DEF x
  <1>7. ((c * h) * d) * m <= (a * n) * m
    BY <1>1, <1>2, <1>3, <1>4, <1>6, Monotone
  <1>8. (a * n) * m = (a * m) * n /\ (a * m) * n <= in * n
    BY <1>1, Monotone
  <1>9. c * (h * (m * d)) = ((c * h) * d) * m
    BY <1>4
  <1>10. c * (h * (m * d)) <= in * n /\ in * n \in Nat /\ h * (m * d) \in Nat \ {0}
    BY <1>1, <1>4, <1>7, <1>8, <1>9
  <1>11. c <= (in * n) \div (h * (m * d))
    BY <1>4, <1>10, QuotientAtLeast
  <1> QED  BY <1>11 DEF a, b, c

LEMMA ChainAtLeast ==
  ASSUME NEW in \in Nat, NEW m \in Nat \ {0}, NEW n \in Nat,
         NEW d \in Nat \ {0}, NEW h \in Nat \ {0}
  PROVE  (in * n - (h * (m * d) + m * (n + d))) \div (h * (m * d)) + 1
           <= ((((in \div m) * n) \div d) \div h)
  <1> DEFINE a == in \div m
             b == (a * n) \div d
             c == b \div h
             den == h * (m * d)
  <1>1. a \in Nat /\ in <= (a + 1) * m
    BY Quotient
  <1>2. a * n \in Nat
    BY <1>1
  <1>3. b \in Nat /\ a * n <= (b + 1) * d
    BY <1>2, Quotient
  <1>4. c \in Nat /\ b + 1 <= (c + 1) * h
    BY <1>3, Quotient
  <1> HIDE DEF a, b, c
  <1>5. den \in Nat \ {0} /\ m * d \in Nat \ {0} /\ m * n \in Nat /\ in * n \in Nat
    OBVIOUS
  <1>6. in * n <= (a * n) * m + m * n
    <2>1. (a + 1) * m \in Int
      BY <1>1
    <2>2. in * n <= ((a + 1) * m) * n
      BY <1>1, <2>1, Monotone
    <2>3. ((a + 1) * m) * n = (a * n) * m + m * n
      BY <1>1
    <2> QED  BY <2>2, <2>3
  <1>7. (a * n) * m <= ((b + 1) * d) * m
    <2>1. (b + 1) * d \in Int
      BY <1>3
    <2> QED  BY <1>2, <1>3, <2>1, Monotone
  <1>8. ((b + 1) * d) * m <= (((c + 1) * h) * d) * m
    <2>1. (b + 1) * d <= ((c + 1) * h) * d
      <3>1. (c + 1) * h \in Int
        BY <1>4
      <3> QED  BY <1>3, <1>4, <3>1, Monotone
    <2>2. (b + 1) * d \in Int /\ ((c + 1) * h) * d \in Int
      BY <1>3, <1>4
    <2> QED  BY <2>1, <2>2, Monotone
  <1>9. (((c + 1) * h) * d) * m = c * den + den
    BY <1>4
  <1>10. c * den \in Int /\ (a * n) * m \in Int /\ ((b + 1) * d) * m \in Int
    BY <1>2, <1>3, <1>4, <1>5
  <1>11. m * (n + d) = m * n + m * d
    OBVIOUS
  <1> HIDE DEF den
  <1>12. in * n <= c * den + den + m * n
    <2> DEFINE x == (a * n) * m
               y == ((b + 1) * d) * m
               z == (((c + 1) * h) * d) * m
               w == c * den
    <2>1. x \in Int /\ y \in Int /\ w \in Int
      BY <1>10
    <2>2. in * n <= x + m * n /\ x <= y /\ y <= z /\ z = w + den
      BY <1>6, <1>7, <1>8, <1>9
    <2> HIDE DEF x, y, z, w
    <2>3. in * n <= w + den + m * n
      BY <1>5, <2>1, <2>2
    <2> QED  BY <2>3 DEF w
  <1>13. in * n - (den + m * (n + d)) < c * den
    <2> DEFINE u == in * n
               v == m * n
               t == m * d
               w == c * den
    <2>1. u \in Int /\ v \in Int /\ t \in Nat \ {0} /\ w \in Int /\ den \in Int
      BY <1>5, <1>10
    <2>2. u <= w + den + v /\ m * (n + d) = v + t
      BY <1>11, <1>12
    <2> HIDE DEF u, v, t, w
    <2>3. u - (den + m * (n + d)) < w
      BY <2>1, <2>2
    <2> QED  BY <2>3 DEF u, w
  <1>14. in * n - (den + m * (n + d)) \in Int
    BY <1>5, <1>11
  <1>15. (in * n - (den + m * (n + d))) \div den + 1 <= c
    BY <1>4, <1>5, <1>13, <1>14, QuotientBelow
  <1> QED  BY <1>15 DEF a, b, c, den

-----------------------------------------------------------------------------
(* The invariant: what SystemCoreClockUpdate has computed so far is right   *)
(* for the registers it has read, as long as a VCO fits the word.           *)

Vco == (PllInput(pll) \div pll.m) * pll.n

\* The clock that source s makes before the AHB prescaler, as the function computes it.
Source(s) ==
  IF s = PLL THEN Vco \div PllDivider(pll)
  ELSE IF s = HSE THEN HSE_VALUE ELSE HSI_VALUE

\* Source s is not the PLL, or its VCO fits.
Fits(s) == s = PLL => VcoFits

Progress ==
  /\ pc \in {"pllvco", "pllp"} => read = PLL
  /\ pc = "pllp" /\ VcoFits => pllvco = Vco
  /\ pc = "prescale" /\ Fits(read) => SystemCoreClock = Source(read)
  /\ pc # "prescale" /\ right /\ Fits(seen) =>
       SystemCoreClock = Source(seen) \div HpreDivider[hpre]

IInv == TypeOK /\ Progress

LEMMA PllTypes ==
  ASSUME NEW p \in Plls
  PROVE  /\ p.m \in Nat \ {0} /\ p.n \in Nat
         /\ PllInput(p) \in Nat /\ PllDivider(p) \in Nat \ {0}
         /\ PllDivider(p) = (p.p + 1) * 2
         /\ PllInput(p) \div p.m \in Nat
         /\ (PllInput(p) \div p.m) * p.n \in Nat
         /\ WordMod \in Nat \ {0}
  <1>1. /\ p.m \in 1 .. 63 /\ p.n \in 0 .. 511 /\ p.p \in 0 .. 3
        /\ WordMod \in Nat \ {0}
    BY ClockAssumption
  <1>2. PllInput(p) \in Nat
    BY ClockAssumption DEF PllInput
  <1>3. PllDivider(p) \in Nat \ {0} /\ PllDivider(p) = (p.p + 1) * 2
    BY <1>1 DEF PllDivider
  <1>4. PllInput(p) \div p.m \in Nat
    BY <1>1, <1>2, Quotient
  <1>5. (PllInput(p) \div p.m) * p.n \in Nat
    BY <1>1, <1>4
  <1>6. p.m \in Nat \ {0} /\ p.n \in Nat
    BY <1>1
  <1> HIDE DEF PllInput, PllDivider
  <1> QED  BY <1>1, <1>2, <1>3, <1>4, <1>5, <1>6, Zenon

\* The truncated product fits the word when the VCO does.
LEMMA ProductFits ==
  ASSUME NEW in \in Nat, NEW m \in Nat \ {0}, NEW n \in Nat, NEW w \in Nat,
         in * n < w * m
  PROVE  (in \div m) * n < w
  <1> DEFINE a == in \div m
  <1>1. a \in Nat /\ a * m <= in
    BY Quotient
  <1> HIDE DEF a
  <1>2. (a * m) * n <= in * n
    BY <1>1, Monotone
  <1>3. (a * m) * n = (a * n) * m /\ a * n \in Nat
    BY <1>1
  <1>4. SUFFICES ASSUME w <= a * n PROVE FALSE
    BY <1>3 DEF a
  <1>5. w * m <= (a * n) * m
    BY <1>3, <1>4, Monotone
  <1> DEFINE x == w * m
             y == (a * n) * m
             z == in * n
  <1>6. x \in Int /\ y \in Int /\ z \in Int
    BY <1>3
  <1>7. x <= y /\ y <= z /\ z < x
    BY <1>2, <1>3, <1>5
  <1> HIDE DEF x, y, z
  <1> QED  BY <1>6, <1>7

LEMMA VcoType ==
  ASSUME TypeOK
  PROVE  /\ Vco \in Nat
         /\ VcoFits => Vco < WordMod
         /\ WordMod \in Nat \ {0}
         /\ PllDivider(pll) \in Nat \ {0}
         /\ Vco \div PllDivider(pll) \in 0 .. Vco
  <1>1. /\ pll.m \in Nat \ {0} /\ pll.n \in Nat /\ PllInput(pll) \in Nat
        /\ PllDivider(pll) \in Nat \ {0} /\ Vco \in Nat /\ WordMod \in Nat \ {0}
    BY PllTypes DEF TypeOK, Vco
  <1>2. ASSUME VcoFits PROVE Vco < WordMod
    BY <1>1, <1>2, ProductFits DEF VcoFits, Vco
  <1>3. Vco \div PllDivider(pll) \in 0 .. Vco
    BY <1>1, Quotient
  <1> QED  BY <1>1, <1>2, <1>3

LEMMA SourceType ==
  ASSUME TypeOK, NEW s \in {HSI, HSE, PLL}
  PROVE  /\ Source(s) \in Nat
         /\ s # PLL => Source(s) \in 0 .. WordMod - 1
  <1>1. CASE s = PLL
    BY <1>1, VcoType DEF Source
  <1>2. CASE s # PLL
    <2>1. Source(s) \in {HSI_VALUE, HSE_VALUE}
      BY <1>2 DEF Source
    <2> QED  BY <2>1, ClockAssumption
  <1> QED  BY <1>1, <1>2

LEMMA InitIInv == Init => IInv
  <1> SUFFICES ASSUME Init PROVE IInv
    OBVIOUS
  <1>1. HpreDivider[0] = 1
    BY DEF HpreDivider
  <1>2. TypeOK
    BY ClockAssumption DEF Init, TypeOK, HSI, HSE, PLL
  <1>3. Source(HSI) = HSI_VALUE /\ HSI_VALUE \div 1 = HSI_VALUE
    BY ClockAssumption DEF Source, HSI, HSE, PLL
  <1> QED  BY <1>1, <1>2, <1>3 DEF Init, IInv, Progress

LEMMA IInvStep == IInv /\ [Next]_vars => IInv'
  <1> SUFFICES ASSUME IInv, [Next]_vars PROVE IInv'
    OBVIOUS
  <1>0. TypeOK /\ Progress
    BY DEF IInv
  <1> USE DEF Fits, VcoFits
  <1>1. CASE RequestSwitch
    BY <1>0, <1>1 DEF RequestSwitch, IInv, TypeOK, Progress, Source, Vco
  <1>2. CASE HardwareSwitch
    BY <1>0, <1>2 DEF HardwareSwitch, IInv, TypeOK, Progress, Source, Vco
  <1>3. CASE WritePrescaler
    BY <1>0, <1>3 DEF WritePrescaler, IInv, TypeOK, Progress, Source, Vco
  <1>4. CASE WritePll
    <2>1. /\ pc = "idle" /\ pll' \in Plls /\ (right' => right /\ seen # PLL)
          /\ right' \in BOOLEAN
          /\ UNCHANGED <<sw, sws, hpre, SystemCoreClock, pc, pllvco, read, seen>>
      BY <1>4 DEF WritePll
    <2>2. seen # PLL => (Source(seen))' = Source(seen)
      BY <2>1 DEF Source
    <2> QED
      BY <1>0, <2>1, <2>2 DEF IInv, TypeOK, Progress
  <1>5. CASE CallUpdate
    BY <1>0, <1>5 DEF CallUpdate, rcc, IInv, TypeOK, Progress, Source, Vco
  <1>6. CASE ReadSource
    <2>0. /\ read' = sws /\ pc = "source"
          /\ UNCHANGED <<rcc, pllvco, seen, right>>
      BY <1>6 DEF ReadSource
    <2>1. CASE sws = PLL
      BY <1>0, <1>6, <2>1 DEF ReadSource, rcc, IInv, TypeOK, Progress, Source, Vco
    <2>2. CASE sws # PLL
      <3>1. SystemCoreClock' = Source(sws) /\ pc' = "prescale"
        BY <1>6, <2>2 DEF ReadSource, Source
      <3>2. Source(sws) \in 0 .. WordMod - 1
        BY <1>0, <2>2, SourceType DEF TypeOK
      <3>3. (Source(read))' = Source(sws)
        BY <2>0, <2>2 DEF Source, rcc
      <3>4. TypeOK'
        BY <1>0, <2>0, <3>1, <3>2 DEF TypeOK, rcc
      <3>5. Progress'
        BY <3>1, <3>3 DEF Progress
      <3> QED  BY <3>4, <3>5 DEF IInv
    <2> QED  BY <2>1, <2>2
  <1>7. CASE ComputeVco
    <2>1. /\ Vco \in Nat /\ WordMod \in Nat \ {0} /\ (VcoFits => Vco < WordMod)
      BY <1>0, VcoType
    <2>2. pllvco' = Vco % WordMod
      BY <1>7 DEF ComputeVco, Vco
    <2>3. pllvco' \in 0 .. WordMod - 1 /\ (VcoFits => pllvco' = Vco)
      BY <2>1, <2>2
    <2>4. Vco' = Vco /\ VcoFits' = VcoFits
      BY <1>7 DEF ComputeVco, Vco, rcc
    <2>5. (Source(seen))' = Source(seen)
      BY <1>7 DEF ComputeVco, Vco, Source, rcc
    <2> HIDE DEF VcoFits
    <2> QED
      BY <1>0, <1>7, <2>3, <2>4, <2>5 DEF ComputeVco, rcc, IInv, TypeOK, Progress
  <1>8. CASE DividePll
    <2>0. pc = "pllp" /\ pll \in Plls /\ read = PLL /\ pllvco \in 0 .. WordMod - 1
      BY <1>0, <1>8 DEF DividePll, Progress, TypeOK
    <2>1. /\ (pll.p + 1) * 2 = PllDivider(pll) /\ PllDivider(pll) \in Nat \ {0}
          /\ WordMod \in Nat
      BY <2>0, PllTypes
    <2>2. SystemCoreClock' = pllvco \div PllDivider(pll)
      BY <1>8, <2>1 DEF DividePll
    <2>3. SystemCoreClock' \in 0 .. pllvco
      BY <2>0, <2>1, <2>2, Quotient
    <2>4. SystemCoreClock' \in 0 .. WordMod - 1
      BY <2>0, <2>1, <2>3
    <2>5. VcoFits => SystemCoreClock' = Source(PLL)
      BY <1>0, <2>0, <2>2 DEF Progress, Source
    <2>6. VcoFits' = VcoFits /\ (Source(read))' = Source(read)
      BY <1>8 DEF DividePll, Source, Vco, rcc
    <2> HIDE DEF VcoFits
    <2>7. TypeOK'
      BY <1>0, <1>8, <2>4 DEF DividePll, TypeOK, rcc
    <2>8. Progress'
      BY <1>8, <2>0, <2>5, <2>6 DEF DividePll, Progress
    <2> QED  BY <2>7, <2>8 DEF IInv
  <1>9. CASE Prescale
    <2>1. /\ HpreDivider[hpre] \in Nat \ {0}
          /\ SystemCoreClock' = SystemCoreClock \div HpreDivider[hpre]
      BY <1>0, <1>9, ShiftIsDivider DEF Prescale, TypeOK
    <2>2. SystemCoreClock \in Nat /\ WordMod \in Nat
      BY <1>0, VcoType DEF TypeOK
    <2>3. SystemCoreClock' \in 0 .. SystemCoreClock
      BY <2>1, <2>2, Quotient
    <2>4. SystemCoreClock' \in 0 .. WordMod - 1
      BY <1>0, <2>2, <2>3 DEF TypeOK
    <2>5. Fits(read) => SystemCoreClock' = Source(read) \div HpreDivider[hpre]
      BY <1>0, <1>9, <2>1 DEF Prescale, Progress
    <2>6. /\ (Source(seen))' = Source(read) /\ (Fits(seen))' = Fits(read)
          /\ hpre' = hpre /\ pc' = "idle"
      BY <1>9 DEF Prescale, Source, Vco, rcc
    <2> HIDE DEF Fits
    <2>7. TypeOK'
      BY <1>0, <1>9, <2>4 DEF Prescale, TypeOK, rcc
    <2>8. Progress'
      BY <2>5, <2>6 DEF Progress
    <2> QED  BY <2>7, <2>8 DEF IInv
  <1>10. CASE UNCHANGED vars
    BY <1>0, <1>10 DEF vars, IInv, TypeOK, Progress, Source, Vco
  <1> QED
    BY <1>1, <1>2, <1>3, <1>4, <1>5, <1>6, <1>7, <1>8, <1>9, <1>10
    DEF Next, Update, ClockTree

LEMMA Invariance == Spec => []IInv
  BY InitIInv, IInvStep, PTL DEF Spec

-----------------------------------------------------------------------------

\* What the function computes of each source lies between the bounds.
LEMMA SourceMatches ==
  ASSUME TypeOK, NEW s \in {HSI, HSE, PLL}
  PROVE  /\ Lowest(s) \in Int
         /\ Source(s) \div HpreDivider[hpre] \in Lowest(s) .. Highest(s)
  <1> DEFINE h == HpreDivider[hpre]
             c == Source(s) \div h
  <1>1. h \in Nat \ {0}
    BY ShiftIsDivider DEF TypeOK
  <1>2. Source(s) \in Nat
    BY SourceType
  <1>3. c \in Nat
    BY <1>1, <1>2, Quotient
  <1>4. CASE s = PLL
    <2> DEFINE in == PllInput(pll)
               d == PllDivider(pll)
    <2>1. /\ pll.m \in Nat \ {0} /\ pll.n \in Nat /\ in \in Nat /\ d \in Nat \ {0}
      BY PllTypes DEF TypeOK
    <2>2. HclkNum(s) = in * pll.n /\ HclkDen(s) = h * (pll.m * d)
      BY <1>4 DEF HclkNum, HclkDen, HSI, HSE, PLL
    <2>3. Loss(s) = h * (pll.m * d) + pll.m * (pll.n + d)
      BY <1>4, <2>2 DEF Loss
    <2>4. c = (((in \div pll.m) * pll.n) \div d) \div h
      BY <1>4 DEF Source, Vco
    <2> HIDE DEF in, d, h, c
    <2>5. c <= Highest(s)
      BY <1>1, <2>1, <2>2, <2>4, ChainAtMost DEF Highest
    <2>6. Lowest(s) <= c
      BY <1>1, <2>1, <2>2, <2>3, <2>4, ChainAtLeast DEF Lowest
    <2>7. Lowest(s) \in Int /\ Highest(s) \in Int
      <3>1. /\ in * pll.n \in Int /\ h * (pll.m * d) \in Nat \ {0}
            /\ pll.m * (pll.n + d) \in Int
        BY <1>1, <2>1
      <3> QED  BY <2>2, <2>3, <3>1 DEF Lowest, Highest
    <2> QED  BY <1>3, <2>5, <2>6, <2>7 DEF c, h
  <1>5. CASE s # PLL
    <2>1. HclkNum(s) = Source(s) /\ HclkDen(s) = h /\ Loss(s) = h
      <3>1. HclkNum(s) = Source(s)
        BY <1>5 DEF HclkNum, Source, TypeOK, HSI, HSE, PLL
      <3>2. HclkDen(s) = h * 1 /\ Loss(s) = HclkDen(s) + 0
        BY <1>5 DEF HclkDen, Loss
      <3> QED  BY <1>1, <3>1, <3>2
    <2>2. Highest(s) = c
      BY <2>1 DEF Highest
    <2>3. Source(s) < (c + 1) * h
      BY <1>1, <1>2, Quotient
    <2> HIDE DEF h, c
    <2>4. Source(s) - h < c * h
      BY <1>1, <1>2, <1>3, <2>3
    <2>5. (Source(s) - h) \div h + 1 <= c
      BY <1>1, <1>2, <1>3, <2>4, QuotientBelow
    <2>6. (Source(s) - h) \div h \in Int
      BY <1>1, <1>2
    <2>7. Lowest(s) \in Int /\ c \in Lowest(s) .. Highest(s)
      BY <1>3, <2>1, <2>2, <2>5, <2>6 DEF Lowest
    <2> QED  BY <2>7 DEF c, h
  <1> QED  BY <1>4, <1>5

\* SystemCoreClock is, up to the loss of the divisions, the clock of the source the
\* last update saw, whenever the hardware switches, and with all PLL settings whose
\* VCO fits the word.
THEOREM MatchesClockHolds == Spec => []MatchesClock
  <1>1. ASSUME IInv PROVE MatchesClock
    BY <1>1, SourceMatches DEF IInv, TypeOK, Progress, Fits, MatchesClock
  <1> QED  BY <1>1, Invariance, PTL

\* A reader in the middle of an update never sees too low a clock.
THEOREM NeverTooLowHolds == Spec => []NeverTooLow
  <1>1. ASSUME IInv, right \/ pc = "prescale", Fits(Current)
        PROVE  SystemCoreClock >= Lowest(Current)
    <2>0. Current \in {HSI, HSE, PLL} /\ TypeOK /\ Progress
      BY <1>1 DEF IInv, TypeOK, Current
    <2>1. /\ Lowest(Current) \in Int
          /\ Source(Current) \div HpreDivider[hpre] \in Lowest(Current) .. Highest(Current)
      BY <2>0, SourceMatches
    <2>2. Lowest(Current) <= Source(Current) \div HpreDivider[hpre]
      BY <2>1
    <2>3. CASE pc # "prescale"
      <3>1. SystemCoreClock = Source(Current) \div HpreDivider[hpre]
        BY <1>1, <2>0, <2>3 DEF Progress, Current
      <3>2. SystemCoreClock \in Int
        BY <2>0, VcoType DEF TypeOK
      <3> QED  BY <2>1, <2>2, <3>1, <3>2
    <2>4. CASE pc = "prescale"
      <3>1. SystemCoreClock = Source(Current) /\ Source(Current) \in Nat
        BY <1>1, <2>0, <2>4, SourceType DEF Progress, Current
      <3>2. Source(Current) \div HpreDivider[hpre] \in 0 .. Source(Current)
        BY <2>0, <3>1, ShiftIsDivider, Quotient DEF TypeOK
      <3> QED  BY <2>1, <2>2, <3>1, <3>2
    <2> QED  BY <2>3, <2>4
  <1> QED  BY <1>1, Invariance, PTL DEF NeverTooLow, Fits

-----------------------------------------------------------------------------
(* The system calls.                                                        *)

\* What the calls return: a failure, with its error, or a number.
Results == {Fails(c) : c \in Codes} \cup {Returns(m) : m \in Nat}

\* stdio asks about standard input and output, writes to the two outputs, reads
\* the input, and makes no other call.
Streams ==
  \A t \in Task : stdio[t] =>
    /\ stage[t] \in {"_fstat", "_sbrk"} => fd[t] \in {STDIN_FILENO, STDOUT_FILENO}
    /\ stage[t] = "_write" => fd[t] \in {STDOUT_FILENO, STDERR_FILENO}
    /\ stage[t] = "_read" => fd[t] = STDIN_FILENO
    /\ stage[t] \notin {"_close", "_lseek", "_isatty"}

\* errno holds the error of the latest failing call of all.
ErrnoOfLast == \A t \in Task : lastFailed = t => errno = own[t]

CallsInv == CallsTypeOK /\ Streams /\ PrintfSucceeds /\ ErrnoOfLast

-----------------------------------------------------------------------------

\* Every system call returns -1 exactly when it has stored an error.
LEMMA ResultsOfCalls ==
  ASSUME NEW f \in Nat, NEW n \in Nat
  PROVE  /\ _write(f, n) \in Results /\ _read(f, n) \in Results
         /\ _close(f) \in Results /\ _lseek(f) \in Results
         /\ _fstat(f) \in Results /\ _isatty(f) \in Results
         /\ _sbrk(n) \in Results
  <1>1. \A c \in Codes : Fails(c) \in Results
    BY DEF Results
  <1>2. \A m \in Nat : Returns(m) \in Results
    BY DEF Results
  <1>3. {"EBADF", "ENOSYS", "ESPIPE", "ENOMEM"} \subseteq Codes /\ {0, 1, n} \subseteq Nat
    BY DEF Codes
  <1>4. _write(f, n) \in Results
    BY <1>1, <1>2, <1>3 DEF _write
  <1>5. _read(f, n) \in Results
    BY <1>1, <1>2, <1>3 DEF _read
  <1>6. _isatty(f) \in Results
    BY <1>2, <1>3 DEF _isatty
  <1>7. /\ _close(f) \in Results /\ _lseek(f) \in Results
        /\ _fstat(f) \in Results /\ _sbrk(n) \in Results
    BY <1>1, <1>2, <1>3 DEF _close, _lseek, _fstat, _sbrk
  <1> QED  BY <1>4, <1>5, <1>6, <1>7

\* Storing a result leaves the latest failure's error in errno.
LEMMA StoreKeeps ==
  ASSUME CallsTypeOK, ErrnoOfLast, NEW t \in Task, NEW r \in Results, Store(t, r)
  PROVE  /\ errno' \in Codes /\ own' \in [Task -> Codes]
         /\ lastFailed' \in Task \cup {"nobody"}
         /\ ErrnoOfLast'
  <1>1. CASE \E c \in Codes : r = Fails(c)
    <2>1. PICK c \in Codes : r = Fails(c)
      BY <1>1
    <2>2. r.err = c /\ r.ret = -1 /\ c # Unchanged
      BY <2>1 DEF Fails, Codes, Unchanged
    <2>3. errno' = c /\ own' = [own EXCEPT ![t] = c] /\ lastFailed' = t
      BY <2>2 DEF Store
    <2> QED  BY <2>3 DEF CallsTypeOK, ErrnoOfLast
  <1>2. CASE \E m \in Nat : r = Returns(m)
    <2>1. r.err = Unchanged /\ r.ret # -1
      BY <1>2 DEF Returns
    <2>2. errno' = errno /\ own' = own /\ lastFailed' = lastFailed
      BY <2>1 DEF Store
    <2> QED  BY <2>2 DEF CallsTypeOK, ErrnoOfLast
  <1> QED  BY <1>1, <1>2 DEF Results

-----------------------------------------------------------------------------

LEMMA CallsInvInit == CallsInit => CallsInv
  BY SyscallsAssumption
  DEF CallsInit, CallsInv, CallsTypeOK, Streams, PrintfSucceeds, ErrnoOfLast, Codes, Calls

\* A call begins with a descriptor stdio uses for it.
LEMMA BeginKeeps ==
  ASSUME CallsInv, NEW t \in Task, NEW s \in Calls, NEW f \in Nat, NEW n \in Nat,
         NEW v \in BOOLEAN, Begin(t, s, f, n, v),
         v => \/ s = "_fstat" /\ f \in {STDIN_FILENO, STDOUT_FILENO}
              \/ s = "_write" /\ f \in {STDOUT_FILENO, STDERR_FILENO}
              \/ s = "_read" /\ f = STDIN_FILENO
  PROVE  CallsInv'
  <1> USE DEF Begin, GoTo
  <1>1. CallsTypeOK'
    BY DEF CallsInv, CallsTypeOK
  <1>2. Streams'
    BY DEF CallsInv, CallsTypeOK, Streams
  <1>3. PrintfSucceeds'
    BY DEF CallsInv, CallsTypeOK, PrintfSucceeds, Calls
  <1>4. ErrnoOfLast'
    BY DEF CallsInv, ErrnoOfLast
  <1> QED  BY <1>1, <1>2, <1>3, <1>4 DEF CallsInv

LEMMA CallsInvStep == CallsInv /\ [CallsNext]_callsVars => CallsInv'
  <1> SUFFICES ASSUME CallsInv, [CallsNext]_callsVars PROVE CallsInv'
    OBVIOUS
  <1> USE SyscallsAssumption
  <1>1. ASSUME NEW t \in Task, CallDirectly(t) PROVE CallsInv'
    <2>1. PICK s \in Calls, f \in Fds, n \in Lengths : Begin(t, s, f, n, FALSE)
      BY <1>1 DEF CallDirectly
    <2> QED  BY <2>1, BeginKeeps
  <1>2. ASSUME NEW t \in Task, Printf(t) PROVE CallsInv'
    <2>1. PICK f \in {STDOUT_FILENO, STDERR_FILENO}, n \in Lengths :
            Begin(t, IF f \in ready \cup {STDERR_FILENO} THEN "_write" ELSE "_fstat",
                  f, n, TRUE)
      BY <1>2 DEF Printf
    <2>2. f \in Nat /\ n \in Nat
      BY DEF STDOUT_FILENO, STDERR_FILENO
    <2>3. CASE f \in ready \cup {STDERR_FILENO}
      BY <2>1, <2>2, <2>3, BeginKeeps DEF Calls
    <2>4. CASE f \notin ready \cup {STDERR_FILENO}
      BY <2>1, <2>2, <2>4, BeginKeeps DEF Calls
    <2> QED  BY <2>3, <2>4
  <1>3. ASSUME NEW t \in Task, ReadInput(t) PROVE CallsInv'
    <2>1. PICK n \in Lengths :
            Begin(t, IF STDIN_FILENO \in ready THEN "_read" ELSE "_fstat",
                  STDIN_FILENO, n, TRUE)
      BY <1>3 DEF ReadInput
    <2>2. n \in Nat /\ STDIN_FILENO \in Nat
      BY DEF STDIN_FILENO
    <2>3. CASE STDIN_FILENO \in ready
      BY <2>1, <2>2, <2>3, BeginKeeps DEF Calls
    <2>4. CASE STDIN_FILENO \notin ready
      BY <2>1, <2>2, <2>4, BeginKeeps DEF Calls
    <2> QED  BY <2>3, <2>4
  <1>4. ASSUME NEW t \in Task, Exit(t) PROVE CallsInv'
    BY <1>4 DEF Exit, GoTo, args, CallsInv, CallsTypeOK, Streams, PrintfSucceeds, ErrnoOfLast
  <1>5. ASSUME NEW t \in Task, Fstat(t) PROVE CallsInv'
    <2>1. PICK r \in Results : Store(t, r)
      BY <1>5, ResultsOfCalls DEF Fstat, CallsInv, CallsTypeOK
    <2>2. /\ stage[t] = "_fstat" /\ UNCHANGED <<args, ready>>
          /\ stage' = [stage EXCEPT ![t] = IF stdio[t] THEN "_sbrk" ELSE "idle"]
      BY <1>5 DEF Fstat, GoTo
    <2> QED
      BY <2>1, <2>2, StoreKeeps
      DEF CallsInv, CallsTypeOK, Streams, PrintfSucceeds, Calls, args
  <1>6. ASSUME NEW t \in Task, Sbrk(t) PROVE CallsInv'
    <2>1. /\ stage[t] = "_sbrk" /\ UNCHANGED args
          /\ Store(t, _sbrk(left[t])) /\ _sbrk(left[t]) \in Results
          /\ _sbrk(left[t]).ret = -1
      BY <1>6, ResultsOfCalls DEF Sbrk, CallsInv, CallsTypeOK, _sbrk, Fails
    <2>2. \/ /\ stdio[t] /\ ready' = ready \cup {fd[t]}
             /\ stage' = [stage EXCEPT ![t] =
                            IF fd[t] = STDIN_FILENO THEN "_read" ELSE "_write"]
          \/ /\ ~stdio[t] /\ ready' = ready
             /\ stage' = [stage EXCEPT ![t] = "check"]
      BY <1>6, <2>1 DEF Sbrk, GoTo
    <2>3. /\ errno' \in Codes /\ own' \in [Task -> Codes]
          /\ lastFailed' \in Task \cup {"nobody"} /\ ErrnoOfLast'
      BY <2>1, StoreKeeps DEF CallsInv
    <2>4. CallsTypeOK'
      BY <2>1, <2>2, <2>3 DEF CallsInv, CallsTypeOK, Streams, Calls, args
    <2>5. Streams' /\ PrintfSucceeds'
      BY <2>1, <2>2 DEF CallsInv, CallsTypeOK, Streams, PrintfSucceeds, args,
                        STDIN_FILENO, STDOUT_FILENO, STDERR_FILENO
    <2> QED  BY <2>3, <2>4, <2>5 DEF CallsInv
  <1>7. ASSUME NEW t \in Task, Write(t) PROVE CallsInv'
    <2> DEFINE r == _write(fd[t], left[t])
    <2>1. stage[t] = "_write" /\ UNCHANGED <<fd, stdio, ready>> /\ Store(t, r)
      BY <1>7 DEF Write
    <2>2. r \in Results
      BY ResultsOfCalls DEF CallsInv, CallsTypeOK
    <2>3. /\ errno' \in Codes /\ own' \in [Task -> Codes]
          /\ lastFailed' \in Task \cup {"nobody"} /\ ErrnoOfLast'
      BY <2>1, <2>2, StoreKeeps DEF CallsInv
    <2>4. CASE ~stdio[t]
      <3>1. left' = left /\ \E s \in {"check", "idle"} : stage' = [stage EXCEPT ![t] = s]
        BY <1>7, <2>4 DEF Write, GoTo
      <3> QED
        BY <2>1, <2>3, <2>4, <3>1 DEF CallsInv, CallsTypeOK, Streams, PrintfSucceeds, Calls
    <2>5. CASE stdio[t]
      <3>1. fd[t] \in {STDOUT_FILENO, STDERR_FILENO} /\ left[t] \in Nat
        BY <2>1, <2>5 DEF CallsInv, Streams, CallsTypeOK
      <3>2. r.ret = left[t]
        BY <3>1 DEF _write, Returns
      <3>3. left' = [left EXCEPT ![t] = 0]
        BY <1>7, <2>5, <3>1, <3>2 DEF Write, CallsInv, CallsTypeOK
      <3>4. \E s \in {"check", "idle"} : stage' = [stage EXCEPT ![t] = s]
        BY <1>7, <2>5, <3>1, <3>2, <3>3 DEF Write, GoTo, CallsInv, CallsTypeOK
      <3> QED
        BY <2>1, <2>3, <2>5, <3>3, <3>4
        DEF CallsInv, CallsTypeOK, Streams, PrintfSucceeds, Calls
    <2> QED  BY <2>4, <2>5
  <1>8. ASSUME NEW t \in Task, Read(t) PROVE CallsInv'
    <2>1. /\ stage[t] = "_read" /\ UNCHANGED <<args, ready>>
          /\ Store(t, _read(fd[t], left[t])) /\ _read(fd[t], left[t]) \in Results
      BY <1>8, ResultsOfCalls DEF Read, CallsInv, CallsTypeOK
    <2>2. PICK s \in {"check", "idle", "_read"} : stage' = [stage EXCEPT ![t] = s]
      BY <1>8 DEF Read, GoTo
    <2>3. stdio[t] => fd[t] = STDIN_FILENO
      BY <2>1 DEF CallsInv, Streams
    <2> QED
      BY <2>1, <2>2, <2>3, StoreKeeps
      DEF CallsInv, CallsTypeOK, Streams, PrintfSucceeds, Calls, args
  <1>9. ASSUME NEW t \in Task, Close(t) \/ Lseek(t) \/ Isatty(t) PROVE CallsInv'
    <2>1. /\ stage[t] \in {"_close", "_lseek", "_isatty"} /\ UNCHANGED <<args, ready>>
          /\ \E r \in Results : Store(t, r)
      BY <1>9, ResultsOfCalls DEF Close, Lseek, Isatty, CallsInv, CallsTypeOK
    <2>2. PICK s \in {"check", "idle"} : stage' = [stage EXCEPT ![t] = s]
      BY <1>9 DEF Close, Lseek, Isatty, GoTo
    <2>3. ~stdio[t]
      BY <2>1 DEF CallsInv, Streams
    <2> QED
      BY <2>1, <2>2, <2>3, StoreKeeps
      DEF CallsInv, CallsTypeOK, Streams, PrintfSucceeds, Calls, args
  <1>10. ASSUME NEW t \in Task, Check(t) PROVE CallsInv'
    <2>1. CASE GoTo(t, "idle") /\ UNCHANGED <<errno, own, lastFailed, args, ready>>
      BY <1>10, <2>1
      DEF Check, GoTo, args, CallsInv, CallsTypeOK, Streams, PrintfSucceeds, ErrnoOfLast
    <2>2. CASE Store(t, _write(STDERR_FILENO, 1)) /\ UNCHANGED <<stage, args, ready>>
      <3>1. _write(STDERR_FILENO, 1) \in Results
        BY ResultsOfCalls DEF STDERR_FILENO
      <3> QED
        BY <2>2, <3>1, StoreKeeps
        DEF CallsInv, CallsTypeOK, Streams, PrintfSucceeds, args
    <2> QED  BY <1>10, <2>1, <2>2 DEF Check
  <1>11. CASE UNCHANGED callsVars
    BY <1>11
    DEF callsVars, args, CallsInv, CallsTypeOK, Streams, PrintfSucceeds, ErrnoOfLast
  <1> QED
    BY <1>1, <1>2, <1>3, <1>4, <1>5, <1>6, <1>7, <1>8, <1>9, <1>10, <1>11
    DEF CallsNext, Continue

-----------------------------------------------------------------------------

LEMMA CallsInvariance == CallsSpec => []CallsInv
  BY CallsInvInit, CallsInvStep, PTL DEF CallsSpec

\* stdio has bytes to go while it writes, and who looks at errno has failed.
Failed ==
  \A t \in Task :
    /\ stdio[t] /\ stage[t] \in {"_fstat", "_sbrk", "_write"} => left[t] > 0
    /\ stage[t] = "check" => lastFailed \in Task

\* A call that fails is the latest failure; one that succeeds is not.
LEMMA StoreNotes ==
  ASSUME NEW t \in Task, NEW r, Store(t, r)
  PROVE  /\ r.ret = -1 => lastFailed' = t
         /\ lastFailed' \in {t, lastFailed}
  BY DEF Store

\* A step of t that leaves the arguments of the others alone.
LEMMA FailedByOne ==
  ASSUME CallsTypeOK, Failed, NEW t \in Task, NEW s \in Calls \cup {"idle", "check", "_exit"},
         stage' = [stage EXCEPT ![t] = s],
         fd' = fd, stdio' = stdio, left' = left,
         lastFailed' \in {t, lastFailed},
         s = "check" => lastFailed' \in Task,
         stdio[t] /\ s \in {"_fstat", "_sbrk", "_write"} => left[t] > 0
  PROVE  Failed'
  BY DEF CallsTypeOK, Failed

LEMMA FailedStep == CallsInv /\ Failed /\ [CallsNext]_callsVars => Failed'
  <1> SUFFICES ASSUME CallsInv, Failed, [CallsNext]_callsVars PROVE Failed'
    OBVIOUS
  <1>0. CallsTypeOK /\ Streams
    BY DEF CallsInv
  <1> USE SyscallsAssumption
  <1>1. ASSUME NEW t \in Task, NEW s \in Calls, NEW f, NEW n \in Lengths, NEW v,
               Begin(t, s, f, n, v)
        PROVE  Failed'
    <2>1. n > 0 /\ s # "check"
      BY DEF Calls
    <2> QED  BY <1>0, <1>1, <2>1 DEF Begin, GoTo, CallsTypeOK, Failed
  <1>2. ASSUME NEW t \in Task, CallDirectly(t) \/ Printf(t) \/ ReadInput(t) PROVE Failed'
    BY <1>1, <1>2 DEF CallDirectly, Printf, ReadInput, Calls
  <1>3. ASSUME NEW t \in Task, Exit(t) PROVE Failed'
    BY <1>0, <1>3 DEF Exit, GoTo, args, CallsTypeOK, Failed
  <1>4. ASSUME NEW t \in Task, Fstat(t) PROVE Failed'
    <2>1. stage[t] = "_fstat" /\ lastFailed' \in {t, lastFailed}
      BY <1>4, StoreNotes DEF Fstat
    <2>2. PICK s \in {"_sbrk", "idle"} : stage' = [stage EXCEPT ![t] = s]
      BY <1>4 DEF Fstat, GoTo
    <2>3. fd' = fd /\ stdio' = stdio /\ left' = left
      BY <1>4 DEF Fstat, args
    <2>4. stdio[t] => left[t] > 0
      BY <2>1 DEF Failed
    <2> QED  BY <1>0, <2>1, <2>2, <2>3, <2>4, FailedByOne DEF Calls
  <1>5. ASSUME NEW t \in Task, Sbrk(t) PROVE Failed'
    <2>1. stage[t] = "_sbrk" /\ lastFailed' = t
      BY <1>5, StoreNotes DEF Sbrk, _sbrk, Fails
    <2>2. PICK s \in {"_read", "_write", "idle", "check"} : stage' = [stage EXCEPT ![t] = s]
      BY <1>5 DEF Sbrk, GoTo
    <2>3. fd' = fd /\ stdio' = stdio /\ left' = left
      BY <1>5 DEF Sbrk, args
    <2>4. stdio[t] => left[t] > 0
      BY <2>1 DEF Failed
    <2> QED  BY <1>0, <2>1, <2>2, <2>3, <2>4, FailedByOne DEF Calls
  <1>6. ASSUME NEW t \in Task, Write(t) PROVE Failed'
    <2> DEFINE r == _write(fd[t], left[t])
    <2>1. /\ stage[t] = "_write" /\ fd' = fd /\ stdio' = stdio
          /\ lastFailed' \in {t, lastFailed} /\ (r.ret = -1 => lastFailed' = t)
      BY <1>6, StoreNotes DEF Write
    <2>2. CASE ~stdio[t]
      <3>1. left' = left /\ stage' = [stage EXCEPT ![t] = IF r.ret = -1 THEN "check" ELSE "idle"]
        BY <1>6, <2>2 DEF Write, GoTo
      <3>2. CASE r.ret = -1
        BY <1>0, <2>1, <2>2, <3>1, <3>2, FailedByOne
      <3>3. CASE r.ret # -1
        BY <1>0, <2>1, <2>2, <3>1, <3>3, FailedByOne
      <3> QED  BY <3>2, <3>3
    <2>3. CASE stdio[t]
      <3>1. /\ fd[t] \in {STDOUT_FILENO, STDERR_FILENO} /\ left[t] \in Nat /\ left[t] > 0
        BY <1>0, <2>1, <2>3 DEF Streams, CallsTypeOK, Failed
      <3>2. r.ret = left[t]
        BY <3>1 DEF _write, Returns
      <3>3. left' = [left EXCEPT ![t] = 0]
        BY <1>0, <1>6, <2>3, <3>1, <3>2 DEF Write, CallsTypeOK
      <3>4. stage' = [stage EXCEPT ![t] = "idle"]
        BY <1>0, <1>6, <2>3, <3>1, <3>2, <3>3 DEF Write, GoTo, CallsTypeOK
      <3> QED  BY <1>0, <2>1, <3>3, <3>4 DEF CallsTypeOK, Failed
    <2> QED  BY <2>2, <2>3
  <1>7. ASSUME NEW t \in Task, Read(t) PROVE Failed'
    <2> DEFINE r == _read(fd[t], left[t])
    <2>1. lastFailed' \in {t, lastFailed} /\ (r.ret = -1 => lastFailed' = t)
      BY <1>7, StoreNotes DEF Read
    <2>2. PICK s \in {"check", "idle", "_read"} :
            stage' = [stage EXCEPT ![t] = s] /\ (s = "check" => r.ret = -1)
      BY <1>7 DEF Read, GoTo
    <2>3. fd' = fd /\ stdio' = stdio /\ left' = left
      BY <1>7 DEF Read, args
    <2> QED  BY <1>0, <2>1, <2>2, <2>3, FailedByOne DEF Calls
  <1>8. ASSUME NEW t \in Task, Close(t) \/ Lseek(t) PROVE Failed'
    <2>1. lastFailed' = t
      BY <1>8, StoreNotes DEF Close, Lseek, _close, _lseek, Fails
    <2>2. /\ stage' = [stage EXCEPT ![t] = "check"]
          /\ fd' = fd /\ stdio' = stdio /\ left' = left
      BY <1>8 DEF Close, Lseek, GoTo, args
    <2> QED  BY <1>0, <2>1, <2>2, FailedByOne
  <1>9. ASSUME NEW t \in Task, Isatty(t) PROVE Failed'
    <2>1. /\ lastFailed' \in {t, lastFailed}
          /\ stage' = [stage EXCEPT ![t] = "idle"]
          /\ fd' = fd /\ stdio' = stdio /\ left' = left
      BY <1>9, StoreNotes DEF Isatty, GoTo, args
    <2> QED  BY <1>0, <2>1, FailedByOne
  <1>10. ASSUME NEW t \in Task, Check(t) PROVE Failed'
    <2>1. /\ stage[t] = "check" /\ lastFailed \in Task
          /\ fd' = fd /\ stdio' = stdio /\ left' = left
      BY <1>10 DEF Check, args, Failed
    <2>2. CASE GoTo(t, "idle") /\ lastFailed' = lastFailed
      BY <1>0, <2>1, <2>2, FailedByOne DEF GoTo
    <2>3. CASE Store(t, _write(STDERR_FILENO, 1)) /\ stage' = stage
      <3>1. lastFailed' \in {t, lastFailed}
        BY <2>3, StoreNotes
      <3> QED  BY <2>1, <2>3, <3>1 DEF Failed
    <2> QED  BY <1>10, <2>2, <2>3 DEF Check
  <1>11. CASE UNCHANGED callsVars
    BY <1>11 DEF callsVars, Failed
  <1> QED
    BY <1>2, <1>3, <1>4, <1>5, <1>6, <1>7, <1>8, <1>9, <1>10, <1>11
    DEF CallsNext, Continue

LEMMA FailedInvariance == CallsSpec => []Failed
  <1>1. CallsInit => Failed
    BY DEF CallsInit, Failed
  <1> QED  BY <1>1, FailedStep, CallsInvariance, PTL DEF CallsSpec

-----------------------------------------------------------------------------

\* Whatever tasks call, errno holds an error code and no stream is known as used
\* that stdio cannot have used.
THEOREM CallsTypeCorrect == CallsSpec => []CallsTypeOK
  BY CallsInvariance, PTL DEF CallsInv

\* printf has handed over everything by the time it returns, for all tasks and
\* lengths.
THEOREM PrintfAlwaysSucceeds == CallsSpec => []PrintfSucceeds
  BY CallsInvariance, PTL DEF CallsInv

\* A task that looks at errno finds the error of the latest failing call of all tasks.
THEOREM LatestErrorFound == CallsSpec => []LatestError
  <1>1. CallsInv /\ Failed => LatestError
    BY DEF CallsInv, ErrnoOfLast, Failed, LatestError
  <1> QED  BY <1>1, CallsInvariance, FailedInvariance, PTL
========================================================================================
