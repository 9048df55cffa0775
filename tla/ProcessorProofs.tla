-------------------------------- MODULE ProcessorProofs --------------------------------
(* The interrupts and the protection unit of the processor for every choice of
   interrupts, priorities, regions and tables, and for any number of calls. *)
EXTENDS Nvic, Mpu, SequenceTheorems, TLAPS

----------------------------------------------------------------------------------------
(* Numbers and words *)

(* p is the b-th power of two, for the exponents that occur. *)
IsPower(b, p) ==
    \/ (b = 0 /\ p = 1) \/ (b = 1 /\ p = 2) \/ (b = 2 /\ p = 4) \/ (b = 3 /\ p = 8)
    \/ (b = 4 /\ p = 16) \/ (b = 5 /\ p = 32) \/ (b = 6 /\ p = 64) \/ (b = 7 /\ p = 128)
    \/ (b = 8 /\ p = 256) \/ (b = 9 /\ p = 512) \/ (b = 10 /\ p = 1024)
    \/ (b = 11 /\ p = 2048) \/ (b = 12 /\ p = 4096) \/ (b = 13 /\ p = 8192)
    \/ (b = 14 /\ p = 16384) \/ (b = 15 /\ p = 32768)

LEMMA Powers ==
    ASSUME NEW b \in 0..15
    PROVE  IsPower(b, 2^b)
<1>1. CASE b = 0
    BY <1>1 DEF IsPower
<1>2. CASE b = 1
    BY <1>2 DEF IsPower
<1>3. CASE b = 2
    BY <1>3 DEF IsPower
<1>4. CASE b = 3
    BY <1>4 DEF IsPower
<1>5. CASE b = 4
    BY <1>5 DEF IsPower
<1>6. CASE b = 5
    BY <1>6 DEF IsPower
<1>7. CASE b = 6
    BY <1>7 DEF IsPower
<1>8. CASE b = 7
    BY <1>8 DEF IsPower
<1>9. CASE b = 8
    BY <1>9 DEF IsPower
<1>10. CASE b = 9
    BY <1>10 DEF IsPower
<1>11. CASE b = 10
    BY <1>11 DEF IsPower
<1>12. CASE b = 11
    BY <1>12 DEF IsPower
<1>13. CASE b = 12
    BY <1>13 DEF IsPower
<1>14. CASE b = 13
    BY <1>14 DEF IsPower
<1>15. CASE b = 14
    BY <1>15 DEF IsPower
<1>16. CASE b = 15
    BY <1>16 DEF IsPower
<1> QED BY <1>1, <1>2, <1>3, <1>4, <1>5, <1>6, <1>7, <1>8,
           <1>9, <1>10, <1>11, <1>12, <1>13, <1>14, <1>15, <1>16

LEMMA PowerPositive ==
    ASSUME NEW b \in 0..15
    PROVE  2^b \in Nat \ {0}
<1>1. IsPower(b, 2^b)
    BY Powers
<1> QED BY <1>1 DEF IsPower

(* A word of the model has its bits among the low sixteen. *)
LEMMA WordIn16 ==
    ASSUME NEW n \in Nat
    PROVE  Word(n) \subseteq 0..15
BY Zenon DEF Word

(* A number of w bits has no bit from w on. *)
LEMMA BitsOfWord ==
    ASSUME NEW w \in 0..8, NEW n \in 0..2^w - 1
    PROVE  Word(n) \subseteq 0..w - 1 /\ n \in 0..255
<1>1. IsPower(w, 2^w)
    <2>1. w \in 0..15
        OBVIOUS
    <2> QED BY <2>1, Powers
<1>2. 2^w \in Nat /\ 2^w <= 256
    BY <1>1 DEF IsPower
<1>3. n \in 0..255
    BY <1>2
<1>4. ASSUME NEW b \in 0..15, b >= w PROVE n \div 2^b = 0
    <2>1. IsPower(b, 2^b)
        BY Powers
    <2>2. 2^w <= 2^b /\ 2^b \in Nat
        BY <1>1, <1>4, <2>1 DEF IsPower
    <2>3. n < 2^b
        BY <1>2, <2>2
    <2> QED BY <1>3, <2>2, <2>3
<1>5. ASSUME NEW b \in Word(n) PROVE b \in 0..15 /\ b < w
    <2>1. b \in 0..15 /\ (n \div 2^b) % 2 = 1
        BY DEF Word
    <2>2. CASE b >= w
        <3>1. 0 % 2 = 1
            BY <1>4, <2>1, <2>2
        <3> QED BY <3>1
    <2> QED BY <2>1, <2>2
<1> QED BY <1>3, <1>5

(* What is left of a number, and its next bit. *)
LEMMA Halves ==
    ASSUME NEW k \in 0..255
    PROVE  /\ k = 2 * (k \div 2) + (k % 2)
           /\ k \div 2 = 2 * (k \div 4) + ((k \div 2) % 2)
           /\ k \div 4 = 2 * (k \div 8) + ((k \div 4) % 2)
           /\ k \div 8 = 2 * (k \div 16) + ((k \div 8) % 2)
           /\ k \div 16 = 2 * (k \div 32) + ((k \div 16) % 2)
           /\ k \div 32 = 2 * (k \div 64) + ((k \div 32) % 2)
           /\ k \div 64 = 2 * (k \div 128) + ((k \div 64) % 2)
           /\ k \div 128 = (k \div 128) % 2
<1>1. ASSUME NEW q \in Nat PROVE q = 2 * (q \div 2) + (q % 2)
    OBVIOUS
<1>2. /\ k \div 4 = (k \div 2) \div 2 /\ k \div 8 = (k \div 4) \div 2
      /\ k \div 16 = (k \div 8) \div 2 /\ k \div 32 = (k \div 16) \div 2
    OBVIOUS
<1>3. k \div 64 = (k \div 32) \div 2 /\ k \div 128 = (k \div 64) \div 2
    OBVIOUS
<1>4. k \div 2 \in Nat /\ k \div 4 \in Nat /\ k \div 8 \in Nat /\ k \div 16 \in Nat
      /\ k \div 32 \in Nat /\ k \div 64 \in Nat
    OBVIOUS
<1>5. k \div 128 = (k \div 128) % 2
    OBVIOUS
<1> QED BY <1>1, <1>2, <1>3, <1>4, <1>5

(* Two numbers of eight bits with the same bits are one. *)
LEMMA WordInjective ==
    ASSUME NEW m \in 0..255, NEW n \in 0..255, Word(m) = Word(n)
    PROVE  m = n
<1>1. ASSUME NEW b \in 0..7 PROVE (m \div 2^b) % 2 = (n \div 2^b) % 2
    <2> b \in 0..15
        OBVIOUS
    <2>1. 2^b \in Nat \ {0}
        BY PowerPositive
    <2>2. /\ (m \div 2^b) % 2 = 1 <=> b \in Word(m)
          /\ (n \div 2^b) % 2 = 1 <=> b \in Word(n)
        BY DEF Word
    <2>3. (m \div 2^b) % 2 \in 0..1 /\ (n \div 2^b) % 2 \in 0..1
        BY <2>1
    <2> QED BY <2>2, <2>3
<1>2. ASSUME NEW b \in 0..7, NEW p \in Nat, 2^b = p
      PROVE  (m \div p) % 2 = (n \div p) % 2
    BY <1>1, <1>2
<1>3. 2^0 = 1 /\ 2^1 = 2 /\ 2^2 = 4 /\ 2^3 = 8 /\ 2^4 = 16 /\ 2^5 = 32 /\ 2^6 = 64
      /\ 2^7 = 128
    OBVIOUS
<1>4. /\ (m \div 1) % 2 = (n \div 1) % 2 /\ (m \div 2) % 2 = (n \div 2) % 2
      /\ (m \div 4) % 2 = (n \div 4) % 2 /\ (m \div 8) % 2 = (n \div 8) % 2
    BY <1>1, <1>3
<1>5. /\ (m \div 16) % 2 = (n \div 16) % 2 /\ (m \div 32) % 2 = (n \div 32) % 2
      /\ (m \div 64) % 2 = (n \div 64) % 2 /\ (m \div 128) % 2 = (n \div 128) % 2
    BY <1>1, <1>3
<1>6. m \div 128 = n \div 128 /\ m \div 64 = n \div 64 /\ m \div 32 = n \div 32
    BY <1>5, Halves
<1>7. m \div 16 = n \div 16 /\ m \div 8 = n \div 8 /\ m \div 4 = n \div 4
    <2>1. m \div 16 = n \div 16
        BY <1>5, <1>6, Halves
    <2>2. m \div 8 = n \div 8
        BY <1>4, <2>1, Halves
    <2> QED BY <1>4, <2>1, <2>2, Halves
<1>8. m \div 2 = n \div 2 /\ m % 2 = n % 2
    BY <1>4, <1>7, Halves
<1> QED BY <1>8, Halves

(* Number is the inverse of Word. *)
LEMMA NumberOfWord ==
    ASSUME NEW n \in 0..255
    PROVE  Number(Word(n)) = n
<1>1. Word(n) \in SUBSET (0..7)
    BY BitsOfWord, Powers
<1>2. Number(Word(n)) = CHOOSE m \in 0..255 : Word(m) = Word(n)
    BY <1>1 DEF Number, Numbers
<1> QED BY <1>2, WordInjective

----------------------------------------------------------------------------------------
(* The vector table *)

(* What the entries of the table may be. *)
Entry ==
    {"0", "estack", "Reset", "NMI", "HardFault", "MemManage", "BusFault", "UsageFault",
     "SVC", "DebugMon", "PendSV", "SysTick", "WWDG", "PVD", "TAMP_STAMP", "RTC_WKUP",
     "FLASH", "RCC", "EXTI0", "EXTI1", "EXTI2", "EXTI3", "EXTI4", "DMA1_Stream0",
     "DMA1_Stream1", "DMA1_Stream2", "DMA1_Stream3", "DMA1_Stream4", "DMA1_Stream5",
     "DMA1_Stream6", "ADC", "EXTI9_5", "TIM1_BRK_TIM9", "TIM1_UP_TIM10",
     "TIM1_TRG_COM_TIM11", "TIM1_CC", "TIM2", "TIM3", "TIM4", "I2C1_EV", "I2C1_ER",
     "I2C2_EV", "I2C2_ER", "SPI1", "SPI2", "USART1", "USART2", "DMA2_Stream0",
     "DMA2_Stream1", "DMA2_Stream2", "DMA2_Stream3", "DMA2_Stream4", "OTG_FS",
     "DMA2_Stream5", "DMA2_Stream6", "DMA2_Stream7", "USART6", "I2C3_EV", "I2C3_ER",
     "EXTI15_10", "RTC_Alarm", "OTG_FS_WKUP", "DMA1_Stream7", "SDIO", "TIM5", "SPI3",
     "FPU", "SPI4", "SPI5"}

(* The blocks that the vector table is put together from, and their lengths. *)
LEMMA ReservedEntries ==
    /\ Reserved(1) \in Seq(Entry) /\ Len(Reserved(1)) = 1
    /\ Reserved(2) \in Seq(Entry) /\ Len(Reserved(2)) = 2
    /\ Reserved(4) \in Seq(Entry) /\ Len(Reserved(4)) = 4
    /\ Reserved(6) \in Seq(Entry) /\ Len(Reserved(6)) = 6
    /\ Reserved(7) \in Seq(Entry) /\ Len(Reserved(7)) = 7
<1>1. ASSUME NEW n \in Nat PROVE Reserved(n) \in Seq(Entry) /\ Len(Reserved(n)) = n
    <2>1. Reserved(n) \in [1..n -> Entry]
        BY DEF Reserved, None, Entry
    <2>2. Reserved(n) \in Seq(Entry)
        BY <2>1, SeqDef
    <2> QED BY <2>2, <2>1 DEF Reserved
<1> QED BY <1>1

LEMMA Blocks ==
    /\ ExceptionVectors \in Seq(Entry) /\ Len(ExceptionVectors) = 16
    /\ Vectors_WWDG_ADC \in Seq(Entry) /\ Len(Vectors_WWDG_ADC) = 19
    /\ Vectors_EXTI9_5_USART2 \in Seq(Entry) /\ Len(Vectors_EXTI9_5_USART2) = 16
    /\ Vectors_DMA2_Stream0_DMA2_Stream4 \in Seq(Entry)
    /\ Len(Vectors_DMA2_Stream0_DMA2_Stream4) = 5
    /\ Vectors_OTG_FS_I2C3_ER \in Seq(Entry) /\ Len(Vectors_OTG_FS_I2C3_ER) = 7
<1>1. ExceptionVectors \in Seq(Entry) /\ Len(ExceptionVectors) = 16
    BY DEF ExceptionVectors, Entry, None
<1>2. Vectors_WWDG_ADC \in Seq(Entry) /\ Len(Vectors_WWDG_ADC) = 19
    BY DEF Vectors_WWDG_ADC, Entry
<1>3. Vectors_EXTI9_5_USART2 \in Seq(Entry) /\ Len(Vectors_EXTI9_5_USART2) = 16
    BY DEF Vectors_EXTI9_5_USART2, Entry
<1>4. /\ Vectors_DMA2_Stream0_DMA2_Stream4 \in Seq(Entry)
      /\ Len(Vectors_DMA2_Stream0_DMA2_Stream4) = 5
    BY DEF Vectors_DMA2_Stream0_DMA2_Stream4, Entry
<1>5. Vectors_OTG_FS_I2C3_ER \in Seq(Entry) /\ Len(Vectors_OTG_FS_I2C3_ER) = 7
    BY DEF Vectors_OTG_FS_I2C3_ER, Entry
<1> QED BY <1>1, <1>2, <1>3, <1>4, <1>5


LEMMA Short ==
    /\ <<"EXTI15_10", "RTC_Alarm", "OTG_FS_WKUP">> \in Seq(Entry)
    /\ Len(<<"EXTI15_10", "RTC_Alarm", "OTG_FS_WKUP">>) = 3
    /\ <<"DMA1_Stream7">> \in Seq(Entry) /\ Len(<<"DMA1_Stream7">>) = 1
    /\ <<"SDIO", "TIM5", "SPI3">> \in Seq(Entry) /\ Len(<<"SDIO", "TIM5", "SPI3">>) = 3
    /\ <<"FPU">> \in Seq(Entry) /\ Len(<<"FPU">>) = 1
    /\ <<"SPI4", "SPI5">> \in Seq(Entry) /\ Len(<<"SPI4", "SPI5">>) = 2
BY DEF Entry

(* A table u of l entries that is a table s of n entries and a block t of m. *)
Extends(u, s, n, t, m, l) ==
    /\ s \in Seq(Entry) /\ Len(s) = n
    /\ t \in Seq(Entry) /\ Len(t) = m
    /\ u = s \o t /\ l = n + m

(* The first n vectors are those of s; behind the first n there is the block t of m. *)
Starts(s, n) == \A k \in 1..n : g_pfnVectors[k] = s[k]
Covers(n, t, m) == \A k \in n + 1..n + m : g_pfnVectors[k] = t[k - n]

LEMMA Longer ==
    ASSUME NEW u, NEW s, NEW n, NEW t, NEW m, NEW l, Extends(u, s, n, t, m, l)
    PROVE  u \in Seq(Entry) /\ Len(u) = l
BY ConcatProperties DEF Extends

LEMMA Within ==
    ASSUME NEW u, NEW s, NEW n, NEW t, NEW m, NEW l, Extends(u, s, n, t, m, l),
           Starts(u, l)
    PROVE  Starts(s, n) /\ Covers(n, t, m)
<1>1. /\ n \in Nat /\ m \in Nat /\ l = n + m
      /\ \A k \in 1..n + m : u[k] = IF k <= n THEN s[k] ELSE t[k - n]
    BY ConcatProperties, LenProperties DEF Extends
<1>2. ASSUME NEW k \in 1..n PROVE g_pfnVectors[k] = s[k]
    BY <1>1, <1>2 DEF Starts
<1>3. ASSUME NEW k \in n + 1..n + m PROVE g_pfnVectors[k] = t[k - n]
    <2>1. k \in 1..n + m /\ ~(k <= n)
        BY <1>1
    <2> QED BY <1>1, <2>1 DEF Starts
<1> QED BY <1>2, <1>3 DEF Starts, Covers

(* Where each block of the table lies. *)
LEMMA Places ==
    /\ Starts(ExceptionVectors, 16)
    /\ Covers(16, Vectors_WWDG_ADC, 19)
    /\ Covers(39, Vectors_EXTI9_5_USART2, 16)
    /\ Covers(56, <<"EXTI15_10", "RTC_Alarm", "OTG_FS_WKUP">>, 3)
    /\ Covers(63, <<"DMA1_Stream7">>, 1)
    /\ Covers(65, <<"SDIO", "TIM5", "SPI3">>, 3)
    /\ Covers(72, Vectors_DMA2_Stream0_DMA2_Stream4, 5)
    /\ Covers(83, Vectors_OTG_FS_I2C3_ER, 7)
    /\ Covers(97, <<"FPU">>, 1)
    /\ Covers(100, <<"SPI4", "SPI5">>, 2)
<1> DEFINE T1 == ExceptionVectors
           T2 == T1 \o Vectors_WWDG_ADC
           T3 == T2 \o Reserved(4)
           T4 == T3 \o Vectors_EXTI9_5_USART2
           T5 == T4 \o Reserved(1)
           T6 == T5 \o <<"EXTI15_10", "RTC_Alarm", "OTG_FS_WKUP">>
           T7 == T6 \o Reserved(4)
           T8 == T7 \o <<"DMA1_Stream7">>
           T9 == T8 \o Reserved(1)
           T10 == T9 \o <<"SDIO", "TIM5", "SPI3">>
           T11 == T10 \o Reserved(4)
           T12 == T11 \o Vectors_DMA2_Stream0_DMA2_Stream4
           T13 == T12 \o Reserved(6)
           T14 == T13 \o Vectors_OTG_FS_I2C3_ER
           T15 == T14 \o Reserved(7)
           T16 == T15 \o <<"FPU">>
           T17 == T16 \o Reserved(2)
           T18 == T17 \o <<"SPI4", "SPI5">>
<1>1. T1 \in Seq(Entry) /\ Len(T1) = 16
    BY Blocks
<1>2. Extends(T2, T1, 16, Vectors_WWDG_ADC, 19, 35)
    BY <1>1, Blocks DEF Extends
<1>3. T2 \in Seq(Entry) /\ Len(T2) = 35
    BY <1>2, Longer, Zenon
<1> HIDE DEF T1
<1>4. Extends(T3, T2, 35, Reserved(4), 4, 39)
    BY <1>3, ReservedEntries DEF Extends
<1>5. T3 \in Seq(Entry) /\ Len(T3) = 39
    BY <1>4, Longer, Zenon
<1> HIDE DEF T2
<1>6. Extends(T4, T3, 39, Vectors_EXTI9_5_USART2, 16, 55)
    BY <1>5, Blocks DEF Extends
<1>7. T4 \in Seq(Entry) /\ Len(T4) = 55
    BY <1>6, Longer, Zenon
<1> HIDE DEF T3
<1>8. Extends(T5, T4, 55, Reserved(1), 1, 56)
    BY <1>7, ReservedEntries DEF Extends
<1>9. T5 \in Seq(Entry) /\ Len(T5) = 56
    BY <1>8, Longer, Zenon
<1> HIDE DEF T4
<1>10. Extends(T6, T5, 56, <<"EXTI15_10", "RTC_Alarm", "OTG_FS_WKUP">>, 3, 59)
    BY <1>9, Short DEF Extends
<1>11. T6 \in Seq(Entry) /\ Len(T6) = 59
    BY <1>10, Longer, Zenon
<1> HIDE DEF T5
<1>12. Extends(T7, T6, 59, Reserved(4), 4, 63)
    BY <1>11, ReservedEntries DEF Extends
<1>13. T7 \in Seq(Entry) /\ Len(T7) = 63
    BY <1>12, Longer, Zenon
<1> HIDE DEF T6
<1>14. Extends(T8, T7, 63, <<"DMA1_Stream7">>, 1, 64)
    BY <1>13, Short DEF Extends
<1>15. T8 \in Seq(Entry) /\ Len(T8) = 64
    BY <1>14, Longer, Zenon
<1> HIDE DEF T7
<1>16. Extends(T9, T8, 64, Reserved(1), 1, 65)
    BY <1>15, ReservedEntries DEF Extends
<1>17. T9 \in Seq(Entry) /\ Len(T9) = 65
    BY <1>16, Longer, Zenon
<1> HIDE DEF T8
<1>18. Extends(T10, T9, 65, <<"SDIO", "TIM5", "SPI3">>, 3, 68)
    BY <1>17, Short DEF Extends
<1>19. T10 \in Seq(Entry) /\ Len(T10) = 68
    BY <1>18, Longer, Zenon
<1> HIDE DEF T9
<1>20. Extends(T11, T10, 68, Reserved(4), 4, 72)
    BY <1>19, ReservedEntries DEF Extends
<1>21. T11 \in Seq(Entry) /\ Len(T11) = 72
    BY <1>20, Longer, Zenon
<1> HIDE DEF T10
<1>22. Extends(T12, T11, 72, Vectors_DMA2_Stream0_DMA2_Stream4, 5, 77)
    BY <1>21, Blocks DEF Extends
<1>23. T12 \in Seq(Entry) /\ Len(T12) = 77
    BY <1>22, Longer, Zenon
<1> HIDE DEF T11
<1>24. Extends(T13, T12, 77, Reserved(6), 6, 83)
    BY <1>23, ReservedEntries DEF Extends
<1>25. T13 \in Seq(Entry) /\ Len(T13) = 83
    BY <1>24, Longer, Zenon
<1> HIDE DEF T12
<1>26. Extends(T14, T13, 83, Vectors_OTG_FS_I2C3_ER, 7, 90)
    BY <1>25, Blocks DEF Extends
<1>27. T14 \in Seq(Entry) /\ Len(T14) = 90
    BY <1>26, Longer, Zenon
<1> HIDE DEF T13
<1>28. Extends(T15, T14, 90, Reserved(7), 7, 97)
    BY <1>27, ReservedEntries DEF Extends
<1>29. T15 \in Seq(Entry) /\ Len(T15) = 97
    BY <1>28, Longer, Zenon
<1> HIDE DEF T14
<1>30. Extends(T16, T15, 97, <<"FPU">>, 1, 98)
    BY <1>29, Short DEF Extends
<1>31. T16 \in Seq(Entry) /\ Len(T16) = 98
    BY <1>30, Longer, Zenon
<1> HIDE DEF T15
<1>32. Extends(T17, T16, 98, Reserved(2), 2, 100)
    BY <1>31, ReservedEntries DEF Extends
<1>33. T17 \in Seq(Entry) /\ Len(T17) = 100
    BY <1>32, Longer, Zenon
<1> HIDE DEF T16
<1>34. Extends(T18, T17, 100, <<"SPI4", "SPI5">>, 2, 102)
    BY <1>33, Short DEF Extends
<1>35. T18 \in Seq(Entry) /\ Len(T18) = 102
    BY <1>34, Longer, Zenon
<1> HIDE DEF T17
<1>36. g_pfnVectors = T18
    BY DEF g_pfnVectors, T1, T2, T3, T4, T5, T6, T7, T8, T9, T10, T11, T12, T13, T14, T15,
       T16, T17
<1> HIDE DEF T18
<1>37. Starts(T18, 102)
    BY <1>36 DEF Starts
<1>38. Starts(T17, 100) /\ Covers(100, <<"SPI4", "SPI5">>, 2)
    BY <1>34, <1>37, Within
<1>39. Starts(T16, 98)
    BY <1>32, <1>38, Within
<1>40. Starts(T15, 97) /\ Covers(97, <<"FPU">>, 1)
    BY <1>30, <1>39, Within
<1>41. Starts(T14, 90)
    BY <1>28, <1>40, Within
<1>42. Starts(T13, 83) /\ Covers(83, Vectors_OTG_FS_I2C3_ER, 7)
    BY <1>26, <1>41, Within
<1>43. Starts(T12, 77)
    BY <1>24, <1>42, Within
<1>44. Starts(T11, 72) /\ Covers(72, Vectors_DMA2_Stream0_DMA2_Stream4, 5)
    BY <1>22, <1>43, Within
<1>45. Starts(T10, 68)
    BY <1>20, <1>44, Within
<1>46. Starts(T9, 65) /\ Covers(65, <<"SDIO", "TIM5", "SPI3">>, 3)
    BY <1>18, <1>45, Within
<1>47. Starts(T8, 64)
    BY <1>16, <1>46, Within
<1>48. Starts(T7, 63) /\ Covers(63, <<"DMA1_Stream7">>, 1)
    BY <1>14, <1>47, Within
<1>49. Starts(T6, 59)
    BY <1>12, <1>48, Within
<1>50. Starts(T5, 56) /\ Covers(56, <<"EXTI15_10", "RTC_Alarm", "OTG_FS_WKUP">>, 3)
    BY <1>10, <1>49, Within
<1>51. Starts(T4, 55)
    BY <1>8, <1>50, Within
<1>52. Starts(T3, 39) /\ Covers(39, Vectors_EXTI9_5_USART2, 16)
    BY <1>6, <1>51, Within
<1>53. Starts(T2, 35)
    BY <1>4, <1>52, Within
<1>54. Starts(T1, 16) /\ Covers(16, Vectors_WWDG_ADC, 19)
    BY <1>2, <1>53, Within
<1> QED BY <1>38, <1>40, <1>42, <1>44, <1>46, <1>48, <1>50, <1>52, <1>54 DEF T1

(* The entry of the table for an interrupt is the handler of its name. *)
LEMMA OwnVector ==
    ASSUME NEW irq \in DOMAIN IRQn_Type
    PROVE  VectorOf(irq) = HandlerName(irq)
<1>1. CASE irq \in
            {"NonMaskableInt", "MemoryManagement", "BusFault", "UsageFault", "SVCall",
             "DebugMonitor", "PendSV", "SysTick"}
    BY <1>1, Places
    DEF Starts, ExceptionVectors, IRQn_Type, VectorOf, NVIC_USER_IRQ_OFFSET, HandlerName
<1>2. CASE irq \in
            {"WWDG", "PVD", "TAMP_STAMP", "RTC_WKUP", "FLASH", "RCC", "EXTI0",
             "EXTI1", "EXTI2", "EXTI3", "EXTI4", "DMA1_Stream0", "DMA1_Stream1",
             "DMA1_Stream2", "DMA1_Stream3", "DMA1_Stream4", "DMA1_Stream5",
             "DMA1_Stream6", "ADC"}
    BY <1>2, Places
    DEF Covers, Vectors_WWDG_ADC, IRQn_Type, VectorOf, NVIC_USER_IRQ_OFFSET, HandlerName
<1>3. CASE irq \in
            {"EXTI9_5", "TIM1_BRK_TIM9", "TIM1_UP_TIM10", "TIM1_TRG_COM_TIM11",
             "TIM1_CC", "TIM2", "TIM3", "TIM4", "I2C1_EV", "I2C1_ER", "I2C2_EV",
             "I2C2_ER", "SPI1", "SPI2", "USART1", "USART2"}
    BY <1>3, Places
    DEF Covers, Vectors_EXTI9_5_USART2, IRQn_Type, VectorOf, NVIC_USER_IRQ_OFFSET, HandlerName
<1>4. CASE irq \in
            {"EXTI15_10", "RTC_Alarm", "OTG_FS_WKUP", "DMA1_Stream7", "SDIO", "TIM5",
             "SPI3"}
    BY <1>4, Places
    DEF Covers, IRQn_Type, VectorOf, NVIC_USER_IRQ_OFFSET, HandlerName
<1>5. CASE irq \in
            {"DMA2_Stream0", "DMA2_Stream1", "DMA2_Stream2", "DMA2_Stream3",
             "DMA2_Stream4"}
    BY <1>5, Places
    DEF Covers, Vectors_DMA2_Stream0_DMA2_Stream4, IRQn_Type, VectorOf,
        NVIC_USER_IRQ_OFFSET, HandlerName
<1>6. CASE irq \in
            {"OTG_FS", "DMA2_Stream5", "DMA2_Stream6", "DMA2_Stream7", "USART6",
             "I2C3_EV", "I2C3_ER"}
    BY <1>6, Places
    DEF Covers, Vectors_OTG_FS_I2C3_ER, IRQn_Type, VectorOf, NVIC_USER_IRQ_OFFSET, HandlerName
<1>7. CASE irq \in
            {"FPU", "SPI4", "SPI5"}
    BY <1>7, Places
    DEF Covers, IRQn_Type, VectorOf, NVIC_USER_IRQ_OFFSET, HandlerName
<1> QED BY <1>1, <1>2, <1>3, <1>4, <1>5, <1>6, <1>7 DEF IRQn_Type

(* So no two interrupts have one number. *)
LEMMA OneNumberEach ==
    ASSUME NEW irq \in DOMAIN IRQn_Type
    PROVE  /\ IRQn_Type[irq] \in -14..85
           /\ \A other \in DOMAIN IRQn_Type :
                 IRQn_Type[irq] = IRQn_Type[other] => irq = other
<1>1. \A i \in DOMAIN IRQn_Type : IRQn_Type[i] \in -14..85
    BY DEF IRQn_Type
<1>2. \A i \in DOMAIN IRQn_Type : i \notin {"NMI", "MemManage", "SVC", "DebugMon"}
    BY DEF IRQn_Type
<1>3. ASSUME NEW other \in DOMAIN IRQn_Type, IRQn_Type[irq] = IRQn_Type[other]
      PROVE  irq = other
    <2>1. HandlerName(irq) = HandlerName(other)
        BY <1>3, OwnVector DEF VectorOf
    <2> QED BY <1>2, <2>1 DEF HandlerName
<1> QED BY <1>1, <1>3

----------------------------------------------------------------------------------------
(* The invariant of the interrupts *)

Marked(words, irq) == BitOf(irq) \subseteq words[WordOf(irq)]

Frames == {[irq |-> irq, handler |-> HandlerName(irq)] : irq \in used}
Orders == [enabled : BOOLEAN, pending : BOOLEAN, preempt : Int, sub : Nat]
Words == [0..2 -> SUBSET (0..31)]

NvicTypeOK ==
    /\ used \in Pairs
    /\ group \in 0..7
    /\ prigroup = {b + 8 : b \in Word(group)}
    /\ iser \in Words /\ ispr \in Words
    /\ icsr \subseteq used \ Device
    /\ ip \in [used \cap Device -> Nat] /\ shp \in [0..11 -> Nat]
    /\ reload \in Nat
    /\ active \in Seq(Frames)
    /\ wanted \in [used -> Orders]

(* The bits of each interrupt are the ones asked for. *)
BitsAgree ==
    /\ \A irq \in used \cap Device :
          /\ Marked(iser, irq) <=> wanted[irq].enabled
          /\ Marked(ispr, irq) <=> wanted[irq].pending
    /\ \A irq \in used \ Device :
          wanted[irq].enabled /\ (irq \in icsr <=> wanted[irq].pending)

(* The byte of each interrupt has the priority asked for in its upper four bits, as the
   grouping divides them. *)
BytesAgree ==
    /\ \A irq \in used \cap Configurable :
          /\ wanted[irq].preempt \in 0..2^PreemptBits(group) - 1
          /\ wanted[irq].sub \in 0..2^SubBits(group) - 1
          /\ Byte(irq) = (wanted[irq].preempt * 2^SubBits(group) + wanted[irq].sub) * 16
    /\ \A irq \in used \ Configurable : wanted[irq].preempt = -2 /\ wanted[irq].sub = 0

NvicInv == NvicTypeOK /\ BitsAgree /\ BytesAgree

----------------------------------------------------------------------------------------
(* Priorities *)

(* How a grouping divides the four bits of a priority: the powers of two of the bits
   for preemption, of the other bits, and of the bits of the byte below the first. *)
Split(g, preempts, subs, below) ==
    \/ (g = 0 /\ preempts = 16 /\ subs = 1 /\ below = 2)
    \/ (g = 1 /\ preempts = 16 /\ subs = 1 /\ below = 4)
    \/ (g = 2 /\ preempts = 16 /\ subs = 1 /\ below = 8)
    \/ (g = 3 /\ preempts = 16 /\ subs = 1 /\ below = 16)
    \/ (g = 4 /\ preempts = 8 /\ subs = 2 /\ below = 32)
    \/ (g = 5 /\ preempts = 4 /\ subs = 4 /\ below = 64)
    \/ (g = 6 /\ preempts = 2 /\ subs = 8 /\ below = 128)
    \/ (g = 7 /\ preempts = 1 /\ subs = 16 /\ below = 256)

LEMMA Splits ==
    ASSUME NEW g \in 0..7
    PROVE  Split(g, 2^PreemptBits(g), 2^SubBits(g), 2^(g + 1))
<1>1. PreemptBits(g) = IF g <= 3 THEN 4 ELSE 7 - g
    BY DEF PreemptBits, Lesser, PRIO_BITS
<1>2. SubBits(g) = IF g <= 3 THEN 0 ELSE g - 3
    BY DEF SubBits, PRIO_BITS
<1>3. /\ PreemptBits(g) \in 0..15 /\ IsPower(PreemptBits(g), 2^PreemptBits(g))
      /\ SubBits(g) \in 0..15 /\ IsPower(SubBits(g), 2^SubBits(g))
      /\ IsPower(g + 1, 2^(g + 1))
    <2>1. PreemptBits(g) \in 0..15 /\ SubBits(g) \in 0..15 /\ g + 1 \in 0..15
        BY <1>1, <1>2
    <2> QED BY <2>1, Powers
<1> HIDE DEF PreemptBits, SubBits
<1> QED BY <1>1, <1>2, <1>3 DEF IsPower, Split

(* The two parts of a byte, as the processor divides it, are in the order of the parts
   it was put together from; and they are decoded as they were encoded. *)
LEMMA PartsOfByte ==
    ASSUME NEW g \in 0..7,
           NEW p \in 0..2^PreemptBits(g) - 1, NEW s \in 0..2^SubBits(g) - 1
    PROVE  /\ p * 2^SubBits(g) + s \in 0..15
           /\ NVIC_EncodePriority(g, p, s) = p * 2^SubBits(g) + s
           /\ PriorityByte(p * 2^SubBits(g) + s) = (p * 2^SubBits(g) + s) * 16
           /\ ((p * 2^SubBits(g) + s) * 16) \div 16 = p * 2^SubBits(g) + s
           /\ NVIC_DecodePriority(p * 2^SubBits(g) + s, g) = [preempt |-> p, sub |-> s]
<1> DEFINE P == 2^PreemptBits(g)  S == 2^SubBits(g)
<1>1. Split(g, P, S, 2^(g + 1))
    BY Splits
<1>2. p \in 0..P - 1 /\ s \in 0..S - 1
    OBVIOUS
<1>3. /\ NVIC_EncodePriority(g, p, s) = ((p % P) * S) + (s % S)
      /\ NVIC_DecodePriority(p * S + s, g)
           = [preempt |-> ((p * S + s) \div S) % P, sub |-> (p * S + s) % S]
    BY DEF NVIC_EncodePriority, NVIC_DecodePriority
<1> HIDE DEF P, S
<1>4. p * S + s \in 0..15 /\ p % P = p /\ s % S = s
    BY <1>1, <1>2 DEF Split
<1>5. ((p * S + s) \div S) % P = p /\ (p * S + s) % S = s
    <2>1. p \in 0..15 /\ s \in 0..15 /\ s < S /\ S \in {1, 2, 4, 8, 16}
        BY <1>1, <1>2 DEF Split
    <2>2. (p * S + s) \div S = p /\ (p * S + s) % S = s
        BY <2>1
    <2> QED BY <1>4, <2>2
<1>6. 2^(8 - PRIO_BITS) = 16
    BY DEF PRIO_BITS
<1>7. \A n \in 0..15 : ((n * 16) % 256) = n * 16 /\ (n * 16) \div 16 = n
    OBVIOUS
<1>8. PriorityByte(p * S + s) = (p * S + s) * 16
    BY <1>4, <1>6, <1>7 DEF PriorityByte
<1> QED BY <1>3, <1>4, <1>5, <1>7, <1>8 DEF P, S

Encodes(x, g, p, s) ==
    /\ p \in 0..2^PreemptBits(g) - 1 /\ s \in 0..2^SubBits(g) - 1
    /\ x = (p * 2^SubBits(g) + s) * 16

(* Bytes x and y, as the processor divides them, are in the order of p and q. *)
InOrder(x, p, s, y, q, d) ==
    /\ x \div d \in Nat
    /\ (x \div d < y \div d) <=> p < q
    /\ (x \div d = y \div d) <=> p = q
    /\ x % d = s * 16

LEMMA OrderOfBytes ==
    ASSUME NEW g \in 0..7, NEW x, NEW p, NEW s, Encodes(x, g, p, s),
           NEW y, NEW q, NEW t, Encodes(y, g, q, t)
    PROVE  InOrder(x, p, s, y, q, 2^(g + 1))
<1> DEFINE P == 2^PreemptBits(g)  S == 2^SubBits(g)  D == 2^(g + 1)
<1>1. Split(g, P, S, D)
    BY Splits
<1>2. p \in 0..P - 1 /\ s \in 0..S - 1 /\ q \in 0..P - 1 /\ t \in 0..S - 1
      /\ x = (p * S + s) * 16 /\ y = (q * S + t) * 16
    BY DEF Encodes
<1> HIDE DEF P, S, D
<1>3. ASSUME NEW a \in 0..P - 1, NEW b \in 0..S - 1, NEW z, z = (a * S + b) * 16
      PROVE  /\ z \div D = a * (IF g = 0 THEN 8 ELSE IF g = 1 THEN 4 ELSE
                                IF g = 2 THEN 2 ELSE 1)
             /\ z % D = b * 16
    <2>1. CASE g \in 0..3
        <3>1. b = 0 /\ a \in 0..15 /\ z = a * 16
            BY <1>1, <1>3, <2>1 DEF Split
        <3> QED BY <1>1, <2>1, <3>1 DEF Split
    <2>2. CASE g \in 4..7
        <3>1. a \in 0..7 /\ b \in 0..15 /\ D = S * 16 /\ S \in {2, 4, 8, 16} /\ b < S
            BY <1>1, <1>3, <2>2 DEF Split
        <3>2. z \div D = a /\ z % D = b * 16
            BY <1>3, <3>1
        <3> QED BY <2>2, <3>1, <3>2
    <2> QED BY <2>1, <2>2
<1>4. /\ x \div D \in Nat /\ x % D = s * 16
      /\ (x \div D < y \div D) <=> p < q
      /\ (x \div D = y \div D) <=> p = q
    <2>1. /\ x \div D = p * (IF g = 0 THEN 8 ELSE IF g = 1 THEN 4 ELSE
                             IF g = 2 THEN 2 ELSE 1)
          /\ y \div D = q * (IF g = 0 THEN 8 ELSE IF g = 1 THEN 4 ELSE
                             IF g = 2 THEN 2 ELSE 1)
          /\ x % D = s * 16
        BY <1>2, <1>3
    <2>2. p \in Nat /\ q \in Nat
        BY <1>1, <1>2 DEF Split
    <2> QED BY <2>1, <2>2
<1> QED BY <1>4 DEF D, InOrder

----------------------------------------------------------------------------------------
(* The registers of one bit for each interrupt, and the field of the grouping *)

(* Every device has a bit in one of three words, and no two have the same. *)
LEMMA PlaceOfBit ==
    ASSUME NEW irq \in Device
    PROVE  WordOf(irq) \in 0..2 /\ BitOf(irq) \subseteq 0..31
<1>1. IRQn_Type[irq] \in 0..85
    BY OneNumberEach DEF Device
<1> QED BY <1>1 DEF WordOf, BitOf

LEMMA OwnBit ==
    ASSUME NEW irq \in Device, NEW other \in Device, WordOf(irq) = WordOf(other),
           BitOf(irq) \cap BitOf(other) # {}
    PROVE  irq = other
<1> DEFINE m == IRQn_Type[irq]  n == IRQn_Type[other]
<1>1. m \in 0..85 /\ n \in 0..85
    BY OneNumberEach DEF Device
<1>2. m \div 32 = n \div 32 /\ m % 32 = n % 32
    BY DEF WordOf, BitOf
<1> HIDE DEF m, n
<1>3. m = n
    BY <1>1, <1>2
<1> QED BY <1>3, OneNumberEach DEF Device, m, n

(* Setting and clearing the bit of one interrupt leaves the others. *)
Sets(new, words, irq) == new = [words EXCEPT ![WordOf(irq)] = @ \cup BitOf(irq)]
Clears(new, words, irq) == new = [words EXCEPT ![WordOf(irq)] = @ \ BitOf(irq)]

LEMMA SetsOwnBit ==
    ASSUME NEW words \in Words, NEW irq \in Device,
           NEW new, Sets(new, words, irq)
    PROVE  /\ new \in Words
           /\ \A other \in Device :
                 Marked(new, other) <=> (other = irq \/ Marked(words, other))
<1>1. WordOf(irq) \in 0..2 /\ BitOf(irq) \subseteq 0..31
    BY PlaceOfBit
<1>2. new \in Words
    BY <1>1 DEF Words, Sets
<1>3. ASSUME NEW other \in Device
      PROVE  Marked(new, other) <=> (other = irq \/ Marked(words, other))
    <2>1. WordOf(other) \in 0..2
        BY PlaceOfBit
    <2>2. CASE WordOf(other) = WordOf(irq)
        <3>1. new[WordOf(other)] = words[WordOf(other)] \cup BitOf(irq)
            BY <1>1, <2>2 DEF Words, Sets
        <3>2. other # irq => BitOf(other) \cap BitOf(irq) = {}
            BY <2>2, OwnBit
        <3> QED BY <3>1, <3>2 DEF Marked
    <2>3. CASE WordOf(other) # WordOf(irq)
        <3>1. new[WordOf(other)] = words[WordOf(other)]
            BY <1>1, <2>1, <2>3 DEF Words, Sets
        <3> QED BY <2>3, <3>1 DEF Marked
    <2> QED BY <2>2, <2>3
<1> QED BY <1>2, <1>3

LEMMA ClearsOwnBit ==
    ASSUME NEW words \in Words, NEW irq \in Device,
           NEW new, Clears(new, words, irq)
    PROVE  /\ new \in Words
           /\ \A other \in Device :
                 Marked(new, other) <=> (other # irq /\ Marked(words, other))
<1>1. WordOf(irq) \in 0..2 /\ BitOf(irq) \subseteq 0..31
    BY PlaceOfBit
<1>2. new \in Words
    BY <1>1 DEF Words, Clears
<1>3. ASSUME NEW other \in Device
      PROVE  Marked(new, other) <=> (other # irq /\ Marked(words, other))
    <2>1. WordOf(other) \in 0..2
        BY PlaceOfBit
    <2>2. CASE WordOf(other) = WordOf(irq)
        <3>1. new[WordOf(other)] = words[WordOf(other)] \ BitOf(irq)
            BY <1>1, <2>2 DEF Words, Clears
        <3>2. other # irq => BitOf(other) \cap BitOf(irq) = {}
            BY <2>2, OwnBit
        <3>3. BitOf(irq) # {}
            BY DEF BitOf
        <3> QED BY <3>1, <3>2, <3>3 DEF Marked
    <2>3. CASE WordOf(other) # WordOf(irq)
        <3>1. new[WordOf(other)] = words[WordOf(other)]
            BY <1>1, <2>1, <2>3 DEF Words, Clears
        <3> QED BY <2>3, <3>1 DEF Marked
    <2> QED BY <2>2, <2>3
<1> QED BY <1>2, <1>3

LEMMA NothingMarked ==
    NoBits \in Words /\ \A irq \in Device : ~Marked(NoBits, irq)
<1>1. NoBits \in Words
    BY DEF NoBits, Words
<1>2. ASSUME NEW irq \in Device PROVE ~Marked(NoBits, irq)
    BY PlaceOfBit DEF Marked, NoBits, BitOf
<1> QED BY <1>1, <1>2

(* A grouping is three bits, which lie above the first eight of AIRCR. *)
LEMMA GroupBits ==
    ASSUME NEW g \in 0..7
    PROVE  Word(g) \subseteq 0..2 /\ Number(Word(g)) = g
<1>1. Word(g) \subseteq 0..3 - 1 /\ g \in 0..255
    <2>1. 2^3 = 8
        OBVIOUS
    <2>2. g \in 0..2^3 - 1 /\ 3 \in 0..8
        BY <2>1
    <2> QED BY <2>2, BitsOfWord
<1> QED BY <1>1, NumberOfWord

LEMMA ShiftedBack ==
    ASSUME NEW value \in SUBSET (0..15), NEW n \in Nat
    PROVE  ShiftRight({b + n : b \in value}, n) = value
<1>1. ASSUME NEW b \in value PROVE b \in ShiftRight({c + n : c \in value}, n)
    <2>1. b + n \in {c + n : c \in value} /\ b = (b + n) - n /\ b \in 0..31
        OBVIOUS
    <2> QED BY <2>1 DEF ShiftRight, Bits
<1>2. ASSUME NEW b \in ShiftRight({c + n : c \in value}, n) PROVE b \in value
    <2>1. PICK c \in value : b = (c + n) - n
        BY DEF ShiftRight
    <2>2. b = c
        BY <2>1
    <2> QED BY <2>2
<1> QED BY <1>1, <1>2

(* The grouping is read back from AIRCR, and a new one replaces it. *)
LEMMA ReadGroup ==
    ASSUME group \in 0..7, prigroup = {b + 8 : b \in Word(group)}
    PROVE  /\ NVIC_GetPriorityGrouping = group
           /\ Number(ShiftRight(prigroup, 8)) = group
<1>1. Word(group) \subseteq 0..2 /\ Number(Word(group)) = group
    BY GroupBits
<1>2. ShiftRight(prigroup, 8) = Word(group)
    <2>1. Word(group) \in SUBSET (0..15) /\ 8 \in Nat
        BY <1>1
    <2> QED BY <2>1, ShiftedBack
<1>3. ReadAIRCR \cap SCB_AIRCR.PRIGROUP.mask = prigroup
    BY <1>1 DEF ReadAIRCR, VAL2FLD, SCB_AIRCR, Run
<1> QED BY <1>1, <1>2, <1>3 DEF NVIC_GetPriorityGrouping, FLD2VAL

LEMMA SetGroup ==
    ASSUME group \in 0..7, prigroup = {b + 8 : b \in Word(group)}, NEW g \in 0..7,
           NVIC_SetPriorityGrouping(g)
    PROVE  prigroup' = {b + 8 : b \in Word(g)}
<1> DEFINE key == VAL2FLD(16, SCB_AIRCR.VECTKEY.mask, Word(\h5FA))
           bits == ShiftLeft(Word(g % 8), 8)
           word == ((ReadAIRCR \ (SCB_AIRCR.VECTKEY.mask \cup SCB_AIRCR.PRIGROUP.mask)) \cup key)
                     \cup bits
<1>1. Word(group) \subseteq 0..2 /\ Word(g) \subseteq 0..2 /\ (g % 8) = g
    BY GroupBits
<1> DEFINE letters == Word(\h5FA)
<1>0. letters \subseteq 0..15
    BY WordIn16
<1>2. bits = {b + 8 : b \in Word(g)} /\ bits \subseteq 8..10
    BY <1>1 DEF ShiftLeft, Bits
<1>3. key = {b + 16 : b \in letters}
    BY <1>0 DEF VAL2FLD, ShiftLeft, SCB_AIRCR, Run, Bits
<1>4. ReadAIRCR \ (SCB_AIRCR.VECTKEY.mask \cup SCB_AIRCR.PRIGROUP.mask) = {}
    BY <1>1 DEF ReadAIRCR, VAL2FLD, SCB_AIRCR, Run
<1>5. WriteAIRCR(word)
    BY DEF NVIC_SetPriorityGrouping
<1>6. word = key \cup bits
    BY <1>4
<1> HIDE DEF key, bits, word, letters
<1>7. FLD2VAL(16, SCB_AIRCR.VECTKEY.mask, word) = letters
    <2>1. word \cap SCB_AIRCR.VECTKEY.mask = key
        <3>1. ASSUME NEW k \in key PROVE k \in 16..31
            <4>1. PICK b \in letters : k = b + 16
                BY <1>3
            <4>2. b \in 0..15
                BY <1>0
            <4> QED BY <4>1, <4>2
        <3>2. SCB_AIRCR.VECTKEY.mask = 16..31
            BY DEF SCB_AIRCR, Run
        <3> QED BY <1>2, <1>6, <3>1, <3>2
    <2>2. letters \in SUBSET (0..15) /\ 16 \in Nat
        BY <1>0
    <2> QED BY <1>3, <2>1, <2>2, ShiftedBack DEF FLD2VAL
<1>8. word \cap SCB_AIRCR.PRIGROUP.mask = bits
    BY <1>2, <1>3, <1>6, <1>0 DEF SCB_AIRCR, Run
<1> QED BY <1>2, <1>5, <1>7, <1>8 DEF WriteAIRCR, letters

(* The priority byte of each exception in SCB. *)
LEMMA PlaceOfByte ==
    ASSUME NEW irq \in Configurable, irq \notin Device
    PROVE  /\ ShpOf(irq) \in 0..11
           /\ \A other \in Configurable \ Device :
                 ShpOf(irq) = ShpOf(other) => irq = other
<1>1. ASSUME NEW i \in Configurable \ Device
      PROVE  IRQn_Type[i] \in -12..-1 /\ ShpOf(i) = IRQn_Type[i] + 12
    <2>1. IRQn_Type[i] \in -14..-1
        BY OneNumberEach DEF Configurable, Device
    <2>2. IRQn_Type[i] \notin {-14, -13}
        BY DEF Configurable, IRQn_Type
    <2>3. IRQn_Type[i] \in -12..-1
        BY <2>1, <2>2
    <2> QED BY <2>3 DEF ShpOf
<1>2. \A i \in Configurable \ Device : i \in DOMAIN IRQn_Type
    BY DEF Configurable
<1> QED BY <1>1, <1>2, OneNumberEach

----------------------------------------------------------------------------------------
(* The invariant of the interrupts holds *)

LEMMA Fresh == Init => NvicInv
<1> SUFFICES ASSUME Init PROVE NvicInv
    OBVIOUS
<1> USE DEF Init
<1>1. Word(0) = {}
    <2>1. 2^0 = 1
        OBVIOUS
    <2>2. 0 \in 0..8 /\ 0 \in 0..2^0 - 1
        BY <2>1
    <2>3. Word(0) \subseteq 0..0 - 1
        BY <2>2, BitsOfWord
    <2> QED BY <2>3
<1>2. wanted \in [used -> Orders]
    BY DEF NothingAsked, Orders
<1>3. NvicTypeOK
    <2>1. prigroup = {b + 8 : b \in Word(group)}
        BY <1>1
    <2>2. ip \in [used \cap Device -> Nat] /\ shp \in [0..11 -> Nat]
        BY DEF ZeroBytes
    <2>3. active \in Seq(Frames)
        OBVIOUS
    <2>4. iser \in Words /\ ispr \in Words
        BY NothingMarked
    <2>5. used \in Pairs /\ group \in 0..7 /\ icsr \subseteq used \ Device /\ reload \in Nat
        OBVIOUS
    <2> QED BY <1>2, <2>1, <2>2, <2>3, <2>4, <2>5, Zenon DEF NvicTypeOK
<1>4. BitsAgree
    BY NothingMarked DEF BitsAgree, NothingAsked
<1>5. BytesAgree
    <2>1. Split(group, 2^PreemptBits(group), 2^SubBits(group), 2^(group + 1))
        BY Splits
    <2>2. 2^PreemptBits(group) \in Nat \ {0} /\ 2^SubBits(group) \in Nat \ {0}
        BY <2>1 DEF Split
    <2>3. ASSUME NEW irq \in used \cap Configurable
          PROVE  wanted[irq].preempt = 0 /\ wanted[irq].sub = 0 /\ Byte(irq) = 0
        <3>1. wanted[irq].preempt = 0 /\ wanted[irq].sub = 0
            BY DEF NothingAsked
        <3>2. CASE irq \in Device
            BY <3>1, <3>2 DEF Byte, ZeroBytes
        <3>3. CASE irq \notin Device
            <4>1. ShpOf(irq) \in 0..11
                BY <3>3, PlaceOfByte
            <4> QED BY <3>1, <3>3, <4>1 DEF Byte, ZeroBytes
        <3> QED BY <3>1, <3>2, <3>3
    <2>4. ASSUME NEW irq \in used \ Configurable
          PROVE  wanted[irq].preempt = -2 /\ wanted[irq].sub = 0
        BY DEF NothingAsked
    <2>5. \A irq \in used \cap Configurable :
              0 \in 0..2^PreemptBits(group) - 1 /\ 0 \in 0..2^SubBits(group) - 1
              /\ (0 * 2^SubBits(group) + 0) * 16 = 0
        BY <2>2
    <2> QED BY <2>3, <2>4, <2>5 DEF BytesAgree
<1> QED BY <1>3, <1>4, <1>5 DEF NvicInv

(* What one call asks for leaves the other parts, and the other interrupts. *)
LEMMA AsksEnabled ==
    ASSUME wanted \in [used -> Orders], NEW irq \in used, NEW v \in BOOLEAN,
           NEW new, new = [wanted EXCEPT ![irq].enabled = v]
    PROVE  /\ new \in [used -> Orders]
           /\ \A o \in used : /\ new[o].enabled = IF o = irq THEN v ELSE wanted[o].enabled
                              /\ new[o].pending = wanted[o].pending
                              /\ new[o].preempt = wanted[o].preempt
                              /\ new[o].sub = wanted[o].sub
BY DEF Orders

LEMMA AsksPriority ==
    ASSUME wanted \in [used -> Orders], NEW irq \in used, NEW p \in Int, NEW s \in Nat,
           Asks(irq, p, s)
    PROVE  /\ wanted' \in [used -> Orders]
           /\ \A o \in used :
                 /\ wanted'[o].preempt = IF o = irq THEN p ELSE wanted[o].preempt
                 /\ wanted'[o].sub = IF o = irq THEN s ELSE wanted[o].sub
                 /\ wanted'[o].enabled = wanted[o].enabled
                 /\ wanted'[o].pending = wanted[o].pending
BY DEF Orders, Asks

(* A step that changes no byte and asks for no priority. *)
LEMMA SameBytes ==
    ASSUME NvicInv, UNCHANGED <<used, ip, shp, group>>,
           \A o \in used : /\ wanted'[o].preempt = wanted[o].preempt
                           /\ wanted'[o].sub = wanted[o].sub
    PROVE  BytesAgree'
<1>1. \A o \in used : Byte(o)' = Byte(o)
    BY DEF Byte
<1> QED BY <1>1 DEF NvicInv, BytesAgree

(* A step that stores and asks for one priority. *)
LEMMA StoresOwnByte ==
    ASSUME NvicInv, NEW irq \in used \cap Configurable,
           NEW p \in 0..2^PreemptBits(group) - 1, NEW s \in 0..2^SubBits(group) - 1,
           StorePriority(irq, p * 2^SubBits(group) + s), Asks(irq, p, s),
           UNCHANGED <<used, group>>
    PROVE  /\ ip' \in [used \cap Device -> Nat] /\ shp' \in [0..11 -> Nat]
           /\ BytesAgree'
<1> DEFINE byte == (p * 2^SubBits(group) + s) * 16
<1>1. group \in 0..7 /\ wanted \in [used -> Orders]
      /\ ip \in [used \cap Device -> Nat] /\ shp \in [0..11 -> Nat]
    BY DEF NvicInv, NvicTypeOK
<1>2. PriorityByte(p * 2^SubBits(group) + s) = byte /\ byte \in Nat
    <2>1. p * 2^SubBits(group) + s \in 0..15 /\ PriorityByte(p * 2^SubBits(group) + s) = byte
        BY <1>1, PartsOfByte
    <2>2. \A n \in 0..15 : n * 16 \in Nat
        OBVIOUS
    <2> QED BY <2>1, <2>2
<1>3. p \in Int /\ s \in Nat
    <2>1. Split(group, 2^PreemptBits(group), 2^SubBits(group), 2^(group + 1))
        BY <1>1, Splits
    <2> QED BY <2>1 DEF Split
<1>4. \A o \in used : /\ wanted'[o].preempt = IF o = irq THEN p ELSE wanted[o].preempt
                      /\ wanted'[o].sub = IF o = irq THEN s ELSE wanted[o].sub
    BY <1>1, <1>3, AsksPriority
<1> HIDE DEF byte
<1>5. IF irq \in Device
        THEN ip' = [ip EXCEPT ![irq] = byte] /\ shp' = shp
        ELSE shp' = [shp EXCEPT ![ShpOf(irq)] = byte] /\ ip' = ip
    BY <1>2 DEF StorePriority
<1>6. ip' \in [used \cap Device -> Nat] /\ shp' \in [0..11 -> Nat]
    BY <1>1, <1>2, <1>5
<1>7. ASSUME NEW o \in used \cap Configurable
      PROVE  Byte(o)' = IF o = irq THEN byte ELSE Byte(o)
    <2>1. Byte(o)' = IF o \in Device THEN ip'[o] ELSE shp'[ShpOf(o)]
        BY DEF Byte
    <2>2. CASE o \in Device
        BY <1>1, <1>5, <2>1, <2>2 DEF Byte
    <2>3. CASE o \notin Device
        <3>1. ShpOf(o) \in 0..11
              /\ (irq \notin Device /\ ShpOf(o) = ShpOf(irq) => o = irq)
            BY <2>3, PlaceOfByte
        <3> QED BY <1>1, <1>5, <2>1, <2>3, <3>1 DEF Byte
    <2> QED BY <2>2, <2>3
<1>8. BytesAgree'
    <2>1. ASSUME NEW o \in used \cap Configurable
          PROVE  /\ wanted'[o].preempt \in 0..2^PreemptBits(group) - 1
                 /\ wanted'[o].sub \in 0..2^SubBits(group) - 1
                 /\ Byte(o)' = (wanted'[o].preempt * 2^SubBits(group) + wanted'[o].sub)
                                  * 16
        <3>1. CASE o = irq
            BY <1>4, <1>7, <3>1 DEF byte
        <3>2. CASE o # irq
            BY <1>4, <1>7, <3>2 DEF NvicInv, BytesAgree
        <3> QED BY <3>1, <3>2
    <2>2. \A o \in used \ Configurable : wanted'[o].preempt = -2 /\ wanted'[o].sub = 0
        BY <1>4 DEF NvicInv, BytesAgree
    <2> QED BY <2>1, <2>2 DEF BytesAgree
<1> QED BY <1>6, <1>8

(* The invariant is kept, call by call. *)
LEMMA GroupingKeeps ==
    ASSUME NvicInv, NEW g \in 0..7, NVIC_SetPriorityGrouping(g)
    PROVE  NvicInv'
<1>1. /\ UNCHANGED <<used, iser, ispr, icsr, ip, shp, reload, active, wanted>>
      /\ group' = g /\ Unconfigured
    BY DEF NVIC_SetPriorityGrouping
<1>2. prigroup' = {b + 8 : b \in Word(g)}
    BY SetGroup DEF NvicInv, NvicTypeOK
<1>3. NvicTypeOK'
    BY <1>1, <1>2 DEF NvicInv, NvicTypeOK, Frames
<1>4. BitsAgree'
    BY <1>1 DEF NvicInv, BitsAgree, Marked
<1>5. BytesAgree'
    <2>1. ASSUME NEW irq \in used \cap Configurable
          PROVE  wanted[irq].preempt = 0 /\ wanted[irq].sub = 0 /\ Byte(irq) = 0
        <3>1. Split(group, 2^PreemptBits(group), 2^SubBits(group), 2^(group + 1))
            BY Splits DEF NvicInv, NvicTypeOK
        <3>2. wanted[irq].preempt = 0 /\ wanted[irq].sub = 0
            BY <1>1, <3>1 DEF NvicInv, BytesAgree, Unconfigured, Split
        <3>3. Byte(irq) = (0 * 2^SubBits(group) + 0) * 16
            BY <3>2 DEF NvicInv, BytesAgree
        <3>4. 2^SubBits(group) \in Nat
            BY <3>1 DEF Split
        <3> QED BY <3>2, <3>3, <3>4
    <2>2. /\ 0 \in 0..2^PreemptBits(g) - 1 /\ 0 \in 0..2^SubBits(g) - 1
          /\ (0 * 2^SubBits(g) + 0) * 16 = 0
        BY Splits DEF Split
    <2>3. \A irq \in used : Byte(irq)' = Byte(irq)
        BY <1>1 DEF Byte
    <2> QED BY <1>1, <2>1, <2>2, <2>3 DEF NvicInv, BytesAgree
<1> QED BY <1>3, <1>4, <1>5 DEF NvicInv

LEMMA PriorityKeeps ==
    ASSUME NvicInv, NEW irq \in used, NEW preempt \in Nat, NEW sub \in Nat,
           NVIC_SetPriority(irq, preempt, sub)
    PROVE  NvicInv'
<1>1. /\ UNCHANGED <<used, iser, ispr, icsr, prigroup, reload, active, group>>
      /\ irq \in used \cap Configurable /\ Asks(irq, preempt, sub)
      /\ preempt < 2^PreemptBits(group) /\ sub < 2^SubBits(group)
    BY DEF NVIC_SetPriority
<1>2. group \in 0..7 /\ wanted \in [used -> Orders]
    BY DEF NvicInv, NvicTypeOK
<1>3. preempt \in 0..2^PreemptBits(group) - 1 /\ sub \in 0..2^SubBits(group) - 1
    BY <1>1, <1>2, Splits DEF Split
<1>4. NVIC_GetPriorityGrouping = group
    BY ReadGroup DEF NvicInv, NvicTypeOK
<1>5. StorePriority(irq, preempt * 2^SubBits(group) + sub)
    BY <1>2, <1>3, <1>4, PartsOfByte DEF NVIC_SetPriority
<1>6. ip' \in [used \cap Device -> Nat] /\ shp' \in [0..11 -> Nat] /\ BytesAgree'
    BY <1>1, <1>3, <1>5, StoresOwnByte
<1>7. /\ wanted' \in [used -> Orders]
      /\ \A o \in used : /\ wanted'[o].enabled = wanted[o].enabled
                         /\ wanted'[o].pending = wanted[o].pending
    BY <1>1, <1>2, AsksPriority
<1>8. NvicTypeOK'
    BY <1>1, <1>6, <1>7 DEF NvicInv, NvicTypeOK, Frames
<1>9. BitsAgree'
    BY <1>1, <1>7 DEF NvicInv, BitsAgree, Marked
<1> QED BY <1>6, <1>8, <1>9 DEF NvicInv

LEMMA TimerKeeps ==
    ASSUME NvicInv, NEW ticks, SysTick_Config(ticks)
    PROVE  NvicInv'
<1> DEFINE p == 2^PreemptBits(group) - 1  s == 2^SubBits(group) - 1
<1>1. /\ UNCHANGED <<used, iser, ispr, icsr, prigroup, active, group>>
      /\ "SysTick" \in used /\ Asks("SysTick", p, s)
      /\ ticks \in 1..2^24 /\ reload' = ticks - 1
      /\ StorePriority("SysTick", 2^PRIO_BITS - 1)
    BY DEF SysTick_Config
<1>2. group \in 0..7 /\ wanted \in [used -> Orders]
    BY DEF NvicInv, NvicTypeOK
<1>3. p \in 0..2^PreemptBits(group) - 1 /\ s \in 0..2^SubBits(group) - 1
      /\ p * 2^SubBits(group) + s = 15 /\ p \in Int /\ s \in Nat
    <2>1. Split(group, 2^PreemptBits(group), 2^SubBits(group), 2^(group + 1))
        BY <1>2, Splits
    <2> QED BY <2>1 DEF Split
<1>4. 2^PRIO_BITS - 1 = 15
    BY DEF PRIO_BITS
<1>5. StorePriority("SysTick", p * 2^SubBits(group) + s)
    BY <1>1, <1>3, <1>4
<1>6. "SysTick" \in used \cap Configurable
    BY <1>1 DEF Configurable, IRQn_Type
<1>7. ip' \in [used \cap Device -> Nat] /\ shp' \in [0..11 -> Nat] /\ BytesAgree'
    BY <1>1, <1>3, <1>5, <1>6, StoresOwnByte
<1>8. /\ wanted' \in [used -> Orders]
      /\ \A o \in used : /\ wanted'[o].enabled = wanted[o].enabled
                         /\ wanted'[o].pending = wanted[o].pending
    BY <1>1, <1>2, <1>3, AsksPriority
<1>9. reload' \in Nat
    BY <1>1
<1>10. NvicTypeOK'
    BY <1>1, <1>7, <1>8, <1>9 DEF NvicInv, NvicTypeOK, Frames
<1>11. BitsAgree'
    BY <1>1, <1>8 DEF NvicInv, BitsAgree, Marked
<1> QED BY <1>7, <1>10, <1>11 DEF NvicInv

LEMMA EnableKeeps ==
    ASSUME NvicInv, NEW irq \in used, NVIC_EnableIRQ(irq) \/ NVIC_DisableIRQ(irq)
    PROVE  NvicInv'
<1>1. UNCHANGED <<used, ispr, icsr, ip, shp, prigroup, reload, active, group>>
    BY DEF NVIC_EnableIRQ, NVIC_DisableIRQ
<1>2. irq \in Device /\ wanted \in [used -> Orders] /\ iser \in Words
    BY DEF NVIC_EnableIRQ, NVIC_DisableIRQ, NvicInv, NvicTypeOK
<1>3. PICK v \in BOOLEAN :
          /\ wanted' = [wanted EXCEPT ![irq].enabled = v]
          /\ iser' \in Words
          /\ \A o \in Device : Marked(iser', o) <=> (IF o = irq THEN v ELSE Marked(iser, o))
    <2>1. CASE NVIC_EnableIRQ(irq)
        <3>1. /\ wanted' = [wanted EXCEPT ![irq].enabled = TRUE]
              /\ Sets(iser', iser, irq)
            BY <2>1 DEF NVIC_EnableIRQ, Sets
        <3>2. /\ iser' \in Words
              /\ \A o \in Device : Marked(iser', o) <=> (o = irq \/ Marked(iser, o))
            BY <1>2, <3>1, SetsOwnBit
        <3>3. \A o \in Device :
                 Marked(iser', o) <=> (IF o = irq THEN TRUE ELSE Marked(iser, o))
            BY <3>2
        <3> QED BY <3>1, <3>2, <3>3, Zenon
    <2>2. CASE NVIC_DisableIRQ(irq)
        <3>1. /\ wanted' = [wanted EXCEPT ![irq].enabled = FALSE]
              /\ Clears(iser', iser, irq)
            BY <2>2 DEF NVIC_DisableIRQ, Clears
        <3>2. /\ iser' \in Words
              /\ \A o \in Device : Marked(iser', o) <=> (o # irq /\ Marked(iser, o))
            BY <1>2, <3>1, ClearsOwnBit
        <3>3. \A o \in Device :
                 Marked(iser', o) <=> (IF o = irq THEN FALSE ELSE Marked(iser, o))
            BY <3>2
        <3> QED BY <3>1, <3>2, <3>3, Zenon
    <2> QED BY <2>1, <2>2
<1>4. /\ wanted' \in [used -> Orders]
      /\ \A o \in used : /\ wanted'[o].enabled = IF o = irq THEN v ELSE wanted[o].enabled
                         /\ wanted'[o].pending = wanted[o].pending
                         /\ wanted'[o].preempt = wanted[o].preempt
                         /\ wanted'[o].sub = wanted[o].sub
    BY <1>2, <1>3, AsksEnabled
<1>5. NvicTypeOK'
    BY <1>1, <1>3, <1>4 DEF NvicInv, NvicTypeOK, Frames
<1>6. BitsAgree'
    <2>1. \A o \in Device : Marked(iser, o)' <=> Marked(iser', o)
        BY DEF Marked
    <2> QED BY <1>1, <1>2, <1>3, <1>4, <2>1 DEF NvicInv, BitsAgree, Marked
<1>7. BytesAgree'
    BY <1>1, <1>4, SameBytes
<1> QED BY <1>5, <1>6, <1>7 DEF NvicInv

LEMMA PendingKeeps ==
    ASSUME NvicInv, NEW irq \in used, NEW v \in BOOLEAN,
           wanted' = [wanted EXCEPT ![irq].pending = v],
           UNCHANGED <<used, iser, ip, shp, prigroup, group>>, reload' \in Nat,
           active' \in Seq(Frames), icsr' \subseteq used \ Device, ispr' \in Words,
           irq \in Device => /\ icsr' = icsr
                             /\ \A o \in Device : Marked(ispr', o) <=>
                                   (IF o = irq THEN v ELSE Marked(ispr, o)),
           irq \notin Device => /\ ispr' = ispr
                                /\ \A o \in used \ Device : o \in icsr' <=>
                                      (IF o = irq THEN v ELSE o \in icsr)
    PROVE  NvicInv'
<1>1. wanted \in [used -> Orders]
    BY DEF NvicInv, NvicTypeOK
<1>2. /\ wanted' \in [used -> Orders]
      /\ \A o \in used : /\ wanted'[o].pending = IF o = irq THEN v ELSE wanted[o].pending
                         /\ wanted'[o].enabled = wanted[o].enabled
                         /\ wanted'[o].preempt = wanted[o].preempt
                         /\ wanted'[o].sub = wanted[o].sub
    BY <1>1 DEF Orders
<1>3. NvicTypeOK'
    BY <1>2 DEF NvicInv, NvicTypeOK, Frames
<1>4. BitsAgree'
    <2>1. \A o \in Device : (Marked(iser, o)' <=> Marked(iser, o))
                            /\ (Marked(ispr, o)' <=> Marked(ispr', o))
        BY DEF Marked
    <2>2. CASE irq \in Device
        BY <1>2, <2>1, <2>2 DEF NvicInv, BitsAgree
    <2>3. CASE irq \notin Device
        <3>1. \A o \in Device : Marked(ispr', o) <=> Marked(ispr, o)
            BY <2>3 DEF Marked
        <3> QED BY <1>2, <2>1, <2>3, <3>1 DEF NvicInv, BitsAgree
    <2> QED BY <2>2, <2>3
<1>5. BytesAgree'
    BY <1>2, SameBytes
<1> QED BY <1>3, <1>4, <1>5 DEF NvicInv

LEMMA SetPendingKeeps ==
    ASSUME NvicInv, NEW irq \in used, NVIC_SetPendingIRQ(irq)
    PROVE  NvicInv'
<1>1. /\ wanted' = [wanted EXCEPT ![irq].pending = TRUE]
      /\ UNCHANGED <<used, iser, icsr, ip, shp, prigroup, reload, active, group>>
      /\ irq \in Device /\ Sets(ispr', ispr, irq)
    BY DEF NVIC_SetPendingIRQ, Sets
<1>2. /\ ispr \in Words /\ reload' \in Nat /\ active' \in Seq(Frames)
      /\ icsr' \subseteq used \ Device
    BY <1>1 DEF NvicInv, NvicTypeOK
<1>3. /\ ispr' \in Words
      /\ \A o \in Device : Marked(ispr', o) <=> (o = irq \/ Marked(ispr, o))
    BY <1>1, <1>2, SetsOwnBit
<1>4. \A o \in Device : Marked(ispr', o) <=> (IF o = irq THEN TRUE ELSE Marked(ispr, o))
    BY <1>3
<1> QED BY <1>1, <1>2, <1>3, <1>4, PendingKeeps

LEMMA ClearPendingKeeps ==
    ASSUME NvicInv, NEW irq \in used, NVIC_ClearPendingIRQ(irq)
    PROVE  NvicInv'
<1>1. /\ wanted' = [wanted EXCEPT ![irq].pending = FALSE]
      /\ UNCHANGED <<used, iser, icsr, ip, shp, prigroup, reload, active, group>>
      /\ irq \in Device /\ Clears(ispr', ispr, irq)
    BY DEF NVIC_ClearPendingIRQ, Clears
<1>2. /\ ispr \in Words /\ reload' \in Nat /\ active' \in Seq(Frames)
      /\ icsr' \subseteq used \ Device
    BY <1>1 DEF NvicInv, NvicTypeOK
<1>3. /\ ispr' \in Words
      /\ \A o \in Device : Marked(ispr', o) <=> (o # irq /\ Marked(ispr, o))
    BY <1>1, <1>2, ClearsOwnBit
<1>4. \A o \in Device : Marked(ispr', o) <=> (IF o = irq THEN FALSE ELSE Marked(ispr, o))
    BY <1>3
<1> QED BY <1>1, <1>2, <1>3, <1>4, PendingKeeps

LEMMA RaiseKeeps ==
    ASSUME NvicInv, NEW irq \in used, RaiseException(irq)
    PROVE  NvicInv'
<1>1. /\ wanted' = [wanted EXCEPT ![irq].pending = TRUE]
      /\ UNCHANGED <<used, iser, ispr, ip, shp, prigroup, reload, active, group>>
      /\ irq \notin Device /\ icsr' = icsr \cup {irq}
    BY DEF RaiseException
<1>2. /\ ispr' \in Words /\ reload' \in Nat /\ active' \in Seq(Frames)
      /\ icsr' \subseteq used \ Device
    BY <1>1 DEF NvicInv, NvicTypeOK
<1>3. \A o \in used \ Device : o \in icsr' <=> (IF o = irq THEN TRUE ELSE o \in icsr)
    BY <1>1
<1> QED BY <1>1, <1>2, <1>3, PendingKeeps

LEMMA EnterKeeps ==
    ASSUME NvicInv, NEW irq \in used, Enter(irq)
    PROVE  NvicInv'
<1>1. /\ wanted' = [wanted EXCEPT ![irq].pending = FALSE]
      /\ UNCHANGED <<used, iser, ip, shp, prigroup, reload, group>>
      /\ icsr' = icsr \ {irq}
      /\ active' = <<[irq |-> irq, handler |-> VectorOf(irq)]>> \o active
      /\ irq \in Device => Clears(ispr', ispr, irq)
      /\ irq \notin Device => ispr' = ispr
    BY DEF Enter, Clears
<1>2. /\ ispr \in Words /\ reload' \in Nat /\ active \in Seq(Frames)
      /\ icsr \subseteq used \ Device /\ irq \in DOMAIN IRQn_Type
    BY <1>1, NvicAssumption DEF NvicInv, NvicTypeOK
<1>3. active' \in Seq(Frames)
    <2>1. [irq |-> irq, handler |-> VectorOf(irq)] \in Frames
        BY <1>2, OwnVector DEF Frames
    <2> QED BY <1>1, <1>2, <2>1
<1>4. /\ ispr' \in Words
      /\ irq \in Device =>
            \A o \in Device : Marked(ispr', o) <=> (IF o = irq THEN FALSE ELSE Marked(ispr, o))
    <2>1. CASE irq \in Device
        <3>1. /\ ispr' \in Words
              /\ \A o \in Device : Marked(ispr', o) <=> (o # irq /\ Marked(ispr, o))
            BY <1>1, <1>2, <2>1, ClearsOwnBit
        <3> QED BY <3>1
    <2>2. CASE irq \notin Device
        BY <1>1, <1>2, <2>2
    <2> QED BY <2>1, <2>2
<1>5. /\ icsr' \subseteq used \ Device
      /\ irq \in Device => icsr' = icsr
      /\ \A o \in used \ Device : o \in icsr' <=> (IF o = irq THEN FALSE ELSE o \in icsr)
    BY <1>1, <1>2
<1> QED BY <1>1, <1>2, <1>3, <1>4, <1>5, PendingKeeps

LEMMA ReturnKeeps ==
    ASSUME NvicInv, Return
    PROVE  NvicInv'
<1>1. /\ UNCHANGED <<used, iser, ispr, icsr, ip, shp, prigroup, reload, wanted, group>>
      /\ active # <<>> /\ active' = Tail(active)
    BY DEF Return
<1>2. active' \in Seq(Frames)
    BY <1>1 DEF NvicInv, NvicTypeOK
<1>3. NvicTypeOK'
    BY <1>1, <1>2 DEF NvicInv, NvicTypeOK, Frames
<1>4. BitsAgree'
    BY <1>1 DEF NvicInv, BitsAgree, Marked
<1>5. BytesAgree'
    BY <1>1, SameBytes
<1> QED BY <1>3, <1>4, <1>5 DEF NvicInv

LEMMA ResetKeeps ==
    ASSUME NvicInv, NVIC_SystemReset
    PROVE  NvicInv'
<1>1. Init'
    BY DEF NVIC_SystemReset, Init, NvicInv, NvicTypeOK, ZeroBytes, NothingAsked
<1>2. (Init => NvicInv)'
    BY Fresh, PTL
<1> QED BY <1>1, <1>2

LEMMA UnchangedKeeps ==
    ASSUME NvicInv, UNCHANGED vars
    PROVE  NvicInv'
<1>1. NvicTypeOK'
    BY DEF vars, NvicInv, NvicTypeOK, Frames
<1>2. BitsAgree'
    BY DEF vars, NvicInv, BitsAgree, Marked
<1>3. BytesAgree'
    BY SameBytes DEF vars
<1> QED BY <1>1, <1>2, <1>3 DEF NvicInv

LEMMA NvicStep == NvicInv /\ [Next]_vars => NvicInv'
<1> SUFFICES ASSUME NvicInv, [Next]_vars PROVE NvicInv'
    OBVIOUS
<1>1. ASSUME NEW g \in Groups, NVIC_SetPriorityGrouping(g) PROVE NvicInv'
    BY <1>1, NvicAssumption, GroupingKeeps
<1>2. ASSUME NEW irq \in used, NEW preempt \in Levels, NEW sub \in Levels,
             NVIC_SetPriority(irq, preempt, sub)
      PROVE  NvicInv'
    BY <1>2, NvicAssumption, PriorityKeeps
<1>3. ASSUME NEW irq \in used, NVIC_EnableIRQ(irq) \/ NVIC_DisableIRQ(irq) PROVE NvicInv'
    BY <1>3, EnableKeeps
<1>4. ASSUME NEW irq \in used, NVIC_SetPendingIRQ(irq) PROVE NvicInv'
    BY <1>4, SetPendingKeeps
<1>5. ASSUME NEW irq \in used, RaiseException(irq) PROVE NvicInv'
    BY <1>5, RaiseKeeps
<1>6. ASSUME NEW irq \in used, NVIC_ClearPendingIRQ(irq) PROVE NvicInv'
    BY <1>6, ClearPendingKeeps
<1>7. ASSUME NEW ticks \in Periods, SysTick_Config(ticks) PROVE NvicInv'
    BY <1>7, TimerKeeps
<1>8. CASE NVIC_SystemReset
    BY <1>8, ResetKeeps
<1>9. ASSUME NEW irq \in used, Enter(irq) PROVE NvicInv'
    BY <1>9, EnterKeeps
<1>10. CASE Return
    BY <1>10, ReturnKeeps
<1>11. CASE UNCHANGED vars
    BY <1>11, UnchangedKeeps
<1> QED BY <1>1, <1>2, <1>3, <1>4, <1>5, <1>6, <1>7, <1>8, <1>9, <1>10, <1>11 DEF Next

(* The registers are what the calls asked for, as NvicInv says it. *)
THEOREM NvicInvariance == Spec => []NvicInv
BY Fresh, NvicStep, PTL DEF Spec

(* The state of the interrupts stays of its type: each word of three has bits of a word,
   and each entry on the stack is an interrupt in use with the handler of its name. *)
THEOREM NvicTypeCorrect == Spec => []NvicTypeOK
<1>1. NvicInv => NvicTypeOK
    BY DEF NvicInv
<1> QED BY <1>1, NvicInvariance, PTL

----------------------------------------------------------------------------------------
(* What the program reads back, and which interrupt is taken *)

(* What the program reads back of an interrupt is what it asked for: whether it is
   enabled and pending, both parts of its priority, and the grouping. *)
THEOREM NvicReadsBack == Spec => []ReadsBack
<1>1. ASSUME NvicInv PROVE ReadsBack
    <2> USE <1>1 DEF NvicInv
    <2>1. NVIC_GetPriorityGrouping = group /\ group \in 0..7 /\ wanted \in [used -> Orders]
        BY ReadGroup DEF NvicTypeOK
    <2>2. ASSUME NEW irq \in used \cap Device
          PROVE  /\ NVIC_GetEnableIRQ(irq) = wanted[irq].enabled
                 /\ NVIC_GetPendingIRQ(irq) = wanted[irq].pending
        <3>1. wanted[irq].enabled \in BOOLEAN /\ wanted[irq].pending \in BOOLEAN
            BY <2>1 DEF Orders
        <3>2. /\ NVIC_GetEnableIRQ(irq) <=> wanted[irq].enabled
              /\ NVIC_GetPendingIRQ(irq) <=> wanted[irq].pending
            BY DEF BitsAgree, Marked, NVIC_GetEnableIRQ, NVIC_GetPendingIRQ
        <3>3. NVIC_GetEnableIRQ(irq) \in BOOLEAN /\ NVIC_GetPendingIRQ(irq) \in BOOLEAN
            BY DEF NVIC_GetEnableIRQ, NVIC_GetPendingIRQ
        <3> QED BY <3>1, <3>2, <3>3, Zenon
    <2>3. ASSUME NEW irq \in used \cap Configurable
          PROVE  NVIC_DecodePriority(NVIC_GetPriority(irq), group)
                   = [preempt |-> wanted[irq].preempt, sub |-> wanted[irq].sub]
        <3> DEFINE p == wanted[irq].preempt  s == wanted[irq].sub
        <3>1. /\ p \in 0..2^PreemptBits(group) - 1 /\ s \in 0..2^SubBits(group) - 1
              /\ Byte(irq) = (p * 2^SubBits(group) + s) * 16
            BY DEF BytesAgree
        <3> HIDE DEF p, s
        <3>2. /\ ((p * 2^SubBits(group) + s) * 16) \div 16 = p * 2^SubBits(group) + s
              /\ NVIC_DecodePriority(p * 2^SubBits(group) + s, group)
                   = [preempt |-> p, sub |-> s]
            BY <2>1, <3>1, PartsOfByte
        <3>3. 2^(8 - PRIO_BITS) = 16
            BY DEF PRIO_BITS
        <3> QED BY <3>1, <3>2, <3>3 DEF NVIC_GetPriority, p, s
    <2> QED BY <2>1, <2>2, <2>3 DEF ReadsBack
<1> QED BY <1>1, NvicInvariance, PTL

(* What is being handled is an interrupt that is used, with its handler. *)
LEMMA StackedFrames ==
    ASSUME NvicInv, NEW k \in DOMAIN active
    PROVE  active[k].irq \in used /\ active[k].handler = HandlerName(active[k].irq)
<1>1. active \in Seq(Frames)
    BY DEF NvicInv, NvicTypeOK
<1>2. k \in 1..Len(active)
    BY <1>1, LenProperties
<1>3. active[k] \in Frames
    BY <1>1, <1>2, ElementOfSeq
<1> QED BY <1>3 DEF Frames

(* The vector table has at the place of every interrupt the handler of its name, so
   what is being handled is handled by it. *)
THEOREM NvicRunsOwnHandler == Spec => []RunsOwnHandler
<1>1. NvicInv => RunsOwnHandler
    BY StackedFrames DEF RunsOwnHandler
<1> QED BY <1>1, NvicInvariance, PTL

(* The processor compares two interrupts as the program would, by what it asked for. *)
LEMMA SameOrder ==
    ASSUME NvicInv, NEW irq \in used, NEW other \in used
    PROVE  /\ GroupPriority(irq) < GroupPriority(other)
                <=> wanted[irq].preempt < wanted[other].preempt
           /\ GroupPriority(irq) = GroupPriority(other)
                <=> wanted[irq].preempt = wanted[other].preempt
           /\ SubPriority(irq) < SubPriority(other) <=> wanted[irq].sub < wanted[other].sub
           /\ SubPriority(irq) = SubPriority(other) <=> wanted[irq].sub = wanted[other].sub
<1> DEFINE D == 2^(group + 1)
           Asked(i) == Encodes(Byte(i), group, wanted[i].preempt, wanted[i].sub)
<1>1. group \in 0..7 /\ Number(ShiftRight(prigroup, 8)) = group
    BY ReadGroup DEF NvicInv, NvicTypeOK
<1>2. ASSUME NEW i \in used
      PROVE  /\ i \in Configurable => /\ GroupPriority(i) = Byte(i) \div D
                                      /\ SubPriority(i) = Byte(i) % D
                                      /\ Asked(i)
             /\ i \notin Configurable => /\ GroupPriority(i) = -2 /\ SubPriority(i) = 0
                                         /\ wanted[i].preempt = -2 /\ wanted[i].sub = 0
    BY <1>1 DEF GroupPriority, SubPriority, NvicInv, BytesAgree, Encodes
<1>3. ASSUME NEW i \in used, Asked(i), NEW j \in used, Asked(j)
      PROVE  /\ Byte(i) \div D \in Nat /\ wanted[i].preempt \in Nat /\ wanted[i].sub \in Nat
             /\ (Byte(i) \div D < Byte(j) \div D) <=> wanted[i].preempt < wanted[j].preempt
             /\ (Byte(i) \div D = Byte(j) \div D) <=> wanted[i].preempt = wanted[j].preempt
             /\ Byte(i) % D = wanted[i].sub * 16
    <2>1. wanted[i].preempt \in Nat /\ wanted[i].sub \in Nat
        BY <1>1, <1>3, Splits DEF Split, Encodes
    <2>2. InOrder(Byte(i), wanted[i].preempt, wanted[i].sub,
                  Byte(j), wanted[j].preempt, 2^(group + 1))
        BY <1>1, <1>3, OrderOfBytes
    <2> QED BY <2>1, <2>2 DEF InOrder
<1> HIDE DEF D, Asked
<1>4. CASE irq \in Configurable /\ other \in Configurable
    BY <1>2, <1>3, <1>4
<1>5. CASE irq \in Configurable /\ other \notin Configurable
    BY <1>2, <1>3, <1>5
<1>6. CASE irq \notin Configurable /\ other \in Configurable
    BY <1>2, <1>3, <1>6
<1>7. CASE irq \notin Configurable /\ other \notin Configurable
    BY <1>2, <1>7
<1> QED BY <1>4, <1>5, <1>6, <1>7

(* What waits and is enabled, by what was asked for, is what the processor looks at. *)
LEMMA EligibleAsAsked ==
    ASSUME NvicInv, NEW irq \in used
    PROVE  Eligible(irq) <=> wanted[irq].pending /\ wanted[irq].enabled
<1>1. CASE irq \in Device
    <2>1. irq \notin icsr
        BY <1>1 DEF NvicInv, NvicTypeOK
    <2> QED BY <1>1, <2>1 DEF NvicInv, BitsAgree, Marked, Eligible, Pending,
               NVIC_GetEnableIRQ, NVIC_GetPendingIRQ
<1>2. CASE irq \notin Device
    BY <1>2 DEF NvicInv, BitsAgree, Eligible, Pending, NVIC_GetPendingIRQ
<1> QED BY <1>1, <1>2

(* The one interrupt that is taken in a step. *)
LEMMA OnlyEnterGrows ==
    ASSUME NvicInv, [Next]_vars, Len(active') > Len(active)
    PROVE  \E irq \in used : Enter(irq)
<1>1. active \in Seq(Frames) /\ Len(active) \in Nat
    BY DEF NvicInv, NvicTypeOK
<1>2. ASSUME UNCHANGED active PROVE FALSE
    BY <1>1, <1>2
<1>3. ASSUME Return PROVE FALSE
    <2>1. Len(Tail(active)) = Len(active) - 1
        BY <1>1, <1>3 DEF Return
    <2> QED BY <1>1, <1>3, <2>1 DEF Return
<1>4. ASSUME NVIC_SystemReset PROVE FALSE
    BY <1>1, <1>4 DEF NVIC_SystemReset
<1>5. /\ \A g \in Groups : NVIC_SetPriorityGrouping(g) => UNCHANGED active
      /\ \A irq \in used, preempt, sub \in Levels :
            NVIC_SetPriority(irq, preempt, sub) => UNCHANGED active
      /\ \A ticks \in Periods : SysTick_Config(ticks) => UNCHANGED active
    BY DEF NVIC_SetPriorityGrouping, NVIC_SetPriority, SysTick_Config
<1>6. \A irq \in used :
         (\/ NVIC_EnableIRQ(irq) \/ NVIC_DisableIRQ(irq) \/ NVIC_SetPendingIRQ(irq)
          \/ RaiseException(irq) \/ NVIC_ClearPendingIRQ(irq)) => UNCHANGED active
    BY DEF NVIC_EnableIRQ, NVIC_DisableIRQ, NVIC_SetPendingIRQ, RaiseException,
           NVIC_ClearPendingIRQ
<1>7. UNCHANGED vars => UNCHANGED active
    BY DEF vars
<1> QED BY <1>2, <1>3, <1>4, <1>5, <1>6, <1>7, Zenon DEF Next

(* An interrupt is taken only when it is enabled, only before what has a higher
   preemption priority number, and before all that waits with it. *)
THEOREM NvicUrgentFirst == Spec => UrgentFirst
<1> DEFINE Urgent(irq) ==
               /\ wanted[irq].enabled
               /\ \A other \in Handled : wanted[irq].preempt < wanted[other].preempt
               /\ \A other \in used \ {irq} :
                     wanted[other].pending /\ wanted[other].enabled =>
                       \/ wanted[irq].preempt < wanted[other].preempt
                       \/ /\ wanted[irq].preempt = wanted[other].preempt
                          /\ \/ wanted[irq].sub < wanted[other].sub
                             \/ /\ wanted[irq].sub = wanted[other].sub
                                /\ IRQn_Type[irq] < IRQn_Type[other]
<1>1. ASSUME NvicInv, [Next]_vars, NEW irq \in used,
             Len(active') > Len(active), Head(active').irq = irq
      PROVE  Urgent(irq)
    <2>1. PICK taken \in used : Enter(taken)
        BY <1>1, OnlyEnterGrows
    <2>2. taken = irq
        <3>1. active \in Seq(Frames)
            BY <1>1 DEF NvicInv, NvicTypeOK
        <3>2. active' = <<[irq |-> taken, handler |-> VectorOf(taken)]>> \o active
            BY <2>1 DEF Enter
        <3>3. Head(active') = [irq |-> taken, handler |-> VectorOf(taken)]
            BY <3>1, <3>2
        <3> QED BY <1>1, <3>3
    <2>3. Enter(irq)
        BY <2>1, <2>2
    <2>4. wanted[irq].enabled
        BY <1>1, <2>3, EligibleAsAsked DEF Enter
    <2>5. ASSUME NEW other \in Handled
          PROVE  wanted[irq].preempt < wanted[other].preempt
        <3>1. other \in used
            BY <1>1, StackedFrames DEF Handled
        <3>2. GroupPriority(irq) < GroupPriority(other)
            BY <2>3 DEF Enter
        <3> QED BY <1>1, <3>1, <3>2, SameOrder
    <2>6. ASSUME NEW other \in used \ {irq}, wanted[other].pending, wanted[other].enabled
          PROVE  \/ wanted[irq].preempt < wanted[other].preempt
                 \/ /\ wanted[irq].preempt = wanted[other].preempt
                    /\ \/ wanted[irq].sub < wanted[other].sub
                       \/ /\ wanted[irq].sub = wanted[other].sub
                          /\ IRQn_Type[irq] < IRQn_Type[other]
        <3>1. Precedes(irq, other)
            BY <1>1, <2>3, <2>6, EligibleAsAsked DEF Enter
        <3> QED BY <1>1, <3>1, SameOrder DEF Precedes
    <2> QED BY <2>4, <2>5, <2>6
<1>2. ASSUME NvicInv, [Next]_vars
      PROVE  [\A irq \in used :
                Len(active') > Len(active) /\ Head(active').irq = irq => Urgent(irq)]_vars
    BY <1>1, <1>2
<1> QED BY <1>2, NvicInvariance, PTL DEF Spec, UrgentFirst

----------------------------------------------------------------------------------------
(* The invariant of the protection unit *)

Switched == memfault = (MPU_CTRL.ENABLE.mask \subseteq ctrl)

(* A region has the words packed from what it was asked to be. *)
Right(r) ==
    \/ asked[r] = Off /\ MPU_RASR.ENABLE.mask \cap rasr[r] = {}
    \/ /\ asked[r] \in Wants
       /\ rbar[r] = asked[r].address /\ rasr[r] = ARM_MPU_RASR(asked[r])

Resting == Idle /\ Switched /\ \A r \in Regions : Right(r)

(* A call for the region r is under way: all others are right, and what is still stored
   makes it so. *)
SettingRegion(r) ==
    /\ table = <<>> /\ Switched /\ \A o \in Regions \ {r} : Right(o)
    /\ \/ /\ asked[r] = Off
          /\ \/ stores = <<<<"RNR", r>>, <<"RASR", {}>>>>
             \/ stores = <<<<"RASR", {}>>>> /\ rnr = r
       \/ /\ asked[r] \in Wants
          /\ LET address == asked[r].address
                 attributes == <<"RASR", ARM_MPU_RASR(asked[r])>>
             IN  \/ stores = <<<<"RBAR", ARM_MPU_RBAR(r, address)>>, attributes>>
                 \/ stores = <<<<"RNR", r>>, <<"RBAR", address>>, attributes>>
                 \/ stores = <<<<"RBAR", address>>, attributes>> /\ rnr = r
                 \/ stores = <<attributes>> /\ rnr = r /\ rbar[r] = address

(* The unit is being switched on or off. *)
Controls == SUBSET (MPU_CTRL.ENABLE.mask \cup MPU_CTRL.PRIVDEFENA.mask)
Switching ==
    /\ table = <<>> /\ \A r \in Regions : Right(r)
    /\ \E control \in Controls :
          \/ /\ MPU_CTRL.ENABLE.mask \subseteq control
             /\ \/ stores = <<<<"CTRL", control>>, <<"SHCSR", TRUE>>>>
                \/ stores = <<<<"SHCSR", TRUE>>>> /\ ctrl = control
          \/ /\ MPU_CTRL.ENABLE.mask \cap control = {}
             /\ \/ stores = <<<<"SHCSR", FALSE>>, <<"CTRL", control>>>>
                \/ stores = <<<<"CTRL", control>>>> /\ memfault = FALSE

(* A table is being loaded: a region is right unless rows are left for it, and then
   the last of these has what it was asked to be. *)
Left(r) == {k \in DOMAIN table : copied \div 2 < k /\ table[k].region = r}
LastLeft(k) == \A j \in Left(table[k].region) : j <= k
Loading ==
    /\ stores = <<>> /\ Switched
    /\ copied \in 0..2 * Part
    /\ \A r \in Regions : Left(r) = {} => Right(r)
    /\ \A k \in DOMAIN table :
          copied \div 2 < k /\ LastLeft(k) => asked[table[k].region] = table[k].want
    /\ copied % 2 = 1 =>
          LET row == table[(copied \div 2) + 1]
          IN  rnr = row.region /\ rbar[rnr] = row.want.address

MpuTypeOK ==
    /\ rnr \in Regions
    /\ rbar \in [Regions -> SUBSET (0..31)] /\ rasr \in [Regions -> SUBSET (0..31)]
    /\ ctrl \in Controls /\ memfault \in BOOLEAN
    /\ table \in Seq(Settings)
    /\ asked = [r \in Regions |-> asked[r]]

MpuInv ==
    /\ MpuTypeOK
    /\ \/ Resting
       \/ \E r \in Regions : SettingRegion(r)
       \/ Switching
       \/ table # <<>> /\ Loading

----------------------------------------------------------------------------------------
(* Fields of a word *)

(* A field of w bits from pos on, and what is packed into it. *)
Packed(word, mask, pos, w, value) ==
    /\ mask = pos..pos + w - 1 /\ value \in SUBSET (0..w - 1)
    /\ word \cap mask = VAL2FLD(pos, mask, value)

LEMMA Unpacked ==
    ASSUME NEW pos \in 0..31, NEW w \in 1..8, pos + w <= 32,
           NEW value, NEW mask, NEW word, Packed(word, mask, pos, w, value)
    PROVE  {c - Min(mask) : c \in word \cap mask} = value
<1> USE DEF Packed
<1>1. Min(mask) = pos
    <2>1. pos \in mask /\ \A b \in mask : pos <= b /\ b \in Int
        OBVIOUS
    <2>2. \A b \in mask : (\A c \in mask : b <= c) => b = pos
        BY <2>1
    <2> QED BY <2>1, <2>2 DEF Min
<1>2. word \cap mask = {b + pos : b \in value}
    <2>1. ASSUME NEW b \in value PROVE b + pos \in mask /\ b + pos \in 0..31
        <3>1. b \in 0..w - 1
            OBVIOUS
        <3> QED BY <3>1
    <2>2. {b + pos : b \in value} \subseteq mask \cap (0..31)
        BY <2>1
    <2> QED BY <2>2 DEF VAL2FLD, ShiftLeft, Bits
<1>3. ASSUME NEW b \in value PROVE b \in {c - pos : c \in word \cap mask}
    <2>1. b + pos \in word \cap mask /\ b = (b + pos) - pos
        BY <1>2
    <2> QED BY <2>1
<1>4. ASSUME NEW b \in {c - pos : c \in word \cap mask} PROVE b \in value
    <2>1. PICK c \in value : b = (c + pos) - pos
        BY <1>2
    <2>2. b = c
        BY <2>1
    <2> QED BY <2>2
<1> QED BY <1>1, <1>3, <1>4

(* A number of w bits that is packed into its field is read back from it. *)
Reads(word, mask, pos, w, n) ==
    /\ mask = pos..pos + w - 1 /\ n \in 0..2^w - 1
    /\ word \cap mask = VAL2FLD(pos, mask, Word(n))

LEMMA ReadsField ==
    ASSUME NEW pos \in 0..31, NEW w \in 1..8, pos + w <= 32, NEW n, NEW mask, NEW word,
           Reads(word, mask, pos, w, n)
    PROVE  Field(word, mask) = n
<1>1. w \in 0..8 /\ n \in 0..2^w - 1
    BY DEF Reads
<1>2. Word(n) \in SUBSET (0..w - 1) /\ n \in 0..255
    BY <1>1, BitsOfWord, Zenon
<1>3. Packed(word, mask, pos, w, Word(n))
    BY <1>2 DEF Reads, Packed
<1>4. {c - Min(mask) : c \in word \cap mask} = Word(n)
    BY <1>3, Unpacked
<1> QED BY <1>2, <1>4, NumberOfWord DEF Field

(* Fields that are apart do not disturb each other. *)
Consists(word, X, A, T, S, C, B, D, N) ==
    /\ X \in SUBSET (28..28) /\ A \in SUBSET (24..26) /\ T \in SUBSET (19..21)
    /\ S \in SUBSET (18..18) /\ C \in SUBSET (17..17) /\ B \in SUBSET (16..16)
    /\ D \in SUBSET (8..15) /\ N \in SUBSET (1..5)
    /\ word = X \cup A \cup T \cup S \cup C \cup B \cup D \cup N \cup {0}

LEMMA FieldsApart ==
    ASSUME NEW word, NEW X, NEW A, NEW T, NEW S, NEW C, NEW B, NEW D, NEW N,
           Consists(word, X, A, T, S, C, B, D, N)
    PROVE  /\ word \cap (28..28) = X /\ word \cap (24..26) = A /\ word \cap (19..21) = T
           /\ word \cap (18..18) = S /\ word \cap (17..17) = C /\ word \cap (16..16) = B
           /\ word \cap (8..15) = D /\ word \cap (1..5) = N
<1> USE DEF Consists
<1>1. ASSUME NEW k \in word
      PROVE  /\ k \in 28..28 => k \in X
             /\ k \in 24..26 => k \in A
             /\ k \in 19..21 => k \in T
             /\ k \in 18..18 => k \in S
             /\ k \in 17..17 => k \in C
             /\ k \in 16..16 => k \in B
             /\ k \in 8..15 => k \in D
             /\ k \in 1..5 => k \in N
    <2>1. /\ k \in X => k \in 28..28
          /\ k \in A => k \in 24..26
          /\ k \in T => k \in 19..21
          /\ k \in S => k \in 18..18
          /\ k \in C => k \in 17..17
          /\ k \in B => k \in 16..16
          /\ k \in D => k \in 8..15
          /\ k \in N => k \in 1..5
        OBVIOUS
    <2>2. \/ k \in X \/ k \in A \/ k \in T \/ k \in S \/ k \in C \/ k \in B \/ k \in D \/ k \in N
          \/ k = 0
        OBVIOUS
    <2> QED BY <2>1, <2>2
<1>2. /\ X \subseteq word /\ A \subseteq word /\ T \subseteq word /\ S \subseteq word
      /\ C \subseteq word /\ B \subseteq word /\ D \subseteq word /\ N \subseteq word
    OBVIOUS
<1>3. word \cap (28..28) = X
    BY <1>1, <1>2, Zenon
<1>4. word \cap (24..26) = A
    BY <1>1, <1>2, Zenon
<1>5. word \cap (19..21) = T
    BY <1>1, <1>2, Zenon
<1>6. word \cap (18..18) = S
    BY <1>1, <1>2, Zenon
<1>7. word \cap (17..17) = C
    BY <1>1, <1>2, Zenon
<1>8. word \cap (16..16) = B
    BY <1>1, <1>2, Zenon
<1>9. word \cap (8..15) = D
    BY <1>1, <1>2, Zenon
<1>10. word \cap (1..5) = N
    BY <1>1, <1>2, Zenon
<1> QED BY <1>3, <1>4, <1>5, <1>6, <1>7, <1>8, <1>9, <1>10

(* The attributes of a region are read back from the word they are packed into. *)
HasAttributes(word, xn, ap, tex, s, c, b, srd, size) ==
    /\ MPU_RASR.ENABLE.mask \subseteq word
    /\ Field(word, MPU_RASR.XN.mask) = xn /\ Field(word, MPU_RASR.AP.mask) = ap
    /\ Field(word, MPU_RASR.TEX.mask) = tex /\ Field(word, MPU_RASR.S.mask) = s
    /\ Field(word, MPU_RASR.C.mask) = c /\ Field(word, MPU_RASR.B.mask) = b
    /\ Field(word, MPU_RASR.SRD.mask) = srd /\ Field(word, MPU_RASR.SIZE.mask) = size

LEMMA AttributesRead ==
    ASSUME NEW xn \in 0..1, NEW ap \in 0..7, NEW tex \in 0..7, NEW s \in 0..1,
           NEW c \in 0..1, NEW b \in 0..1, NEW srd \in 0..255, NEW size \in 0..31
    PROVE  HasAttributes(
               ARM_MPU_RASR_EX(xn, ap, ARM_MPU_ACCESS_(tex, s, c, b), srd, size),
               xn, ap, tex, s, c, b, srd, size)
<1> DEFINE word == ARM_MPU_RASR_EX(xn, ap, ARM_MPU_ACCESS_(tex, s, c, b), srd, size)
           X == VAL2FLD(28, MPU_RASR.XN.mask, Word(xn))
           A == VAL2FLD(24, MPU_RASR.AP.mask, Word(ap))
           T == VAL2FLD(19, MPU_RASR.TEX.mask, Word(tex))
           S == VAL2FLD(18, MPU_RASR.S.mask, Word(s))
           C == VAL2FLD(17, MPU_RASR.C.mask, Word(c))
           B == VAL2FLD(16, MPU_RASR.B.mask, Word(b))
           D == VAL2FLD(8, MPU_RASR.SRD.mask, Word(srd))
           N == VAL2FLD(1, MPU_RASR.SIZE.mask, Word(size))
           kinds == UNION {MPU_RASR.TEX.mask, MPU_RASR.S.mask, MPU_RASR.C.mask, MPU_RASR.B.mask}
<1>1. /\ MPU_RASR.XN.mask = 28..28 + 1 - 1 /\ MPU_RASR.AP.mask = 24..24 + 3 - 1
      /\ MPU_RASR.TEX.mask = 19..19 + 3 - 1 /\ MPU_RASR.S.mask = 18..18 + 1 - 1
      /\ MPU_RASR.C.mask = 17..17 + 1 - 1 /\ MPU_RASR.B.mask = 16..16 + 1 - 1
      /\ MPU_RASR.SRD.mask = 8..8 + 8 - 1 /\ MPU_RASR.SIZE.mask = 1..1 + 5 - 1
      /\ MPU_RASR.ENABLE.mask = {0}
    BY DEF MPU_RASR, Run, Bit, Unshifted
<1>2. /\ X \subseteq MPU_RASR.XN.mask /\ A \subseteq MPU_RASR.AP.mask /\ T \subseteq MPU_RASR.TEX.mask
      /\ S \subseteq MPU_RASR.S.mask /\ C \subseteq MPU_RASR.C.mask /\ B \subseteq MPU_RASR.B.mask
      /\ D \subseteq MPU_RASR.SRD.mask /\ N \subseteq MPU_RASR.SIZE.mask
    BY Zenon DEF VAL2FLD
<1>3. word = ((((X \cup A) \cup ((((T \cup S) \cup C) \cup B) \cap kinds)) \cup D) \cup N)
               \cup MPU_RASR.ENABLE.mask
    BY Zenon DEF ARM_MPU_RASR_EX, ARM_MPU_ACCESS_
<1>4. (((T \cup S) \cup C) \cup B) \cap kinds = ((T \cup S) \cup C) \cup B
    <2>1. kinds = ((MPU_RASR.TEX.mask \cup MPU_RASR.S.mask) \cup MPU_RASR.C.mask) \cup MPU_RASR.B.mask
        OBVIOUS
    <2> HIDE DEF T, S, C, B, kinds
    <2> QED BY <1>2, <2>1
<1> HIDE DEF word, X, A, T, S, C, B, D, N, kinds
<1>5. word = X \cup A \cup T \cup S \cup C \cup B \cup D \cup N \cup {0}
    BY <1>1, <1>3, <1>4
<1>6. /\ X \subseteq {28} /\ A \subseteq 24..26 /\ T \subseteq 19..21 /\ S \subseteq {18}
      /\ C \subseteq {17} /\ B \subseteq {16} /\ D \subseteq 8..15 /\ N \subseteq 1..5
    BY <1>1, <1>2
<1>7. MPU_RASR.ENABLE.mask \subseteq word
    BY <1>1, <1>5, <1>6
<1>8. /\ MPU_RASR.XN.mask = 28..28 /\ MPU_RASR.AP.mask = 24..26 /\ MPU_RASR.TEX.mask = 19..21
      /\ MPU_RASR.S.mask = 18..18 /\ MPU_RASR.C.mask = 17..17 /\ MPU_RASR.B.mask = 16..16
      /\ MPU_RASR.SRD.mask = 8..15 /\ MPU_RASR.SIZE.mask = 1..5
    BY <1>1
<1>9. /\ word \cap (28..28) = X /\ word \cap (24..26) = A /\ word \cap (19..21) = T
      /\ word \cap (18..18) = S /\ word \cap (17..17) = C /\ word \cap (16..16) = B
      /\ word \cap (8..15) = D /\ word \cap (1..5) = N
    <2>1. Consists(word, X, A, T, S, C, B, D, N)
        BY <1>2, <1>5, <1>8 DEF Consists
    <2> QED BY <2>1, FieldsApart
<1>10. /\ word \cap MPU_RASR.XN.mask = X /\ word \cap MPU_RASR.AP.mask = A
       /\ word \cap MPU_RASR.TEX.mask = T /\ word \cap MPU_RASR.S.mask = S
       /\ word \cap MPU_RASR.C.mask = C /\ word \cap MPU_RASR.B.mask = B
       /\ word \cap MPU_RASR.SRD.mask = D /\ word \cap MPU_RASR.SIZE.mask = N
    BY <1>8, <1>9
<1>12. 2^1 = 2 /\ 2^3 = 8 /\ 2^5 = 32 /\ 2^8 = 256
    OBVIOUS
<1>13. /\ xn \in 0..2^1 - 1 /\ ap \in 0..2^3 - 1 /\ tex \in 0..2^3 - 1
       /\ s \in 0..2^1 - 1 /\ c \in 0..2^1 - 1 /\ b \in 0..2^1 - 1
       /\ srd \in 0..2^8 - 1 /\ size \in 0..2^5 - 1
    BY <1>12
<1>14. /\ Reads(word, MPU_RASR.XN.mask, 28, 1, xn) /\ Reads(word, MPU_RASR.AP.mask, 24, 3, ap)
       /\ Reads(word, MPU_RASR.TEX.mask, 19, 3, tex) /\ Reads(word, MPU_RASR.S.mask, 18, 1, s)
       /\ Reads(word, MPU_RASR.C.mask, 17, 1, c) /\ Reads(word, MPU_RASR.B.mask, 16, 1, b)
       /\ Reads(word, MPU_RASR.SRD.mask, 8, 8, srd) /\ Reads(word, MPU_RASR.SIZE.mask, 1, 5, size)
    BY <1>1, <1>10, <1>13, Zenon DEF Reads, X, A, T, S, C, B, D, N
<1>15. /\ Field(word, MPU_RASR.XN.mask) = xn /\ Field(word, MPU_RASR.AP.mask) = ap
       /\ Field(word, MPU_RASR.TEX.mask) = tex /\ Field(word, MPU_RASR.S.mask) = s
    BY <1>14, ReadsField
<1>16. /\ Field(word, MPU_RASR.C.mask) = c /\ Field(word, MPU_RASR.B.mask) = b
       /\ Field(word, MPU_RASR.SRD.mask) = srd /\ Field(word, MPU_RASR.SIZE.mask) = size
    BY <1>14, ReadsField
<1>17. HasAttributes(word, xn, ap, tex, s, c, b, srd, size)
    BY <1>7, <1>15, <1>16 DEF HasAttributes
<1> QED BY <1>17 DEF word

(* Every size that has a macro is the size the unit makes of its value. *)
LEMMA SizeOfValue ==
    ASSUME NEW n \in 1..28
    PROVE  Size(n + 3) = RegionSizes[n]
<1>1. CASE n \in 1..5
    <2>1. IsPower(n + 4, 2^(n + 4))
        <3>1. n + 4 \in 0..15
            BY <1>1
        <3> QED BY <3>1, Powers
    <2>2. (n + 3) + 1 = n + 4 /\ n + 4 < 10 /\ (n + 3) + 1 < 10
        BY <1>1
    <2>3. Size(n + 3) = <<2^(n + 4), "B">>
        BY <2>2 DEF Size
    <2> QED BY <1>1, <2>1, <2>3 DEF IsPower, RegionSizes
<1>2. CASE n \in 6..15
    <2>1. IsPower(n - 6, 2^(n - 6))
        <3>1. n - 6 \in 0..15
            BY <1>2
        <3> QED BY <3>1, Powers
    <2>2. (n + 3) + 1 \in 10..19 /\ (n + 3) - 9 = n - 6
        BY <1>2
    <2>3. Size(n + 3) = <<2^(n - 6), "KB">>
        BY <2>2 DEF Size
    <2> QED BY <1>2, <2>1, <2>3 DEF IsPower, RegionSizes
<1>3. CASE n \in 16..25
    <2>1. IsPower(n - 16, 2^(n - 16))
        <3>1. n - 16 \in 0..15
            BY <1>3
        <3> QED BY <3>1, Powers
    <2>2. (n + 3) + 1 \in 20..29 /\ (n + 3) - 19 = n - 16
        BY <1>3
    <2>3. Size(n + 3) = <<2^(n - 16), "MB">>
        BY <2>2 DEF Size
    <2> QED BY <1>3, <2>1, <2>3 DEF IsPower, RegionSizes
<1>4. CASE n \in 26..28
    <2>1. IsPower(n - 26, 2^(n - 26))
        <3>1. n - 26 \in 0..15
            BY <1>4
        <3> QED BY <3>1, Powers
    <2>2. (n + 3) + 1 >= 30 /\ (n + 3) - 29 = n - 26
        BY <1>4
    <2>3. Size(n + 3) = <<2^(n - 26), "GB">>
        BY <2>2 DEF Size
    <2> QED BY <1>4, <2>1, <2>3 DEF IsPower, RegionSizes
<1> QED BY <1>1, <1>2, <1>3, <1>4

(* The size behind the value that the macro for it gives. *)
LEMMA SizeRead ==
    ASSUME NEW size \in {RegionSizes[n] : n \in DOMAIN RegionSizes}
    PROVE  /\ ARM_MPU_REGION_SIZE(size) \in 4..31
           /\ Size(ARM_MPU_REGION_SIZE(size)) = size
<1>1. DOMAIN RegionSizes = 1..28
    BY DEF RegionSizes
<1>2. PICK n \in 1..28 : ARM_MPU_REGION_SIZE(size) = 3 + n /\ RegionSizes[n] = size
    BY <1>1 DEF ARM_MPU_REGION_SIZE
<1>3. 3 + n = n + 3 /\ n + 3 \in 4..31
    OBVIOUS
<1> QED BY <1>2, <1>3, SizeOfValue

(* The kind of a memory, and the permissions, that the unit makes of their bits. *)
LEMMA MemoryRead ==
    ASSUME NEW memory \in Memories
    PROVE  \E tex \in 0..7, s \in 0..1, c \in 0..1, b \in 0..1 :
              /\ Access(memory) = ARM_MPU_ACCESS_(tex, s, c, b)
              /\ \A word : /\ Field(word, MPU_RASR.TEX.mask) = tex
                           /\ Field(word, MPU_RASR.S.mask) = s
                           /\ Field(word, MPU_RASR.C.mask) = c
                           /\ Field(word, MPU_RASR.B.mask) = b
                           => MemoryType(word) = memory
<1>1. CASE memory = [kind |-> "ordered"]
    <2>1. Access(memory) = ARM_MPU_ACCESS_(0, 1, 0, 0)
        BY <1>1 DEF Access, ARM_MPU_ACCESS_ORDERED
    <2>2. ASSUME NEW word, Field(word, MPU_RASR.TEX.mask) = 0, Field(word, MPU_RASR.S.mask) = 1,
                 Field(word, MPU_RASR.C.mask) = 0, Field(word, MPU_RASR.B.mask) = 0
          PROVE  MemoryType(word) = memory
        BY <1>1, <2>2 DEF MemoryType
    <2>3. 0 \in 0..7 /\ 0 \in 0..1 /\ 1 \in 0..1
        OBVIOUS
    <2> QED BY <2>1, <2>2, <2>3
<1>2. CASE memory = [kind |-> "device", shareable |-> 1]
    <2>1. Access(memory) = ARM_MPU_ACCESS_(0, 1, 0, 1)
        BY <1>2 DEF Access, ARM_MPU_ACCESS_DEVICE
    <2>2. ASSUME NEW word, Field(word, MPU_RASR.TEX.mask) = 0, Field(word, MPU_RASR.S.mask) = 1,
                 Field(word, MPU_RASR.C.mask) = 0, Field(word, MPU_RASR.B.mask) = 1
          PROVE  MemoryType(word) = memory
        BY <1>2, <2>2 DEF MemoryType
    <2>3. 0 \in 0..7 /\ 0 \in 0..1 /\ 1 \in 0..1
        OBVIOUS
    <2> QED BY <2>1, <2>2, <2>3
<1>3. CASE memory = [kind |-> "device", shareable |-> 0]
    <2>1. Access(memory) = ARM_MPU_ACCESS_(2, 0, 0, 0)
        BY <1>3 DEF Access, ARM_MPU_ACCESS_DEVICE
    <2>2. ASSUME NEW word, Field(word, MPU_RASR.TEX.mask) = 2, Field(word, MPU_RASR.S.mask) = 0,
                 Field(word, MPU_RASR.C.mask) = 0, Field(word, MPU_RASR.B.mask) = 0
          PROVE  MemoryType(word) = memory
        BY <1>3, <2>2 DEF MemoryType
    <2>3. 2 \in 0..7 /\ 0 \in 0..1
        OBVIOUS
    <2> QED BY <2>1, <2>2, <2>3
<1>4. CASE memory \in [kind : {"normal"}, outer : DOMAIN ARM_MPU_CACHEP,
                       inner : DOMAIN ARM_MPU_CACHEP, shareable : 0..1]
    <2> DEFINE outer == ARM_MPU_CACHEP[memory.outer]
               inner == ARM_MPU_CACHEP[memory.inner]
    <2>1. ASSUME NEW policy \in DOMAIN ARM_MPU_CACHEP
          PROVE  /\ ARM_MPU_CACHEP[policy] \in 0..3
                 /\ Policy[ARM_MPU_CACHEP[policy] + 1] = policy
        BY DEF ARM_MPU_CACHEP, Policy
    <2>2. /\ outer \in 0..3 /\ Policy[outer + 1] = memory.outer
          /\ inner \in 0..3 /\ Policy[inner + 1] = memory.inner
        BY <1>4, <2>1
    <2>3. Access(memory)
            = ARM_MPU_ACCESS_(4 + outer, memory.shareable, inner \div 2, inner % 2)
        BY <1>4 DEF Access, ARM_MPU_ACCESS_NORMAL
    <2> HIDE DEF outer, inner
    <2>4. /\ 4 + outer \in 0..7 /\ memory.shareable \in 0..1
          /\ inner \div 2 \in 0..1 /\ (inner % 2) \in 0..1
          /\ 2 * (inner \div 2) + (inner % 2) = inner
        BY <1>4, <2>2
    <2>5. ASSUME NEW word, Field(word, MPU_RASR.TEX.mask) = 4 + outer,
                 Field(word, MPU_RASR.S.mask) = memory.shareable,
                 Field(word, MPU_RASR.C.mask) = inner \div 2,
                 Field(word, MPU_RASR.B.mask) = inner % 2
          PROVE  MemoryType(word) = memory
        <3>1. MemoryType(word) =
                [kind |-> "normal", outer |-> Policy[(4 + outer) - 3],
                 inner |-> Policy[2 * (inner \div 2) + (inner % 2) + 1],
                 shareable |-> memory.shareable]
            BY <2>2, <2>5 DEF MemoryType
        <3>2. (4 + outer) - 3 = outer + 1
            BY <2>2
        <3>3. MemoryType(word) = [kind |-> "normal", outer |-> memory.outer,
                                  inner |-> memory.inner, shareable |-> memory.shareable]
            BY <2>2, <2>4, <3>1, <3>2
        <3> QED BY <1>4, <3>3
    <2> QED BY <2>3, <2>4, <2>5
<1> QED BY <1>1, <1>2, <1>3, <1>4 DEF Memories

(* What a region is asked to be is what the unit enforces with its packed words. *)
LEMMA RightIsEnforced ==
    ASSUME NEW r \in Regions, Right(r)
    PROVE  Enforces(r, asked[r])
<1> DEFINE want == asked[r]
<1>1. CASE want = Off
    <2>a. Off.enable = FALSE
        BY DEF Off
    <2>b. \A w \in Wants : w.enable = TRUE
        BY DEF Wants
    <2>1. want.enable = FALSE /\ want \notin Wants
        BY <1>1, <2>a, <2>b
    <2>2. MPU_RASR.ENABLE.mask \cap rasr[r] = {}
        BY <2>1 DEF Right
    <2> QED BY <2>1, <2>2 DEF Enforces
<1>2. CASE want # Off
    <2>1. want \in Wants /\ rbar[r] = want.address /\ rasr[r] = ARM_MPU_RASR(want)
        BY <1>2 DEF Right
    <2> HIDE DEF want
    <2>2. /\ want.enable = TRUE /\ want.xn \in 0..1 /\ want.ap \in DOMAIN ARM_MPU_AP
          /\ want.memory \in Memories /\ want.srd \in 0..255
          /\ want.size \in {RegionSizes[n] : n \in DOMAIN RegionSizes}
        BY <2>1 DEF Wants
    <2>3. /\ ARM_MPU_AP[want.ap] \in 0..7
          /\ Permitted[ARM_MPU_AP[want.ap] + 1] = Permission[want.ap]
        <3>1. want.ap \in {"NONE", "PRIV", "URO", "FULL", "PRO", "RO"}
            BY <2>2 DEF ARM_MPU_AP
        <3>2. /\ ARM_MPU_AP["NONE"] = 0 /\ ARM_MPU_AP["PRIV"] = 1 /\ ARM_MPU_AP["URO"] = 2
              /\ ARM_MPU_AP["FULL"] = 3 /\ ARM_MPU_AP["PRO"] = 5 /\ ARM_MPU_AP["RO"] = 6
            BY DEF ARM_MPU_AP
        <3>3. \A p0, p1, p2, p3, p4, p5, p6, p7 :
                 Permitted = <<p0, p1, p2, p3, p4, p5, p6, p7>>
                 => /\ Permitted[0 + 1] = p0 /\ Permitted[1 + 1] = p1
                    /\ Permitted[2 + 1] = p2 /\ Permitted[3 + 1] = p3
                    /\ Permitted[5 + 1] = p5 /\ Permitted[6 + 1] = p6
            OBVIOUS
        <3>4. Permitted = <<<<"", "">>, <<"rw", "">>, <<"rw", "r">>, <<"rw", "rw">>,
                            <<"reserved">>, <<"r", "">>, <<"r", "r">>, <<"r", "r">>>>
            BY Zenon DEF Permitted
        <3>5. /\ Permitted[0 + 1] = <<"", "">> /\ Permitted[1 + 1] = <<"rw", "">>
              /\ Permitted[2 + 1] = <<"rw", "r">> /\ Permitted[3 + 1] = <<"rw", "rw">>
              /\ Permitted[5 + 1] = <<"r", "">> /\ Permitted[6 + 1] = <<"r", "r">>
            BY <3>3, <3>4, Zenon
        <3>6. \A p0, p1, p2, p3, p4, p5 :
                 LET all == [NONE |-> p0, PRIV |-> p1, URO |-> p2, FULL |-> p3, PRO |-> p4,
                             RO |-> p5]
                 IN  /\ all["NONE"] = p0 /\ all["PRIV"] = p1 /\ all["URO"] = p2
                     /\ all["FULL"] = p3 /\ all["PRO"] = p4 /\ all["RO"] = p5
            OBVIOUS
        <3>7. /\ Permission["NONE"] = <<"", "">> /\ Permission["PRIV"] = <<"rw", "">>
              /\ Permission["URO"] = <<"rw", "r">> /\ Permission["FULL"] = <<"rw", "rw">>
              /\ Permission["PRO"] = <<"r", "">> /\ Permission["RO"] = <<"r", "r">>
            BY <3>6, Zenon DEF Permission
        <3>8. \A ap \in {"NONE", "PRIV", "URO", "FULL", "PRO", "RO"} :
                 Permitted[ARM_MPU_AP[ap] + 1] = Permission[ap]
            BY <3>2, <3>5, <3>7, Zenon
        <3>9. ARM_MPU_AP[want.ap] \in 0..7
            BY <3>1, <3>2
        <3> QED BY <3>1, <3>8, <3>9, Zenon
    <2>4. /\ ARM_MPU_REGION_SIZE(want.size) \in 0..31
          /\ Size(ARM_MPU_REGION_SIZE(want.size)) = want.size
        BY <2>2, SizeRead
    <2>5. PICK tex \in 0..7, s \in 0..1, c \in 0..1, b \in 0..1 :
              /\ Access(want.memory) = ARM_MPU_ACCESS_(tex, s, c, b)
              /\ \A word : /\ Field(word, MPU_RASR.TEX.mask) = tex
                           /\ Field(word, MPU_RASR.S.mask) = s
                           /\ Field(word, MPU_RASR.C.mask) = c
                           /\ Field(word, MPU_RASR.B.mask) = b
                           => MemoryType(word) = want.memory
        BY <2>2, MemoryRead
    <2>6. rasr[r] = ARM_MPU_RASR_EX(want.xn, ARM_MPU_AP[want.ap],
                                    ARM_MPU_ACCESS_(tex, s, c, b), want.srd,
                                    ARM_MPU_REGION_SIZE(want.size))
        BY <2>1, <2>5 DEF ARM_MPU_RASR
    <2>7. HasAttributes(rasr[r], want.xn, ARM_MPU_AP[want.ap], tex, s, c, b, want.srd,
                        ARM_MPU_REGION_SIZE(want.size))
        <3>1. want.xn \in 0..1 /\ want.srd \in 0..255
            BY <2>2
        <3>2. ARM_MPU_AP[want.ap] \in 0..7 /\ ARM_MPU_REGION_SIZE(want.size) \in 0..31
            BY <2>3, <2>4
        <3>3. HasAttributes(ARM_MPU_RASR_EX(want.xn, ARM_MPU_AP[want.ap],
                                            ARM_MPU_ACCESS_(tex, s, c, b), want.srd,
                                            ARM_MPU_REGION_SIZE(want.size)),
                            want.xn, ARM_MPU_AP[want.ap], tex, s, c, b, want.srd,
                            ARM_MPU_REGION_SIZE(want.size))
            BY <3>1, <3>2, AttributesRead, Zenon
        <3> QED BY <3>3, <2>6, Zenon
    <2>8. MemoryType(rasr[r]) = want.memory
        BY <2>5, <2>7 DEF HasAttributes
    <2>9. Enforces(r, want)
        BY <2>1, <2>2, <2>3, <2>4, <2>7, <2>8 DEF Enforces, HasAttributes
    <2> QED BY <2>9 DEF want
<1> QED BY <1>1, <1>2

(* The words of a row: one has the address and names the region, and the other has only
   bits of a word. *)
LEMMA RowWords ==
    ASSUME NEW r \in Regions, NEW want \in Wants
    PROVE  /\ MPU_RBAR.VALID.mask \subseteq ARM_MPU_RBAR(r, want.address)
           /\ Number(ARM_MPU_RBAR(r, want.address) \cap MPU_RBAR.REGION.mask) = r
           /\ ARM_MPU_RBAR(r, want.address) \cap MPU_RBAR.ADDR.mask = want.address
           /\ ~(MPU_RBAR.VALID.mask \subseteq want.address)
           /\ want.address \cap MPU_RBAR.ADDR.mask = want.address
           /\ want.address \subseteq 0..31
           /\ ARM_MPU_RASR(want) \subseteq 0..31
<1>1. want.address \subseteq 5..31
    BY DEF Wants, MPU_RBAR, Run, Bit, Unshifted
<1>2. r \in 0..7 /\ Word(r) \subseteq 0..2 /\ Number(Word(r)) = r
    BY GroupBits DEF Regions
<1>3. MPU_RBAR.ADDR.mask = 5..31 /\ MPU_RBAR.VALID.mask = {4} /\ MPU_RBAR.REGION.mask = 0..3
    BY DEF MPU_RBAR, Run, Bit, Unshifted
<1>4. ARM_MPU_RBAR(r, want.address) = want.address \cup Word(r) \cup {4}
    BY <1>1, <1>2, <1>3 DEF ARM_MPU_RBAR
<1>5. /\ \A b \in want.address : b \in 5..31 /\ b \notin 0..4
      /\ \A b \in Word(r) : b \in 0..2 /\ b \notin 4..31
    BY <1>1, <1>2
<1>6. (want.address \cup Word(r) \cup {4}) \cap (0..3) = Word(r)
    BY <1>5
<1>7. (want.address \cup Word(r) \cup {4}) \cap (5..31) = want.address
    BY <1>5
<1>8. ARM_MPU_RASR(want) \subseteq 0..31
    <2>1. /\ \A pos, mask, value : VAL2FLD(pos, mask, value) \subseteq 0..31
          /\ MPU_RASR.ENABLE.mask \subseteq 0..31
        BY DEF VAL2FLD, ShiftLeft, Bits, MPU_RASR, Unshifted
    <2>2. \A access :
             access \cap UNION {MPU_RASR.TEX.mask, MPU_RASR.S.mask, MPU_RASR.C.mask, MPU_RASR.B.mask}
               \subseteq 0..31
        BY DEF MPU_RASR, Run, Bit
    <2> QED BY <2>1, <2>2, Zenon DEF ARM_MPU_RASR, ARM_MPU_RASR_EX
<1> QED BY <1>1, <1>2, <1>3, <1>4, <1>5, <1>6, <1>7, <1>8

----------------------------------------------------------------------------------------
(* The steps of the protection unit *)

(* After a reset the unit rests, with every region off. *)
LEMMA MpuFresh ==
    ASSUME MpuInit
    PROVE  MpuInv
<1>1. MpuTypeOK
    <2>1. /\ 0 \in Regions /\ {} \in SUBSET (0..31) /\ {} \in Controls
          /\ <<>> \in Seq(Settings) /\ FALSE \in BOOLEAN
        BY DEF Regions, Controls
    <2> QED BY <2>1 DEF MpuInit, MpuTypeOK
<1>2. Idle
    BY DEF MpuInit, Idle
<1>3. Switched
    <2>1. ~(MPU_CTRL.ENABLE.mask \subseteq {})
        BY DEF MPU_CTRL, Unshifted
    <2>2. memfault = FALSE /\ ctrl = {}
        BY DEF MpuInit
    <2> QED BY <2>1, <2>2, Zenon DEF Switched
<1>4. ASSUME NEW r \in Regions PROVE Right(r)
    BY DEF MpuInit, Right
<1> QED BY <1>1, <1>2, <1>3, <1>4 DEF MpuInv, Resting

(* The unit rests between calls, loads while rows are left, and else is in a call for
   one region or for the switch. *)
LEMMA Stage ==
    ASSUME MpuInv
    PROVE  /\ Idle => Resting
           /\ table # <<>> => Loading /\ stores = <<>>
           /\ stores # <<>> => (\E r \in Regions : SettingRegion(r)) \/ Switching
<1>1. \A a, b, c : <<a>> # <<>> /\ <<a, b>> # <<>> /\ <<a, b, c>> # <<>>
    OBVIOUS
<1>2. ASSUME NEW r, SettingRegion(r) PROVE stores # <<>> /\ table = <<>>
    BY <1>1, <1>2, Zenon DEF SettingRegion
<1>3. Switching => stores # <<>> /\ table = <<>>
    BY <1>1, Zenon DEF Switching
<1>4. Loading => stores = <<>>
    BY DEF Loading
<1>5. Resting => stores = <<>> /\ table = <<>>
    BY DEF Resting, Idle
<1>6. Resting \/ (\E r \in Regions : SettingRegion(r)) \/ Switching \/ (table # <<>> /\ Loading)
    BY DEF MpuInv
<1> QED BY <1>2, <1>3, <1>4, <1>5, <1>6, Zenon DEF Idle

(* A region whose words stay as they are, and what it is asked to be, stays right. *)
Stays(r) == rbar'[r] = rbar[r] /\ rasr'[r] = rasr[r] /\ asked'[r] = asked[r]

LEMMA StaysRight ==
    ASSUME NEW r, Stays(r), Right(r)
    PROVE  Right(r)'
<1> QED BY DEF Stays, Right

(* A call that sets up one region. *)
LEMMA StartsCall ==
    ASSUME MpuInv, NEW list, NEW r \in Regions, NEW want, Changing(list, r, want),
           \/ want = Off /\ list = <<<<"RNR", r>>, <<"RASR", {}>>>>
           \/ /\ want \in Wants
              /\ \/ list = <<<<"RBAR", ARM_MPU_RBAR(r, want.address)>>,
                            <<"RASR", ARM_MPU_RASR(want)>>>>
                 \/ list = <<<<"RNR", r>>, <<"RBAR", want.address>>,
                            <<"RASR", ARM_MPU_RASR(want)>>>>
    PROVE  MpuInv'
<1>1. /\ Resting /\ stores' = list
      /\ UNCHANGED <<rnr, rbar, rasr, ctrl, memfault, table, copied>>
    BY Stage DEF Changing, Call
<1>2. /\ asked' = [asked EXCEPT ![r] = want] /\ asked = [o \in Regions |-> asked[o]]
    BY DEF Changing, MpuInv, MpuTypeOK
<1>3. /\ asked'[r] = want /\ \A o \in Regions \ {r} : asked'[o] = asked[o]
      /\ asked' = [o \in Regions |-> asked'[o]]
    BY <1>2
<1>4. MpuTypeOK'
    BY <1>1, <1>3 DEF MpuInv, MpuTypeOK
<1>5. ASSUME NEW o \in Regions \ {r} PROVE Right(o)'
    <2>1. Stays(o) /\ Right(o)
        BY <1>1, <1>3 DEF Stays, Resting
    <2> QED BY <2>1, StaysRight
<1>6. table' = <<>> /\ Switched'
    BY <1>1 DEF Resting, Idle, Switched
<1>7. SettingRegion(r)'
    BY <1>1, <1>3, <1>5, <1>6, Zenon DEF SettingRegion
<1> QED BY <1>4, <1>7 DEF MpuInv

(* The three calls for one region, and the two for the switch. *)
LEMMA SetsUp ==
    ASSUME MpuInv, NEW row \in Changes,
           \/ ARM_MPU_SetRegion(row.region, row.want)
           \/ ARM_MPU_SetRegionEx(row.region, row.want)
           \/ ARM_MPU_ClrRegion(row.region)
    PROVE  MpuInv'
<1>1. row.region \in Regions /\ row.want \in Wants
    BY MpuAssumption DEF Settings
<1>2. CASE ARM_MPU_SetRegion(row.region, row.want)
    <2>1. Changing(<<<<"RBAR", ARM_MPU_RBAR(row.region, row.want.address)>>,
                     <<"RASR", ARM_MPU_RASR(row.want)>>>>, row.region, row.want)
        BY <1>2 DEF ARM_MPU_SetRegion, Row
    <2> QED BY <1>1, <2>1, StartsCall
<1>3. CASE ARM_MPU_SetRegionEx(row.region, row.want)
    <2>1. Changing(<<<<"RNR", row.region>>, <<"RBAR", row.want.address>>,
                     <<"RASR", ARM_MPU_RASR(row.want)>>>>, row.region, row.want)
        BY <1>3 DEF ARM_MPU_SetRegionEx
    <2> QED BY <1>1, <2>1, StartsCall
<1>4. CASE ARM_MPU_ClrRegion(row.region)
    <2>1. Changing(<<<<"RNR", row.region>>, <<"RASR", {}>>>>, row.region, Off)
        BY <1>4 DEF ARM_MPU_ClrRegion
    <2> QED BY <1>1, <2>1, StartsCall
<1> QED BY <1>2, <1>3, <1>4

(* The calls for the switch. *)
LEMMA Switches ==
    ASSUME MpuInv, NEW list, Call(list), UNCHANGED <<calls, asked>>, NEW control \in Controls,
           \/ /\ MPU_CTRL.ENABLE.mask \subseteq control
              /\ list = <<<<"CTRL", control>>, <<"SHCSR", TRUE>>>>
           \/ /\ MPU_CTRL.ENABLE.mask \cap control = {}
              /\ list = <<<<"SHCSR", FALSE>>, <<"CTRL", control>>>>
    PROVE  MpuInv'
<1>1. /\ Resting /\ stores' = list
      /\ UNCHANGED <<rnr, rbar, rasr, ctrl, memfault, table, copied>>
    BY Stage DEF Call
<1>2. MpuTypeOK'
    BY <1>1 DEF MpuInv, MpuTypeOK
<1>3. ASSUME NEW o \in Regions PROVE Right(o)'
    <2>1. Stays(o) /\ Right(o)
        BY <1>1 DEF Stays, Resting
    <2> QED BY <2>1, StaysRight
<1>4. table' = <<>>
    BY <1>1 DEF Resting, Idle
<1>5. Switching'
    BY <1>1, <1>3, <1>4, Zenon DEF Switching
<1> QED BY <1>2, <1>5 DEF MpuInv

LEMMA SwitchesOver ==
    ASSUME MpuInv,
           \/ \E control \in {{}, MPU_CTRL.PRIVDEFENA.mask} : ARM_MPU_Enable(control)
           \/ ARM_MPU_Disable
    PROVE  MpuInv'
<1>1. ASSUME NEW control \in {{}, MPU_CTRL.PRIVDEFENA.mask}, ARM_MPU_Enable(control)
      PROVE  MpuInv'
    <2>1. /\ control \cup MPU_CTRL.ENABLE.mask \in Controls
          /\ MPU_CTRL.ENABLE.mask \subseteq control \cup MPU_CTRL.ENABLE.mask
        BY DEF Controls
    <2>2. /\ Call(<<<<"CTRL", control \cup MPU_CTRL.ENABLE.mask>>, <<"SHCSR", TRUE>>>>)
          /\ UNCHANGED <<calls, asked>>
        BY <1>1 DEF ARM_MPU_Enable
    <2> QED BY <2>1, <2>2, Switches
<1>2. CASE ARM_MPU_Disable
    <2>1. /\ ctrl \ MPU_CTRL.ENABLE.mask \in Controls
          /\ MPU_CTRL.ENABLE.mask \cap (ctrl \ MPU_CTRL.ENABLE.mask) = {}
        BY DEF Controls, MpuInv, MpuTypeOK
    <2>2. /\ Call(<<<<"SHCSR", FALSE>>, <<"CTRL", ctrl \ MPU_CTRL.ENABLE.mask>>>>)
          /\ UNCHANGED <<calls, asked>>
        BY <1>2 DEF ARM_MPU_Disable
    <2> QED BY <2>1, <2>2, Switches
<1> QED BY <1>1, <1>2

(* One store: the register that is first in the list takes its word. *)
LEMMA Lists ==
    ASSUME NEW a, NEW b, NEW c
    PROVE  /\ Head(<<a>>) = a /\ Tail(<<a>>) = <<>>
           /\ Head(<<a, b>>) = a /\ Tail(<<a, b>>) = <<b>>
           /\ Head(<<a, b, c>>) = a /\ Tail(<<a, b, c>>) = <<b, c>>
<1> QED OBVIOUS

First(reg, word, rest) == stores # <<>> /\ Head(stores) = <<reg, word>> /\ Tail(stores) = rest

LEMMA StoresFirst ==
    ASSUME Store, NEW reg, NEW word, NEW rest, First(reg, word, rest)
    PROVE  /\ stores' = rest /\ UNCHANGED <<table, copied, calls, asked>>
           /\ reg = "RNR" => rnr' = word /\ UNCHANGED <<rbar, rasr, ctrl, memfault>>
           /\ reg = "RBAR" => StoreRBAR(word)
           /\ reg = "RASR" => StoreRASR(word)
           /\ reg = "CTRL" => ctrl' = word /\ UNCHANGED <<rnr, rbar, rasr, memfault>>
           /\ reg = "SHCSR" => memfault' = word /\ UNCHANGED <<rnr, rbar, rasr, ctrl>>
<1>1. <<reg, word>>[1] = reg /\ <<reg, word>>[2] = word
    OBVIOUS
<1>2. Head(stores)[1] = reg /\ Head(stores)[2] = word
    BY <1>1 DEF First
<1>3. /\ "RNR" # "RBAR" /\ "RNR" # "RASR" /\ "RNR" # "CTRL" /\ "RNR" # "SHCSR"
      /\ "RBAR" # "RASR" /\ "RBAR" # "CTRL" /\ "RBAR" # "SHCSR"
      /\ "RASR" # "CTRL" /\ "RASR" # "SHCSR" /\ "CTRL" # "SHCSR"
    OBVIOUS
<1> QED BY <1>2, <1>3, Zenon DEF Store, First

(* The region r gets an address or attributes, and the others keep theirs. *)
LEMMA GetsAddress ==
    ASSUME MpuTypeOK, NEW r \in Regions, NEW word, NEW address \in SUBSET (0..31),
           StoreRBAR(word), word \cap MPU_RBAR.ADDR.mask = address,
           \/ MPU_RBAR.VALID.mask \subseteq word /\ Number(word \cap MPU_RBAR.REGION.mask) = r
           \/ ~(MPU_RBAR.VALID.mask \subseteq word) /\ rnr = r
    PROVE  /\ rnr' = r /\ rbar' \in [Regions -> SUBSET (0..31)] /\ rbar'[r] = address
           /\ \A o \in Regions \ {r} : rbar'[o] = rbar[o]
           /\ UNCHANGED <<rasr, ctrl, memfault>>
<1>1. /\ rnr' = r /\ rbar' = [rbar EXCEPT ![r] = word \cap MPU_RBAR.ADDR.mask]
      /\ UNCHANGED <<rasr, ctrl, memfault>>
    BY Zenon DEF StoreRBAR
<1>2. rbar \in [Regions -> SUBSET (0..31)]
    BY DEF MpuTypeOK
<1> QED BY <1>1, <1>2

LEMMA GetsAttributes ==
    ASSUME MpuTypeOK, NEW word \in SUBSET (0..31), StoreRASR(word)
    PROVE  /\ rasr' \in [Regions -> SUBSET (0..31)] /\ rasr'[rnr] = word
           /\ \A o \in Regions \ {rnr} : rasr'[o] = rasr[o]
           /\ UNCHANGED <<rnr, rbar, ctrl, memfault>>
<1> QED BY DEF MpuTypeOK, StoreRASR

(* A store in a call for the region r. *)
LEMMA StoreInCall ==
    ASSUME MpuInv, Store, NEW r \in Regions, SettingRegion(r)
    PROVE  MpuInv'
<1> DEFINE address == asked[r].address
           attributes == <<"RASR", ARM_MPU_RASR(asked[r])>>
<1>1. table = <<>> /\ Switched /\ \A o \in Regions \ {r} : Right(o)
    BY DEF SettingRegion
<1>2. MpuTypeOK
    BY DEF MpuInv
<1>3. ASSUME UNCHANGED <<table, asked, ctrl, memfault>>, rnr' \in Regions,
             rbar' \in [Regions -> SUBSET (0..31)], rasr' \in [Regions -> SUBSET (0..31)],
             \A o \in Regions \ {r} : rbar'[o] = rbar[o] /\ rasr'[o] = rasr[o]
      PROVE  /\ MpuTypeOK' /\ table' = <<>> /\ Switched'
             /\ \A o \in Regions \ {r} : Right(o)'
    <2>1. MpuTypeOK'
        BY <1>2, <1>3 DEF MpuTypeOK
    <2>2. table' = <<>> /\ Switched'
        BY <1>1, <1>3 DEF Switched
    <2>3. ASSUME NEW o \in Regions \ {r} PROVE Right(o)'
        <3>1. Stays(o) /\ Right(o)
            BY <1>1, <1>3 DEF Stays
        <3> QED BY <3>1, StaysRight
    <2> QED BY <2>1, <2>2, <2>3
<1>4. /\ rnr \in Regions /\ rbar \in [Regions -> SUBSET (0..31)]
      /\ rasr \in [Regions -> SUBSET (0..31)]
    BY <1>2 DEF MpuTypeOK
<1>5. CASE asked[r] = Off /\ stores = <<<<"RNR", r>>, <<"RASR", {}>>>>
    <2>1. First("RNR", r, <<<<"RASR", {}>>>>)
        BY <1>5, Lists DEF First
    <2>2. /\ stores' = <<<<"RASR", {}>>>> /\ rnr' = r
          /\ UNCHANGED <<table, asked, rbar, rasr, ctrl, memfault>>
        BY <2>1, StoresFirst, Zenon
    <2>3. SettingRegion(r)'
        BY <1>3, <1>4, <1>5, <2>2 DEF SettingRegion
    <2> QED BY <1>3, <1>4, <2>2, <2>3 DEF MpuInv
<1>6. CASE asked[r] = Off /\ stores = <<<<"RASR", {}>>>> /\ rnr = r
    <2>1. First("RASR", {}, <<>>)
        BY <1>6, Lists DEF First
    <2>2. stores' = <<>> /\ StoreRASR({}) /\ UNCHANGED <<table, asked>>
        BY <2>1, StoresFirst, Zenon
    <2>3. /\ rasr' \in [Regions -> SUBSET (0..31)] /\ rasr'[r] = {}
          /\ \A o \in Regions \ {r} : rasr'[o] = rasr[o]
          /\ UNCHANGED <<rnr, rbar, ctrl, memfault>>
        BY <1>2, <1>6, <2>2, GetsAttributes
    <2>4. Right(r)'
        BY <1>6, <2>2, <2>3 DEF Right
    <2>5. /\ MpuTypeOK' /\ table' = <<>> /\ Switched'
          /\ \A o \in Regions \ {r} : Right(o)'
        BY <1>3, <1>4, <2>2, <2>3
    <2>6. Resting'
        BY <2>2, <2>4, <2>5 DEF Resting, Idle
    <2> QED BY <2>5, <2>6 DEF MpuInv
<1>7. ASSUME asked[r] \in Wants
      PROVE  /\ MPU_RBAR.VALID.mask \subseteq ARM_MPU_RBAR(r, address)
             /\ Number(ARM_MPU_RBAR(r, address) \cap MPU_RBAR.REGION.mask) = r
             /\ ARM_MPU_RBAR(r, address) \cap MPU_RBAR.ADDR.mask = address
             /\ ~(MPU_RBAR.VALID.mask \subseteq address)
             /\ address \cap MPU_RBAR.ADDR.mask = address
             /\ address \in SUBSET (0..31)
             /\ ARM_MPU_RASR(asked[r]) \in SUBSET (0..31)
    BY <1>7, RowWords
<1>8. ASSUME asked[r] \in Wants, NEW word, First("RBAR", word, <<attributes>>),
             \/ word = ARM_MPU_RBAR(r, address)
             \/ word = address /\ rnr = r
      PROVE  MpuInv'
    <2>1. stores' = <<attributes>> /\ StoreRBAR(word) /\ UNCHANGED <<table, asked>>
        BY <1>8, StoresFirst, Zenon
    <2>2. /\ rnr' = r /\ rbar' \in [Regions -> SUBSET (0..31)] /\ rbar'[r] = address
          /\ \A o \in Regions \ {r} : rbar'[o] = rbar[o]
          /\ UNCHANGED <<rasr, ctrl, memfault>>
        <3>1. /\ address \in SUBSET (0..31) /\ word \cap MPU_RBAR.ADDR.mask = address
              /\ \/ MPU_RBAR.VALID.mask \subseteq word /\ Number(word \cap MPU_RBAR.REGION.mask) = r
                 \/ ~(MPU_RBAR.VALID.mask \subseteq word) /\ rnr = r
            BY <1>7, <1>8
        <3> HIDE DEF address
        <3> QED BY <1>2, <2>1, <3>1, GetsAddress, Zenon
    <2>3. /\ MpuTypeOK' /\ table' = <<>> /\ Switched'
          /\ \A o \in Regions \ {r} : Right(o)'
        BY <1>3, <1>4, <2>1, <2>2
    <2>4. SettingRegion(r)'
        BY <1>8, <2>1, <2>2, <2>3, Zenon DEF SettingRegion
    <2> QED BY <2>3, <2>4 DEF MpuInv
<1>9. CASE asked[r] \in Wants /\ stores = <<<<"RBAR", ARM_MPU_RBAR(r, address)>>, attributes>>
    <2>1. First("RBAR", ARM_MPU_RBAR(r, address), <<attributes>>)
        BY <1>9, Lists DEF First
    <2> QED BY <1>8, <1>9, <2>1
<1>10. CASE asked[r] \in Wants /\ stores = <<<<"RBAR", address>>, attributes>> /\ rnr = r
    <2>1. First("RBAR", address, <<attributes>>)
        BY <1>10, Lists DEF First
    <2> QED BY <1>8, <1>10, <2>1
<1>11. CASE asked[r] \in Wants /\ stores = <<<<"RNR", r>>, <<"RBAR", address>>, attributes>>
    <2>1. First("RNR", r, <<<<"RBAR", address>>, attributes>>)
        BY <1>11, Lists DEF First
    <2>2. /\ stores' = <<<<"RBAR", address>>, attributes>> /\ rnr' = r
          /\ UNCHANGED <<table, asked, rbar, rasr, ctrl, memfault>>
        BY <2>1, StoresFirst, Zenon
    <2>3. SettingRegion(r)'
        BY <1>3, <1>4, <1>11, <2>2 DEF SettingRegion
    <2> QED BY <1>3, <1>4, <2>2, <2>3 DEF MpuInv
<1>12. CASE asked[r] \in Wants /\ stores = <<attributes>> /\ rnr = r /\ rbar[r] = address
    <2>1. First("RASR", ARM_MPU_RASR(asked[r]), <<>>)
        BY <1>12, Lists DEF First
    <2>2. stores' = <<>> /\ StoreRASR(ARM_MPU_RASR(asked[r])) /\ UNCHANGED <<table, asked>>
        BY <2>1, StoresFirst, Zenon
    <2>3. /\ rasr' \in [Regions -> SUBSET (0..31)] /\ rasr'[r] = ARM_MPU_RASR(asked[r])
          /\ \A o \in Regions \ {r} : rasr'[o] = rasr[o]
          /\ UNCHANGED <<rnr, rbar, ctrl, memfault>>
        BY <1>2, <1>7, <1>12, <2>2, GetsAttributes
    <2>4. Right(r)'
        BY <1>12, <2>2, <2>3 DEF Right
    <2>5. /\ MpuTypeOK' /\ table' = <<>> /\ Switched'
          /\ \A o \in Regions \ {r} : Right(o)'
        BY <1>3, <1>4, <2>2, <2>3
    <2>6. Resting'
        BY <2>2, <2>4, <2>5 DEF Resting, Idle
    <2> QED BY <2>5, <2>6 DEF MpuInv
<1> QED BY <1>5, <1>6, <1>9, <1>10, <1>11, <1>12, Zenon DEF SettingRegion

(* A store while the unit is switched on or off. *)
LEMMA StoreInSwitch ==
    ASSUME MpuInv, Store, Switching
    PROVE  MpuInv'
<1>1. table = <<>> /\ MpuTypeOK /\ \A r \in Regions : Right(r)
    BY DEF Switching, MpuInv
<1>2. PICK control \in Controls :
          \/ /\ MPU_CTRL.ENABLE.mask \subseteq control
             /\ \/ stores = <<<<"CTRL", control>>, <<"SHCSR", TRUE>>>>
                \/ stores = <<<<"SHCSR", TRUE>>>> /\ ctrl = control
          \/ /\ MPU_CTRL.ENABLE.mask \cap control = {}
             /\ \/ stores = <<<<"SHCSR", FALSE>>, <<"CTRL", control>>>>
                \/ stores = <<<<"CTRL", control>>>> /\ memfault = FALSE
    BY DEF Switching
<1>3. ASSUME UNCHANGED <<table, asked, rnr, rbar, rasr>>, ctrl' \in Controls,
             memfault' \in BOOLEAN
      PROVE  MpuTypeOK' /\ table' = <<>> /\ \A r \in Regions : Right(r)'
    <2>1. MpuTypeOK'
        BY <1>1, <1>3 DEF MpuTypeOK
    <2>2. ASSUME NEW r \in Regions PROVE Right(r)'
        <3>1. Stays(r) /\ Right(r)
            BY <1>1, <1>3 DEF Stays
        <3> QED BY <3>1, StaysRight
    <2> QED BY <1>1, <1>3, <2>1, <2>2
<1>4. ctrl \in Controls /\ memfault \in BOOLEAN
    BY <1>1 DEF MpuTypeOK
<1>5. MPU_CTRL.ENABLE.mask \cap control = {} => ~(MPU_CTRL.ENABLE.mask \subseteq control)
    BY DEF MPU_CTRL, Unshifted
<1>6. CASE /\ MPU_CTRL.ENABLE.mask \subseteq control
           /\ stores = <<<<"CTRL", control>>, <<"SHCSR", TRUE>>>>
    <2>1. First("CTRL", control, <<<<"SHCSR", TRUE>>>>)
        BY <1>6, Lists, Zenon DEF First
    <2>2. /\ stores' = <<<<"SHCSR", TRUE>>>> /\ ctrl' = control
          /\ UNCHANGED <<table, asked, rnr, rbar, rasr, memfault>>
        BY <2>1, StoresFirst, Zenon
    <2>3. Switching'
        BY <1>3, <1>4, <1>6, <2>2, Zenon DEF Switching
    <2> QED BY <1>3, <1>4, <2>2, <2>3 DEF MpuInv
<1>7. CASE MPU_CTRL.ENABLE.mask \subseteq control /\ stores = <<<<"SHCSR", TRUE>>>> /\ ctrl = control
    <2>1. First("SHCSR", TRUE, <<>>)
        BY <1>7, Lists, Zenon DEF First
    <2>2. stores' = <<>> /\ memfault' = TRUE /\ UNCHANGED <<table, asked, rnr, rbar, rasr, ctrl>>
        BY <2>1, StoresFirst, Zenon
    <2>3. Switched'
        BY <1>7, <2>2, Zenon DEF Switched
    <2>4. MpuTypeOK' /\ table' = <<>> /\ \A r \in Regions : Right(r)'
        BY <1>3, <1>4, <2>2, Zenon
    <2> QED BY <2>2, <2>3, <2>4 DEF MpuInv, Resting, Idle
<1>8. CASE /\ MPU_CTRL.ENABLE.mask \cap control = {}
           /\ stores = <<<<"SHCSR", FALSE>>, <<"CTRL", control>>>>
    <2>1. First("SHCSR", FALSE, <<<<"CTRL", control>>>>)
        BY <1>8, Lists, Zenon DEF First
    <2>2. /\ stores' = <<<<"CTRL", control>>>> /\ memfault' = FALSE
          /\ UNCHANGED <<table, asked, rnr, rbar, rasr, ctrl>>
        BY <2>1, StoresFirst, Zenon
    <2>3. MpuTypeOK' /\ table' = <<>> /\ \A r \in Regions : Right(r)'
        BY <1>3, <1>4, <2>2, Zenon
    <2>4. Switching'
        BY <1>8, <2>2, <2>3, Zenon DEF Switching
    <2> QED BY <2>3, <2>4 DEF MpuInv
<1>9. CASE MPU_CTRL.ENABLE.mask \cap control = {} /\ stores = <<<<"CTRL", control>>>> /\ memfault = FALSE
    <2>1. First("CTRL", control, <<>>)
        BY <1>9, Lists, Zenon DEF First
    <2>2. /\ stores' = <<>> /\ ctrl' = control
          /\ UNCHANGED <<table, asked, rnr, rbar, rasr, memfault>>
        BY <2>1, StoresFirst, Zenon
    <2>3. Switched'
        BY <1>5, <1>9, <2>2, Zenon DEF Switched
    <2>4. MpuTypeOK' /\ table' = <<>> /\ \A r \in Regions : Right(r)'
        BY <1>3, <1>4, <2>2, Zenon
    <2> QED BY <2>2, <2>3, <2>4 DEF MpuInv, Resting, Idle
<1> QED BY <1>2, <1>6, <1>7, <1>8, <1>9, Zenon

(* What a row is, and what is left of a table behind its first rows. *)
LEMMA RowOf ==
    ASSUME NEW rows \in Seq(Settings), NEW k \in DOMAIN rows
    PROVE  rows[k].region \in Regions /\ rows[k].want \in Wants
<1>1. rows[k] \in Settings
    OBVIOUS
<1> HIDE DEF Regions, Wants
<1> QED BY <1>1 DEF Settings

LEMMA RowsBehind ==
    ASSUME NEW rows \in Seq(Settings), NEW n \in Nat, n <= Len(rows)
    PROVE  LET behind == SubSeq(rows, n + 1, Len(rows))
           IN  /\ behind \in Seq(Settings) /\ DOMAIN behind = 1..Len(rows) - n
               /\ \A k \in 1..Len(rows) - n : behind[k] = rows[k + n]
<1> DEFINE behind == SubSeq(rows, n + 1, Len(rows))
<1>1. Len(rows) \in Nat /\ Len(rows) - n \in Nat
    OBVIOUS
<1>2. n + 1 \in Int /\ Len(rows) \in Int /\ \A i \in n + 1..Len(rows) : rows[i] \in Settings
    BY <1>1
<1>3. /\ behind \in Seq(Settings)
      /\ Len(behind) = IF n + 1 <= Len(rows) THEN Len(rows) - (n + 1) + 1 ELSE 0
      /\ \A i \in 1..Len(rows) - (n + 1) + 1 : behind[i] = rows[n + 1 + i - 1]
    BY <1>2, SubSeqProperties
<1> HIDE DEF behind
<1>4. Len(rows) - (n + 1) + 1 = Len(rows) - n /\ Len(behind) = Len(rows) - n
    BY <1>1, <1>3
<1>5. \A i \in 1..Len(rows) - n : n + 1 + i - 1 = i + n
    BY <1>1
<1>6. DOMAIN behind = 1..Len(rows) - n /\ \A k \in 1..Len(rows) - n : behind[k] = rows[k + n]
    BY <1>3, <1>4, <1>5
<1> QED BY <1>3, <1>6 DEF behind

(* What a table asks of a region is what its last row for it has. *)
LEMMA LastRow ==
    ASSUME NEW rows \in Seq(Settings), NEW k \in DOMAIN rows,
           \A j \in DOMAIN rows : rows[j].region = rows[k].region => j <= k
    PROVE  Last(rows, rows[k].region) = rows[k].want
<1> DEFINE its == {j \in DOMAIN rows : rows[j].region = rows[k].region}
<1>1. k \in its /\ \A j \in its : j \in Int /\ k >= j
    OBVIOUS
<1>2. \A j \in its : (\A i \in its : j >= i) => j = k
    BY <1>1
<1> HIDE DEF its
<1>3. Max(its) = k
    BY <1>1, <1>2 DEF Max
<1>4. its # {}
    BY <1>1
<1> QED BY <1>3, <1>4, Zenon DEF Last, its

(* A table to be loaded: what its rows are for is what is asked of the regions. *)
LEMMA Loads ==
    ASSUME MpuInv, NEW rows \in Tables, ARM_MPU_Load(rows)
    PROVE  MpuInv'
<1>1. rows \in Seq(Settings)
    BY MpuAssumption
<1>2. Resting /\ MpuTypeOK
    BY Stage DEF ARM_MPU_Load, MpuInv
<1>3. /\ table' = rows /\ copied' = 0 /\ asked' = [r \in Regions |-> Last(rows, r)]
      /\ UNCHANGED <<rnr, rbar, rasr, ctrl, memfault, stores>>
    BY DEF ARM_MPU_Load
<1>4. asked' = [r \in Regions |-> asked'[r]] /\ \A r \in Regions : asked'[r] = Last(rows, r)
    BY <1>3
<1>5. MpuTypeOK'
    BY <1>1, <1>2, <1>3, <1>4 DEF MpuTypeOK
<1>6. stores' = <<>> /\ Switched'
    BY <1>2, <1>3 DEF Resting, Idle, Switched
<1>7. ASSUME NEW r \in Regions, {k \in DOMAIN rows : rows[k].region = r} = {}
      PROVE  Right(r)'
    <2>1. Last(rows, r) = asked[r]
        BY <1>7 DEF Last
    <2>2. Stays(r) /\ Right(r)
        BY <1>2, <1>3, <1>4, <2>1 DEF Stays, Resting
    <2> QED BY <2>2, StaysRight
<1>8. CASE rows = <<>>
    <2>1. DOMAIN rows = {}
        BY <1>8
    <2>2. \A r \in Regions : Right(r)'
        BY <1>7, <2>1
    <2>3. Resting'
        BY <1>3, <1>6, <1>8, <2>2 DEF Resting, Idle
    <2> QED BY <1>5, <2>3 DEF MpuInv
<1>9. CASE rows # <<>>
    <2>1. DOMAIN rows = 1..Len(rows) /\ Len(rows) \in Nat
        BY <1>1
    <2>2. copied' \div 2 = 0 /\ copied' % 2 = 0
        BY <1>3
    <2>3. copied' \in 0..2 * Part'
        BY <1>3, <2>1 DEF Part, RALIASES
    <2>4. ASSUME NEW r \in Regions, Left(r)' = {} PROVE Right(r)'
        <3>1. {k \in DOMAIN rows : rows[k].region = r} = {}
            BY <1>3, <2>1, <2>2, <2>4 DEF Left
        <3> QED BY <1>7, <3>1
    <2>5. ASSUME NEW k \in DOMAIN rows, LastLeft(k)'
          PROVE  asked'[rows[k].region] = rows[k].want
        <3>1. rows[k].region \in Regions
            BY <1>1, RowOf
        <3>2. ASSUME NEW j \in DOMAIN rows, rows[j].region = rows[k].region PROVE j <= k
            BY <1>3, <2>1, <2>2, <2>5, <3>2 DEF LastLeft, Left
        <3> QED BY <1>1, <1>4, <3>1, <3>2, LastRow
    <2>6. Loading'
        BY <1>3, <1>6, <2>2, <2>3, <2>4, <2>5 DEF Loading
    <2> QED BY <1>3, <1>5, <1>9, <2>6 DEF MpuInv
<1> QED BY <1>8, <1>9

(* The word that is copied next, the row it is of, and that the addresses reach it. *)
LEMMA Reached ==
    ASSUME MpuTypeOK, table # <<>>, copied \in Nat, copied < 2 * Part
    PROVE  /\ copied < 2 * Aliases /\ (copied \div 2) + 1 \in DOMAIN table
           /\ \/ copied % 2 = 0 /\ (copied + 1) \div 2 = copied \div 2 /\ (copied + 1) % 2 = 1
              \/ /\ copied % 2 = 1 /\ (copied + 1) \div 2 = (copied \div 2) + 1
                 /\ (copied + 1) % 2 = 0
<1>1. DOMAIN table = 1..Len(table) /\ Len(table) \in Nat
    BY DEF MpuTypeOK
<1>2. Part \in Nat /\ Part <= 4 /\ Part <= Len(table)
    BY <1>1 DEF Part, RALIASES
<1>3. copied < 2 * Aliases
    BY <1>2 DEF Aliases
<1>4. copied \div 2 \in Nat /\ copied \div 2 < Part
    BY <1>2
<1>5. (copied \div 2) + 1 \in DOMAIN table
    BY <1>1, <1>2, <1>4
<1>6. \/ copied % 2 = 0 /\ (copied + 1) \div 2 = copied \div 2 /\ (copied + 1) % 2 = 1
      \/ /\ copied % 2 = 1 /\ (copied + 1) \div 2 = (copied \div 2) + 1
         /\ (copied + 1) % 2 = 0
    OBVIOUS
<1> QED BY <1>3, <1>5, <1>6

(* An address is stored, and the attributes behind it make the row's region right. *)
LEMMA Copies ==
    ASSUME MpuInv, ARM_MPU_OrderedMemcpy
    PROVE  MpuInv'
<1> DEFINE q == copied \div 2
           row == table[q + 1]
<1>1. MpuTypeOK /\ Loading
    BY Stage DEF MpuInv, ARM_MPU_OrderedMemcpy
<1>2. copied \in Nat /\ Part \in Nat
    BY <1>1 DEF Loading, MpuTypeOK, Part, RALIASES
<1>3. /\ table # <<>> /\ copied < 2 * Part /\ copied' = copied + 1
      /\ UNCHANGED <<stores, table, calls, asked>>
      /\ StoreWord(copied, IF copied % 2 = 0 THEN Row(row.region, row.want).RBAR
                                             ELSE Row(row.region, row.want).RASR)
    BY DEF ARM_MPU_OrderedMemcpy
<1>4. /\ copied < 2 * Aliases /\ q + 1 \in DOMAIN table
      /\ \/ copied % 2 = 0 /\ copied' \div 2 = q /\ copied' % 2 = 1
         \/ copied % 2 = 1 /\ copied' \div 2 = q + 1 /\ copied' % 2 = 0
    BY <1>1, <1>2, <1>3, Reached
<1>5. row.region \in Regions /\ row.want \in Wants
    <2>1. table \in Seq(Settings) /\ q + 1 \in DOMAIN table
        BY <1>1, <1>4 DEF MpuTypeOK
    <2> QED BY <2>1, RowOf
<1>6. q \in Nat /\ Part' = Part /\ copied' \in 0..2 * Part' /\ DOMAIN table \subseteq Nat
    BY <1>1, <1>2, <1>3 DEF MpuTypeOK, Part
<1>7. ~(copied >= 2 * Aliases)
    BY <1>2, <1>4 DEF Aliases
<1> HIDE DEF q, row
<1>8. CASE copied % 2 = 0 /\ copied' \div 2 = q /\ copied' % 2 = 1
    <2>1. StoreRBAR(ARM_MPU_RBAR(row.region, row.want.address))
        BY <1>3, <1>7, <1>8 DEF StoreWord, Row
    <2>2. /\ rnr' = row.region /\ rbar' \in [Regions -> SUBSET (0..31)]
          /\ rbar'[row.region] = row.want.address
          /\ \A o \in Regions \ {row.region} : rbar'[o] = rbar[o]
          /\ UNCHANGED <<rasr, ctrl, memfault>>
        <3> DEFINE word == ARM_MPU_RBAR(row.region, row.want.address)
        <3>1. /\ MPU_RBAR.VALID.mask \subseteq word /\ Number(word \cap MPU_RBAR.REGION.mask) = row.region
              /\ word \cap MPU_RBAR.ADDR.mask = row.want.address
              /\ row.want.address \in SUBSET (0..31)
            BY <1>5, RowWords
        <3>2. StoreRBAR(word)
            BY <2>1
        <3> HIDE DEF word
        <3> QED BY <1>1, <1>5, <3>1, <3>2, GetsAddress, Zenon
    <2>3. MpuTypeOK'
        BY <1>1, <1>3, <1>5, <2>2 DEF MpuTypeOK
    <2>4. Switched' /\ stores' = <<>>
        BY <1>1, <1>3, <2>2 DEF Loading, Switched
    <2>5. \A r : Left(r)' = Left(r)
        BY <1>3, <1>8 DEF Left, q
    <2>6. q + 1 \in Left(row.region)
        BY <1>4, <1>6 DEF Left, row, q
    <2>7. ASSUME NEW r \in Regions, Left(r)' = {} PROVE Right(r)'
        <3>1. Left(r) = {} /\ r # row.region
            BY <2>5, <2>6, <2>7
        <3>2. Stays(r) /\ Right(r)
            BY <1>1, <1>3, <2>2, <3>1 DEF Stays, Loading
        <3> QED BY <3>2, StaysRight
    <2>8. ASSUME NEW k \in DOMAIN table, q < k, LastLeft(k)'
          PROVE  asked'[table[k].region] = table[k].want
        <3>1. LastLeft(k)
            BY <1>3, <2>5, <2>8 DEF LastLeft
        <3> QED BY <1>1, <1>3, <2>8, <3>1 DEF Loading, q
    <2>9. rnr' = table[q + 1].region /\ rbar'[rnr'] = table[q + 1].want.address
        BY <2>2 DEF row
    <2>10. Loading'
        BY <1>3, <1>6, <1>8, <2>4, <2>7, <2>8, <2>9 DEF Loading
    <2> QED BY <1>3, <2>3, <2>10 DEF MpuInv
<1>9. CASE copied % 2 = 1 /\ copied' \div 2 = q + 1 /\ copied' % 2 = 0
    <2>1. StoreRASR(ARM_MPU_RASR(row.want))
        BY <1>3, <1>7, <1>9 DEF StoreWord, Row
    <2>2. rnr = row.region /\ rbar[row.region] = row.want.address
        BY <1>1, <1>9 DEF Loading, row, q
    <2>3. /\ rasr' \in [Regions -> SUBSET (0..31)]
          /\ rasr'[row.region] = ARM_MPU_RASR(row.want)
          /\ \A o \in Regions \ {row.region} : rasr'[o] = rasr[o]
          /\ UNCHANGED <<rnr, rbar, ctrl, memfault>>
        BY <1>1, <1>5, <2>1, <2>2, RowWords, GetsAttributes
    <2>4. MpuTypeOK'
        BY <1>1, <1>3, <2>3 DEF MpuTypeOK
    <2>5. Switched' /\ stores' = <<>>
        BY <1>1, <1>3, <2>3 DEF Loading, Switched
    <2>6. \A r, k : k \in Left(r)' <=> k \in Left(r) /\ k # q + 1
        <3>1. \A r, k : k \in Left(r)' <=> k \in DOMAIN table /\ q + 1 < k /\ table[k].region = r
            BY <1>3, <1>9 DEF Left
        <3>2. \A r, k : k \in Left(r) <=> k \in DOMAIN table /\ q < k /\ table[k].region = r
            BY DEF Left, q
        <3>3. \A k \in DOMAIN table : q + 1 < k <=> q < k /\ k # q + 1
            BY <1>6
        <3> QED BY <3>1, <3>2, <3>3, Zenon
    <2>7. q + 1 \in DOMAIN table /\ q < q + 1 /\ table[q + 1] = row
        BY <1>4, <1>6 DEF row
    <2>8. ASSUME NEW r \in Regions, Left(r)' = {} PROVE Right(r)'
        <3>1. CASE r # row.region
            <4>1. q + 1 \notin Left(r)
                BY <2>7, <3>1 DEF Left
            <4>2. Left(r) = {}
                BY <2>6, <2>8, <4>1
            <4>3. Stays(r) /\ Right(r)
                BY <1>1, <1>3, <2>3, <3>1, <4>2 DEF Stays, Loading
            <4> QED BY <4>3, StaysRight
        <3>2. CASE r = row.region
            <4>1. \A j \in Left(r) : j = q + 1
                BY <2>6, <2>8
            <4>2. LastLeft(q + 1)
                BY <1>6, <2>7, <3>2, <4>1 DEF LastLeft
            <4>3. asked[row.region] = row.want
                BY <1>1, <2>7, <4>2 DEF Loading, q
            <4> QED BY <1>3, <1>5, <2>2, <2>3, <3>2, <4>3 DEF Right
        <3> QED BY <3>1, <3>2
    <2>9. ASSUME NEW k \in DOMAIN table, q + 1 < k, LastLeft(k)'
          PROVE  asked'[table[k].region] = table[k].want
        <3>1. \A j \in Left(table[k].region)' : j <= k
            BY <1>3, <2>9 DEF LastLeft
        <3>2. LastLeft(k)
            <4>1. ASSUME NEW j \in Left(table[k].region) PROVE j <= k
                <5>1. CASE j = q + 1
                    BY <1>6, <2>9, <5>1
                <5>2. CASE j # q + 1
                    BY <1>3, <2>6, <3>1, <4>1, <5>2
                <5> QED BY <5>1, <5>2
            <4> QED BY <4>1 DEF LastLeft
        <3>3. q < k
            BY <1>6, <2>9
        <3> QED BY <1>1, <1>3, <3>2, <3>3 DEF Loading, q
    <2>10. Loading'
        BY <1>3, <1>6, <1>9, <2>5, <2>8, <2>9 DEF Loading
    <2> QED BY <1>3, <2>4, <2>10 DEF MpuInv
<1> QED BY <1>4, <1>8, <1>9

(* The rows of the next part. *)
LEMMA TakesNextPart ==
    ASSUME MpuInv, NextPart
    PROVE  MpuInv'
<1>1. MpuTypeOK /\ Loading
    BY Stage DEF MpuInv, NextPart
<1>2. /\ copied = 2 * Part /\ table' = SubSeq(table, Part + 1, Len(table)) /\ copied' = 0
      /\ UNCHANGED <<rnr, rbar, rasr, ctrl, memfault, stores, asked>>
    BY DEF NextPart
<1>3. /\ table \in Seq(Settings) /\ DOMAIN table = 1..Len(table) /\ Len(table) \in Nat
      /\ Part \in Nat /\ Part <= Len(table)
    BY <1>1 DEF MpuTypeOK, Part, RALIASES
<1>4. copied \div 2 = Part /\ copied' \div 2 = 0 /\ copied' % 2 = 0
    BY <1>2, <1>3
<1> DEFINE rest == Len(table) - Part
<1>5. /\ table' \in Seq(Settings) /\ DOMAIN table' = 1..rest /\ rest \in Nat
      /\ \A k \in 1..rest : table'[k] = table[k + Part] /\ k + Part \in DOMAIN table
    <2>1. /\ table' \in Seq(Settings) /\ DOMAIN table' = 1..rest
          /\ \A k \in 1..rest : table'[k] = table[k + Part]
        BY <1>2, <1>3, RowsBehind
    <2>2. rest \in Nat /\ \A k \in 1..rest : k + Part \in DOMAIN table
        BY <1>3
    <2> QED BY <2>1, <2>2
<1>6. MpuTypeOK'
    BY <1>1, <1>2, <1>5 DEF MpuTypeOK
<1>7. stores' = <<>> /\ Switched'
    BY <1>1, <1>2 DEF Loading, Switched
<1>8. ASSUME NEW j \in DOMAIN table, Part < j
      PROVE  j - Part \in DOMAIN table' /\ table'[j - Part] = table[j]
    <2>1. j - Part \in 1..rest /\ (j - Part) + Part = j
        BY <1>3, <1>8
    <2> QED BY <1>5, <2>1
<1>9. ASSUME NEW r \in Regions, Left(r)' = {} PROVE Right(r)'
    <2>1. ASSUME NEW j \in Left(r) PROVE FALSE
        <3>1. j \in DOMAIN table /\ Part < j /\ table[j].region = r
            BY <1>4, <2>1 DEF Left
        <3>2. j - Part \in DOMAIN table' /\ 0 < j - Part /\ table'[j - Part].region = r
            BY <1>3, <1>8, <3>1
        <3>3. j - Part \in Left(r)'
            BY <1>4, <3>2 DEF Left
        <3> QED BY <1>9, <3>3
    <2>2. Stays(r) /\ Right(r)
        BY <1>1, <1>2, <2>1 DEF Stays, Loading
    <2> QED BY <2>2, StaysRight
<1>10. CASE table' = <<>>
    <2>1. DOMAIN table' = {}
        BY <1>10
    <2>2. \A r \in Regions : Left(r)' = {}
        BY <2>1 DEF Left
    <2>3. Resting'
        BY <1>7, <1>9, <1>10, <2>2 DEF Resting, Idle
    <2> QED BY <1>6, <2>3 DEF MpuInv
<1>11. CASE table' # <<>>
    <2>1. ASSUME NEW k \in DOMAIN table', LastLeft(k)'
          PROVE  asked'[table'[k].region] = table'[k].want
        <3>1. k + Part \in DOMAIN table /\ table'[k] = table[k + Part] /\ Part < k + Part
            BY <1>3, <1>5
        <3>2. LastLeft(k + Part)
            <4>1. ASSUME NEW j \in Left(table[k + Part].region) PROVE j <= k + Part
                <5>1. j \in DOMAIN table /\ Part < j /\ table[j].region = table[k + Part].region
                    BY <1>4, <4>1 DEF Left
                <5>2. /\ j - Part \in DOMAIN table' /\ 0 < j - Part
                      /\ table'[j - Part].region = table'[k].region
                    BY <1>3, <1>8, <3>1, <5>1
                <5>3. j - Part \in Left(table[k].region)'
                    BY <1>4, <5>2 DEF Left
                <5>4. j - Part <= k
                    BY <2>1, <5>3 DEF LastLeft
                <5> QED BY <1>3, <1>5, <5>1, <5>4
            <4> QED BY <4>1 DEF LastLeft
        <3> QED BY <1>1, <1>2, <1>4, <3>1, <3>2 DEF Loading
    <2>2. copied' \in 0..2 * Part'
        <3>1. Len(table') \in Nat
            BY <1>5
        <3>2. Part' \in Nat
            BY <3>1 DEF Part, RALIASES
        <3>3. \A part \in Nat : 0 \in 0..2 * part
            OBVIOUS
        <3>4. copied' = 0
            BY <1>2, Zenon
        <3> QED BY <3>2, <3>3, <3>4, Zenon
    <2>3. Loading'
        <3>1. \A r \in Regions : Left(r)' = {} => Right(r)'
            BY <1>9
        <3>2. \A k \in DOMAIN table' : LastLeft(k)' => asked'[table'[k].region] = table'[k].want
            BY <2>1
        <3>3. copied' % 2 # 1
            BY <1>4
        <3> QED BY <1>7, <2>2, <3>1, <3>2, <3>3, Zenon DEF Loading
    <2> QED BY <1>6, <1>11, <2>3 DEF MpuInv
<1> QED BY <1>10, <1>11

(* Every step keeps the invariant. *)
LEMMA MpuStep ==
    ASSUME MpuInv, [MpuNext]_mpuVars
    PROVE  MpuInv'
<1>1. CASE Store
    <2>1. (\E r \in Regions : SettingRegion(r)) \/ Switching
        BY <1>1, Stage DEF Store
    <2> QED BY <1>1, <2>1, StoreInCall, StoreInSwitch
<1>2. CASE UNCHANGED mpuVars
    BY <1>2 DEF mpuVars, MpuInv, MpuTypeOK, Resting, Idle, Switched, Right, SettingRegion,
       Switching, Loading, Left, LastLeft, Part
<1> QED BY <1>1, <1>2, SetsUp, SwitchesOver, Loads, Copies, TakesNextPart DEF MpuNext

----------------------------------------------------------------------------------------
(* Theorems on the protection unit *)

(* The unit rests between calls with every region right; in a call all others are right,
   and what is still stored makes up the rest. *)
THEOREM MpuInvariance == MpuSpec => []MpuInv
<1> QED BY MpuFresh, MpuStep, PTL DEF MpuSpec

(* Between calls the unit enforces, field by field, what the last call for each region
   asked for, alone or in a table of any length, and a violation has its own exception
   exactly while the unit is on. *)
THEOREM MpuAsAsked == MpuSpec => []AsAsked
<1>1. ASSUME MpuInv PROVE AsAsked
    <2>1. ASSUME Idle, NEW r \in Regions PROVE Enforces(r, asked[r])
        BY <1>1, <2>1, Stage, RightIsEnforced DEF Resting
    <2>2. Idle => memfault = (MPU_CTRL.ENABLE.mask \subseteq ctrl)
        BY <1>1, Stage, Zenon DEF Resting, Switched
    <2> QED BY <2>1, <2>2, Zenon DEF AsAsked
<1> QED BY <1>1, MpuInvariance, PTL
========================================================================================
