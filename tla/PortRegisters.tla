--------------------------------- MODULE PortRegisters ---------------------------------
(* The registers of the analogue converter, DMA, external interrupt lines and pins, as
   stm32f411xe.h defines them: every register of more than one field. The bits of one
   field that have names of their own (_0, _1, ...) are left out, and so are second
   names of a field. *)
EXTENDS RegisterLayout, Sequences

ADC_SR ==
    [AWD |-> Bit(0), EOC |-> Bit(1), JEOC |-> Bit(2), JSTRT |-> Bit(3), STRT |-> Bit(4),
     OVR |-> Bit(5)]
ADC_CR1 ==
    [AWDCH |-> Run(0, 5), EOCIE |-> Bit(5), AWDIE |-> Bit(6), JEOCIE |-> Bit(7),
     SCAN |-> Bit(8), AWDSGL |-> Bit(9), JAUTO |-> Bit(10), DISCEN |-> Bit(11),
     JDISCEN |-> Bit(12), DISCNUM |-> Run(13, 3), JAWDEN |-> Bit(22), AWDEN |-> Bit(23),
     RES |-> Run(24, 2), OVRIE |-> Bit(26)]
ADC_CR2 ==
    [ADON |-> Bit(0), CONT |-> Bit(1), DMA |-> Bit(8), DDS |-> Bit(9), EOCS |-> Bit(10),
     ALIGN |-> Bit(11), JEXTSEL |-> Run(16, 4), JEXTEN |-> Run(20, 2),
     JSWSTART |-> Bit(22), EXTSEL |-> Run(24, 4), EXTEN |-> Run(28, 2),
     SWSTART |-> Bit(30)]
ADC_SMPR1 == [channel \in 10..18 |-> Run(3 * (channel - 10), 3)]
ADC_SMPR2 == [channel \in 0..9 |-> Run(3 * channel, 3)]
ADC_SQR1 ==
    [SQ13 |-> Run(0, 5), SQ14 |-> Run(5, 5), SQ15 |-> Run(10, 5), SQ16 |-> Run(15, 5),
     L |-> Run(20, 4)]
ADC_SQR2 ==
    [SQ7 |-> Run(0, 5), SQ8 |-> Run(5, 5), SQ9 |-> Run(10, 5), SQ10 |-> Run(15, 5),
     SQ11 |-> Run(20, 5), SQ12 |-> Run(25, 5)]
ADC_SQR3 ==
    [SQ1 |-> Run(0, 5), SQ2 |-> Run(5, 5), SQ3 |-> Run(10, 5), SQ4 |-> Run(15, 5),
     SQ5 |-> Run(20, 5), SQ6 |-> Run(25, 5)]
ADC_JSQR ==
    [JSQ1 |-> Run(0, 5), JSQ2 |-> Run(5, 5), JSQ3 |-> Run(10, 5), JSQ4 |-> Run(15, 5),
     JL |-> Run(20, 2)]
ADC_DR == [DATA |-> Run(0, 16), ADC2DATA |-> Run(16, 16)]
ADC_CSR ==
    [AWD1 |-> Bit(0), EOC1 |-> Bit(1), JEOC1 |-> Bit(2), JSTRT1 |-> Bit(3),
     STRT1 |-> Bit(4), OVR1 |-> Bit(5)]
ADC_CCR ==
    [MULTI |-> Run(0, 5), DELAY |-> Run(8, 4), DDS |-> Bit(13), DMA |-> Run(14, 2),
     ADCPRE |-> Run(16, 2), VBATE |-> Bit(22), TSVREFE |-> Bit(23)]
ADC_CDR == [DATA1 |-> Run(0, 16), DATA2 |-> Run(16, 16)]

DMA_SxCR ==
    [CHSEL |-> Run(25, 3), MBURST |-> Run(23, 2), PBURST |-> Run(21, 2), CT |-> Bit(19),
     DBM |-> Bit(18), PL |-> Run(16, 2), PINCOS |-> Bit(15), MSIZE |-> Run(13, 2),
     PSIZE |-> Run(11, 2), MINC |-> Bit(10), PINC |-> Bit(9), CIRC |-> Bit(8),
     DIR |-> Run(6, 2), PFCTRL |-> Bit(5), TCIE |-> Bit(4), HTIE |-> Bit(3),
     TEIE |-> Bit(2), DMEIE |-> Bit(1), EN |-> Bit(0), ACK |-> Bit(20)]
DMA_SxFCR == [FEIE |-> Bit(7), FS |-> Run(3, 3), DMDIS |-> Bit(2), FTH |-> Run(0, 2)]
\* Four streams to a register: their flags, then the bits that clear them.
DMA_LISR ==
    [TCIF3 |-> Bit(27), HTIF3 |-> Bit(26), TEIF3 |-> Bit(25), DMEIF3 |-> Bit(24),
     FEIF3 |-> Bit(22), TCIF2 |-> Bit(21), HTIF2 |-> Bit(20), TEIF2 |-> Bit(19),
     DMEIF2 |-> Bit(18), FEIF2 |-> Bit(16), TCIF1 |-> Bit(11), HTIF1 |-> Bit(10),
     TEIF1 |-> Bit(9), DMEIF1 |-> Bit(8), FEIF1 |-> Bit(6), TCIF0 |-> Bit(5),
     HTIF0 |-> Bit(4), TEIF0 |-> Bit(3), DMEIF0 |-> Bit(2), FEIF0 |-> Bit(0)]
DMA_HISR ==
    [TCIF7 |-> Bit(27), HTIF7 |-> Bit(26), TEIF7 |-> Bit(25), DMEIF7 |-> Bit(24),
     FEIF7 |-> Bit(22), TCIF6 |-> Bit(21), HTIF6 |-> Bit(20), TEIF6 |-> Bit(19),
     DMEIF6 |-> Bit(18), FEIF6 |-> Bit(16), TCIF5 |-> Bit(11), HTIF5 |-> Bit(10),
     TEIF5 |-> Bit(9), DMEIF5 |-> Bit(8), FEIF5 |-> Bit(6), TCIF4 |-> Bit(5),
     HTIF4 |-> Bit(4), TEIF4 |-> Bit(3), DMEIF4 |-> Bit(2), FEIF4 |-> Bit(0)]
DMA_LIFCR ==
    [CTCIF3 |-> Bit(27), CHTIF3 |-> Bit(26), CTEIF3 |-> Bit(25), CDMEIF3 |-> Bit(24),
     CFEIF3 |-> Bit(22), CTCIF2 |-> Bit(21), CHTIF2 |-> Bit(20), CTEIF2 |-> Bit(19),
     CDMEIF2 |-> Bit(18), CFEIF2 |-> Bit(16), CTCIF1 |-> Bit(11), CHTIF1 |-> Bit(10),
     CTEIF1 |-> Bit(9), CDMEIF1 |-> Bit(8), CFEIF1 |-> Bit(6), CTCIF0 |-> Bit(5),
     CHTIF0 |-> Bit(4), CTEIF0 |-> Bit(3), CDMEIF0 |-> Bit(2), CFEIF0 |-> Bit(0)]
DMA_HIFCR ==
    [CTCIF7 |-> Bit(27), CHTIF7 |-> Bit(26), CTEIF7 |-> Bit(25), CDMEIF7 |-> Bit(24),
     CFEIF7 |-> Bit(22), CTCIF6 |-> Bit(21), CHTIF6 |-> Bit(20), CTEIF6 |-> Bit(19),
     CDMEIF6 |-> Bit(18), CFEIF6 |-> Bit(16), CTCIF5 |-> Bit(11), CHTIF5 |-> Bit(10),
     CTEIF5 |-> Bit(9), CDMEIF5 |-> Bit(8), CFEIF5 |-> Bit(6), CTCIF4 |-> Bit(5),
     CHTIF4 |-> Bit(4), CTEIF4 |-> Bit(3), CDMEIF4 |-> Bit(2), CFEIF4 |-> Bit(0)]

\* Bit n of every register of this unit belongs to line n. (IM is all of IMR.)
EXTI_IMR == [line \in 0..22 |-> Bit(line)]
EXTI_EMR == [line \in 0..22 |-> Bit(line)]
EXTI_RTSR == [line \in 0..22 |-> Bit(line)]
EXTI_FTSR == [line \in 0..22 |-> Bit(line)]
EXTI_SWIER == [line \in 0..22 |-> Bit(line)]
EXTI_PR == [line \in 0..22 |-> Bit(line)]

\* Mutant: the two bits of a pin begin one too high.
GPIO_MODER_Shifted == [pin \in 0..15 |-> Run(2 * pin + 1, 2)]

GPIO_MODER == [pin \in 0..15 |-> Run(2 * pin, 2)]
GPIO_OTYPER == [pin \in 0..15 |-> Bit(pin)]
GPIO_OSPEEDR == [pin \in 0..15 |-> Run(2 * pin, 2)]
GPIO_PUPDR == [pin \in 0..15 |-> Run(2 * pin, 2)]
GPIO_IDR == [pin \in 0..15 |-> Bit(pin)]
GPIO_ODR == [pin \in 0..15 |-> Bit(pin)]
\* Bits 0..15 set a pin, bits 16..31 reset one.
GPIO_BSRR == [half \in {0, 16}, pin \in 0..15 |-> Bit(half + pin)]
\* Defined by the upper half of BSRR.
GPIO_BRR == [pin \in 0..15 |-> GPIO_BSRR[16, pin]]
\* Bit 16 is the lock key.
GPIO_LCKR == [bit \in 0..16 |-> Bit(bit)]
GPIO_AFRL == [pin \in 0..7 |-> Run(4 * pin, 4)]
GPIO_AFRH == [pin \in 8..15 |-> Run(4 * (pin - 8), 4)]

PortLayouts ==
    <<ADC_SR, ADC_CR1, ADC_CR2, ADC_SMPR1, ADC_SMPR2, ADC_SQR1, ADC_SQR2, ADC_SQR3,
      ADC_JSQR, ADC_DR, ADC_CSR, ADC_CCR, ADC_CDR, DMA_SxCR, DMA_SxFCR, DMA_LISR,
      DMA_HISR, DMA_LIFCR, DMA_HIFCR, EXTI_IMR, EXTI_EMR, EXTI_RTSR, EXTI_FTSR,
      EXTI_SWIER, EXTI_PR, GPIO_MODER, GPIO_OTYPER, GPIO_OSPEEDR, GPIO_PUPDR, GPIO_IDR,
      GPIO_ODR, GPIO_BSRR, GPIO_BRR, GPIO_LCKR, GPIO_AFRL, GPIO_AFRH>>
========================================================================================
