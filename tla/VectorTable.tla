---------------------------------- MODULE VectorTable ----------------------------------
(* The interrupts of the STM32F411 by their numbers, as stm32f411xe.h has them, and the
   vector table that startup_stm32f411xe.s places at the start of the flash. Names are
   without _IRQn, _Handler and _IRQHandler; exceptions have negative numbers. *)
EXTENDS Integers, Sequences

IRQn_Type ==
    [NonMaskableInt |-> -14, MemoryManagement |-> -12, BusFault |-> -11,
     UsageFault |-> -10, SVCall |-> -5, DebugMonitor |-> -4, PendSV |-> -2,
     SysTick |-> -1, WWDG |-> 0, PVD |-> 1, TAMP_STAMP |-> 2, RTC_WKUP |-> 3,
     FLASH |-> 4, RCC |-> 5, EXTI0 |-> 6, EXTI1 |-> 7, EXTI2 |-> 8, EXTI3 |-> 9,
     EXTI4 |-> 10, DMA1_Stream0 |-> 11, DMA1_Stream1 |-> 12, DMA1_Stream2 |-> 13,
     DMA1_Stream3 |-> 14, DMA1_Stream4 |-> 15, DMA1_Stream5 |-> 16,
     DMA1_Stream6 |-> 17, ADC |-> 18, EXTI9_5 |-> 23, TIM1_BRK_TIM9 |-> 24,
     TIM1_UP_TIM10 |-> 25, TIM1_TRG_COM_TIM11 |-> 26, TIM1_CC |-> 27, TIM2 |-> 28,
     TIM3 |-> 29, TIM4 |-> 30, I2C1_EV |-> 31, I2C1_ER |-> 32, I2C2_EV |-> 33,
     I2C2_ER |-> 34, SPI1 |-> 35, SPI2 |-> 36, USART1 |-> 37, USART2 |-> 38,
     EXTI15_10 |-> 40, RTC_Alarm |-> 41, OTG_FS_WKUP |-> 42, DMA1_Stream7 |-> 47,
     SDIO |-> 49, TIM5 |-> 50, SPI3 |-> 51, DMA2_Stream0 |-> 56, DMA2_Stream1 |-> 57,
     DMA2_Stream2 |-> 58, DMA2_Stream3 |-> 59, DMA2_Stream4 |-> 60, OTG_FS |-> 67,
     DMA2_Stream5 |-> 68, DMA2_Stream6 |-> 69, DMA2_Stream7 |-> 70, USART6 |-> 71,
     I2C3_EV |-> 72, I2C3_ER |-> 73, FPU |-> 81, SPI4 |-> 84, SPI5 |-> 85]

None == "0"     \* a reserved entry of the table
Reserved(n) == [i \in 1..n |-> None]

ExceptionVectors ==
    <<"estack", "Reset", "NMI", "HardFault", "MemManage", "BusFault", "UsageFault",
      None, None, None, None, "SVC", "DebugMon", None, "PendSV", "SysTick">>
Vectors_WWDG_ADC ==
    <<"WWDG", "PVD", "TAMP_STAMP", "RTC_WKUP", "FLASH", "RCC", "EXTI0", "EXTI1",
      "EXTI2", "EXTI3", "EXTI4", "DMA1_Stream0", "DMA1_Stream1", "DMA1_Stream2",
      "DMA1_Stream3", "DMA1_Stream4", "DMA1_Stream5", "DMA1_Stream6", "ADC">>
Vectors_EXTI9_5_USART2 ==
    <<"EXTI9_5", "TIM1_BRK_TIM9", "TIM1_UP_TIM10", "TIM1_TRG_COM_TIM11", "TIM1_CC",
      "TIM2", "TIM3", "TIM4", "I2C1_EV", "I2C1_ER", "I2C2_EV", "I2C2_ER", "SPI1",
      "SPI2", "USART1", "USART2">>
Vectors_DMA2_Stream0_DMA2_Stream4 ==
    <<"DMA2_Stream0", "DMA2_Stream1", "DMA2_Stream2", "DMA2_Stream3", "DMA2_Stream4">>
Vectors_OTG_FS_I2C3_ER ==
    <<"OTG_FS", "DMA2_Stream5", "DMA2_Stream6", "DMA2_Stream7", "USART6", "I2C3_EV",
      "I2C3_ER">>

(* Mutant: one reserved word too few behind ADC. *)
g_pfnVectors_OneReservedShort ==
    ExceptionVectors \o Vectors_WWDG_ADC \o Reserved(3) \o Vectors_EXTI9_5_USART2 \o
    Reserved(1) \o <<"EXTI15_10", "RTC_Alarm", "OTG_FS_WKUP">> \o Reserved(4) \o
    <<"DMA1_Stream7">> \o Reserved(1) \o <<"SDIO", "TIM5", "SPI3">> \o Reserved(4) \o
    Vectors_DMA2_Stream0_DMA2_Stream4 \o Reserved(6) \o Vectors_OTG_FS_I2C3_ER \o
    Reserved(7) \o <<"FPU">> \o Reserved(2) \o <<"SPI4", "SPI5">>

g_pfnVectors ==
    ExceptionVectors \o Vectors_WWDG_ADC \o Reserved(4) \o Vectors_EXTI9_5_USART2 \o
    Reserved(1) \o <<"EXTI15_10", "RTC_Alarm", "OTG_FS_WKUP">> \o Reserved(4) \o
    <<"DMA1_Stream7">> \o Reserved(1) \o <<"SDIO", "TIM5", "SPI3">> \o Reserved(4) \o
    Vectors_DMA2_Stream0_DMA2_Stream4 \o Reserved(6) \o Vectors_OTG_FS_I2C3_ER \o
    Reserved(7) \o <<"FPU">> \o Reserved(2) \o <<"SPI4", "SPI5">>

NVIC_USER_IRQ_OFFSET == 16

(* The entry the processor fetches for an interrupt; the first is at offset 0. *)
VectorOf(irq) == g_pfnVectors[IRQn_Type[irq] + NVIC_USER_IRQ_OFFSET + 1]

(* The handler that is written for an interrupt: some exceptions have names of their
   own. *)
HandlerName(irq) ==
    CASE irq = "NonMaskableInt" -> "NMI"
      [] irq = "MemoryManagement" -> "MemManage"
      [] irq = "SVCall" -> "SVC"
      [] irq = "DebugMonitor" -> "DebugMon"
      [] OTHER -> irq
========================================================================================
