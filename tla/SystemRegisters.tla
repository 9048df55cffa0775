-------------------------------- MODULE SystemRegisters --------------------------------
(* The registers of the flash interface, power, reset and clock control, system
   configuration and debug unit, as stm32f411xe.h defines them: every register of more
   than one field. The bits of one field that have names of their own (_0, _1, ...)
   are left out, and so are second names of a field. *)
EXTENDS RegisterLayout, Sequences

FLASH_ACR ==
    [LATENCY |-> Run(0, 3), PRFTEN |-> Bit(8), ICEN |-> Bit(9), DCEN |-> Bit(10),
     ICRST |-> Bit(11), DCRST |-> Bit(12)]
\* SOP is another name of OPERR; BYTE0_ADDRESS and BYTE2_ADDRESS of ACR are addresses.
FLASH_SR ==
    [EOP |-> Bit(0), OPERR |-> Bit(1), WRPERR |-> Bit(4), PGAERR |-> Bit(5),
     PGPERR |-> Bit(6), PGSERR |-> Bit(7), RDERR |-> Bit(8), BSY |-> Bit(16)]
FLASH_CR ==
    [PG |-> Bit(0), SER |-> Bit(1), MER |-> Bit(2), SNB |-> Run(3, 5),
     PSIZE |-> Run(8, 2), STRT |-> Bit(16), EOPIE |-> Bit(24), ERRIE |-> Bit(25),
     LOCK |-> Bit(31)]
FLASH_OPTCR ==
    [OPTLOCK |-> Bit(0), OPTSTRT |-> Bit(1), BOR_LEV |-> Run(2, 2), WDG_SW |-> Bit(5),
     nRST_STOP |-> Bit(6), nRST_STDBY |-> Bit(7), RDP |-> Run(8, 8),
     nWRP |-> Run(16, 12)]

PWR_CR ==
    [LPDS |-> Bit(0), PDDS |-> Bit(1), CWUF |-> Bit(2), CSBF |-> Bit(3),
     PVDE |-> Bit(4), PLS |-> Run(5, 3), DBP |-> Bit(8), FPDS |-> Bit(9),
     LPLVDS |-> Bit(10), MRLVDS |-> Bit(11), ADCDC1 |-> Bit(13), VOS |-> Run(14, 2),
     FMSSR |-> Bit(20), FISSR |-> Bit(21)]
PWR_CSR ==
    [WUF |-> Bit(0), SBF |-> Bit(1), PVDO |-> Bit(2), BRR |-> Bit(3), EWUP |-> Bit(8),
     BRE |-> Bit(9), VOSRDY |-> Bit(14)]

RCC_CR ==
    [HSION |-> Bit(0), HSIRDY |-> Bit(1), HSITRIM |-> Run(3, 5), HSICAL |-> Run(8, 8),
     HSEON |-> Bit(16), HSERDY |-> Bit(17), HSEBYP |-> Bit(18), CSSON |-> Bit(19),
     PLLON |-> Bit(24), PLLRDY |-> Bit(25), PLLI2SON |-> Bit(26), PLLI2SRDY |-> Bit(27)]
\* PLLSRC_HSE, the value of PLLSRC that selects the crystal, is no field.
RCC_PLLCFGR ==
    [PLLM |-> Run(0, 6), PLLN |-> Run(6, 9), PLLP |-> Run(16, 2), PLLSRC |-> Bit(22),
     PLLQ |-> Run(24, 4)]
RCC_CFGR ==
    [SW |-> Run(0, 2), SWS |-> Run(2, 2), HPRE |-> Run(4, 4), PPRE1 |-> Run(10, 3),
     PPRE2 |-> Run(13, 3), RTCPRE |-> Run(16, 5), MCO1 |-> Run(21, 2),
     I2SSRC |-> Bit(23), MCO1PRE |-> Run(24, 3), MCO2PRE |-> Run(27, 3),
     MCO2 |-> Run(30, 2)]
RCC_CIR ==
    [LSIRDYF |-> Bit(0), LSERDYF |-> Bit(1), HSIRDYF |-> Bit(2), HSERDYF |-> Bit(3),
     PLLRDYF |-> Bit(4), PLLI2SRDYF |-> Bit(5), CSSF |-> Bit(7), LSIRDYIE |-> Bit(8),
     LSERDYIE |-> Bit(9), HSIRDYIE |-> Bit(10), HSERDYIE |-> Bit(11),
     PLLRDYIE |-> Bit(12), PLLI2SRDYIE |-> Bit(13), LSIRDYC |-> Bit(16),
     LSERDYC |-> Bit(17), HSIRDYC |-> Bit(18), HSERDYC |-> Bit(19), PLLRDYC |-> Bit(20),
     PLLI2SRDYC |-> Bit(21), CSSC |-> Bit(23)]
RCC_AHB1RSTR ==
    [GPIOARST |-> Bit(0), GPIOBRST |-> Bit(1), GPIOCRST |-> Bit(2), GPIODRST |-> Bit(3),
     GPIOERST |-> Bit(4), GPIOHRST |-> Bit(7), CRCRST |-> Bit(12), DMA1RST |-> Bit(21),
     DMA2RST |-> Bit(22)]
RCC_APB1RSTR ==
    [TIM2RST |-> Bit(0), TIM3RST |-> Bit(1), TIM4RST |-> Bit(2), TIM5RST |-> Bit(3),
     WWDGRST |-> Bit(11), SPI2RST |-> Bit(14), SPI3RST |-> Bit(15),
     USART2RST |-> Bit(17), I2C1RST |-> Bit(21), I2C2RST |-> Bit(22),
     I2C3RST |-> Bit(23), PWRRST |-> Bit(28)]
RCC_APB2RSTR ==
    [TIM1RST |-> Bit(0), USART1RST |-> Bit(4), USART6RST |-> Bit(5), ADCRST |-> Bit(8),
     SDIORST |-> Bit(11), SPI1RST |-> Bit(12), SPI4RST |-> Bit(13),
     SYSCFGRST |-> Bit(14), TIM9RST |-> Bit(16), TIM10RST |-> Bit(17),
     TIM11RST |-> Bit(18), SPI5RST |-> Bit(20)]
RCC_AHB1ENR ==
    [GPIOAEN |-> Bit(0), GPIOBEN |-> Bit(1), GPIOCEN |-> Bit(2), GPIODEN |-> Bit(3),
     GPIOEEN |-> Bit(4), GPIOHEN |-> Bit(7), CRCEN |-> Bit(12), DMA1EN |-> Bit(21),
     DMA2EN |-> Bit(22)]
RCC_APB1ENR ==
    [TIM2EN |-> Bit(0), TIM3EN |-> Bit(1), TIM4EN |-> Bit(2), TIM5EN |-> Bit(3),
     WWDGEN |-> Bit(11), SPI2EN |-> Bit(14), SPI3EN |-> Bit(15), USART2EN |-> Bit(17),
     I2C1EN |-> Bit(21), I2C2EN |-> Bit(22), I2C3EN |-> Bit(23), PWREN |-> Bit(28)]
RCC_APB2ENR ==
    [TIM1EN |-> Bit(0), USART1EN |-> Bit(4), USART6EN |-> Bit(5), ADC1EN |-> Bit(8),
     SDIOEN |-> Bit(11), SPI1EN |-> Bit(12), SPI4EN |-> Bit(13), SYSCFGEN |-> Bit(14),
     TIM9EN |-> Bit(16), TIM10EN |-> Bit(17), TIM11EN |-> Bit(18), SPI5EN |-> Bit(20)]
RCC_AHB1LPENR ==
    [GPIOALPEN |-> Bit(0), GPIOBLPEN |-> Bit(1), GPIOCLPEN |-> Bit(2),
     GPIODLPEN |-> Bit(3), GPIOELPEN |-> Bit(4), GPIOHLPEN |-> Bit(7),
     CRCLPEN |-> Bit(12), FLITFLPEN |-> Bit(15), SRAM1LPEN |-> Bit(16),
     DMA1LPEN |-> Bit(21), DMA2LPEN |-> Bit(22)]
RCC_APB1LPENR ==
    [TIM2LPEN |-> Bit(0), TIM3LPEN |-> Bit(1), TIM4LPEN |-> Bit(2), TIM5LPEN |-> Bit(3),
     WWDGLPEN |-> Bit(11), SPI2LPEN |-> Bit(14), SPI3LPEN |-> Bit(15),
     USART2LPEN |-> Bit(17), I2C1LPEN |-> Bit(21), I2C2LPEN |-> Bit(22),
     I2C3LPEN |-> Bit(23), PWRLPEN |-> Bit(28)]
RCC_APB2LPENR ==
    [TIM1LPEN |-> Bit(0), USART1LPEN |-> Bit(4), USART6LPEN |-> Bit(5),
     ADC1LPEN |-> Bit(8), SDIOLPEN |-> Bit(11), SPI1LPEN |-> Bit(12),
     SPI4LPEN |-> Bit(13), SYSCFGLPEN |-> Bit(14), TIM9LPEN |-> Bit(16),
     TIM10LPEN |-> Bit(17), TIM11LPEN |-> Bit(18), SPI5LPEN |-> Bit(20)]
RCC_BDCR ==
    [LSEON |-> Bit(0), LSERDY |-> Bit(1), LSEBYP |-> Bit(2), LSEMOD |-> Bit(3),
     RTCSEL |-> Run(8, 2), RTCEN |-> Bit(15), BDRST |-> Bit(16)]
RCC_CSR ==
    [LSION |-> Bit(0), LSIRDY |-> Bit(1), RMVF |-> Bit(24), BORRSTF |-> Bit(25),
     PINRSTF |-> Bit(26), PORRSTF |-> Bit(27), SFTRSTF |-> Bit(28),
     IWDGRSTF |-> Bit(29), WWDGRSTF |-> Bit(30), LPWRRSTF |-> Bit(31)]
RCC_SSCGR ==
    [MODPER |-> Run(0, 13), INCSTEP |-> Run(13, 15), SPREADSEL |-> Bit(30),
     SSCGEN |-> Bit(31)]
RCC_PLLI2SCFGR == [PLLI2SM |-> Run(0, 6), PLLI2SN |-> Run(6, 9), PLLI2SR |-> Run(28, 3)]

SYSCFG_EXTICR1 == [line \in 0..3 |-> Run(4 * line, 4)]
SYSCFG_EXTICR2 == [line \in 4..7 |-> Run(4 * (line - 4), 4)]
SYSCFG_EXTICR3 == [line \in 8..11 |-> Run(4 * (line - 8), 4)]
SYSCFG_EXTICR4 == [line \in 12..15 |-> Run(4 * (line - 12), 4)]
SYSCFG_CMPCR == [CMP_PD |-> Bit(0), READY |-> Bit(8)]

DBGMCU_IDCODE == [DEV_ID |-> Run(0, 12), REV_ID |-> Run(16, 16)]
DBGMCU_CR ==
    [DBG_SLEEP |-> Bit(0), DBG_STOP |-> Bit(1), DBG_STANDBY |-> Bit(2),
     TRACE_IOEN |-> Bit(5), TRACE_MODE |-> Run(6, 2)]
DBGMCU_APB1_FZ ==
    [DBG_TIM2_STOP |-> Bit(0), DBG_TIM3_STOP |-> Bit(1), DBG_TIM4_STOP |-> Bit(2),
     DBG_TIM5_STOP |-> Bit(3), DBG_RTC_STOP |-> Bit(10), DBG_WWDG_STOP |-> Bit(11),
     DBG_IWDG_STOP |-> Bit(12), DBG_I2C1_SMBUS_TIMEOUT |-> Bit(21),
     DBG_I2C2_SMBUS_TIMEOUT |-> Bit(22), DBG_I2C3_SMBUS_TIMEOUT |-> Bit(23)]
DBGMCU_APB2_FZ ==
    [DBG_TIM1_STOP |-> Bit(0), DBG_TIM9_STOP |-> Bit(16), DBG_TIM10_STOP |-> Bit(17),
     DBG_TIM11_STOP |-> Bit(18)]

SystemLayouts ==
    <<FLASH_ACR, FLASH_SR, FLASH_CR, FLASH_OPTCR, PWR_CR, PWR_CSR, RCC_CR, RCC_PLLCFGR,
      RCC_CFGR, RCC_CIR, RCC_AHB1RSTR, RCC_APB1RSTR, RCC_APB2RSTR, RCC_AHB1ENR,
      RCC_APB1ENR, RCC_APB2ENR, RCC_AHB1LPENR, RCC_APB1LPENR, RCC_APB2LPENR, RCC_BDCR,
      RCC_CSR, RCC_SSCGR, RCC_PLLI2SCFGR, SYSCFG_EXTICR1, SYSCFG_EXTICR2,
      SYSCFG_EXTICR3, SYSCFG_EXTICR4, SYSCFG_CMPCR, DBGMCU_IDCODE, DBGMCU_CR,
      DBGMCU_APB1_FZ, DBGMCU_APB2_FZ>>
========================================================================================
