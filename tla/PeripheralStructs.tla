------------------------------- MODULE PeripheralStructs -------------------------------
(* The structs through which stm32f411xe.h gives access to the device's registers,
   and where it places them. *)
EXTENDS CLayout, TLC

ADC_TypeDef ==
    Words(0, <<"SR", "CR1", "CR2", "SMPR1", "SMPR2", "JOFR1", "JOFR2", "JOFR3", "JOFR4",
                 "HTR", "LTR", "SQR1", "SQR2", "SQR3", "JSQR", "JDR1", "JDR2", "JDR3",
                 "JDR4", "DR">>)
ADC_Common_TypeDef == Words(\h300, <<"CSR", "CCR", "CDR">>)
CRC_TypeDef ==
    Words(0, <<"DR">>) \o Array(\h4, "IDR", 1, 1) \o Array(None, "", 1, 1)
    \o Array(None, "", 2, 1) \o Words(\h8, <<"CR">>)
DBGMCU_TypeDef == Words(0, <<"IDCODE", "CR", "APB1FZ", "APB2FZ">>)
DMA_Stream_TypeDef == Words(None, <<"CR", "NDTR", "PAR", "M0AR", "M1AR", "FCR">>)
DMA_TypeDef == Words(0, <<"LISR", "HISR", "LIFCR", "HIFCR">>)
EXTI_TypeDef == Words(0, <<"IMR", "EMR", "RTSR", "FTSR", "SWIER", "PR">>)
FLASH_TypeDef == Words(0, <<"ACR", "KEYR", "OPTKEYR", "SR", "CR", "OPTCR", "OPTCR1">>)
GPIO_TypeDef ==
    Words(0, <<"MODER", "OTYPER", "OSPEEDR", "PUPDR", "IDR", "ODR", "BSRR", "LCKR">>)
    \o Array(\h20, "AFR", 4, 2)
SYSCFG_TypeDef ==
    Words(0, <<"MEMRMP", "PMC">>) \o Array(\h8, "EXTICR", 4, 4) \o Reserved(2)
    \o Words(\h20, <<"CMPCR">>)
I2C_TypeDef ==
    Words(0, <<"CR1", "CR2", "OAR1", "OAR2", "DR", "SR1", "SR2", "CCR", "TRISE",
                 "FLTR">>)
IWDG_TypeDef == Words(0, <<"KR", "PR", "RLR", "SR">>)
PWR_TypeDef == Words(0, <<"CR", "CSR">>)
RCC_TypeDef ==
    Words(0, <<"CR", "PLLCFGR", "CFGR", "CIR", "AHB1RSTR", "AHB2RSTR", "AHB3RSTR">>)
    \o Reserved(1) \o Words(\h20, <<"APB1RSTR", "APB2RSTR">>) \o Reserved(2)
    \o Words(\h30, <<"AHB1ENR", "AHB2ENR", "AHB3ENR">>) \o Reserved(1)
    \o Words(\h40, <<"APB1ENR", "APB2ENR">>) \o Reserved(2)
    \o Words(\h50, <<"AHB1LPENR", "AHB2LPENR", "AHB3LPENR">>) \o Reserved(1)
    \o Words(\h60, <<"APB1LPENR", "APB2LPENR">>) \o Reserved(2)
    \o Words(\h70, <<"BDCR", "CSR">>) \o Reserved(2)
    \o Words(\h80, <<"SSCGR", "PLLI2SCFGR">>) \o Reserved(1) \o Words(\h8C, <<"DCKCFGR">>)
RTC_TypeDef ==
    Words(0, <<"TR", "DR", "CR", "ISR", "PRER", "WUTR", "CALIBR", "ALRMAR", "ALRMBR",
                 "WPR", "SSR", "SHIFTR", "TSTR", "TSDR", "TSSSR", "CALR", "TAFCR",
                 "ALRMASSR", "ALRMBSSR">>) \o Reserved(1)
    \o Array(\h50, "BKPxR", 4, 20)
SDIO_TypeDef ==
    Words(0, <<"POWER", "CLKCR", "ARG", "CMD", "RESPCMD", "RESP1", "RESP2", "RESP3",
                 "RESP4", "DTIMER", "DLEN", "DCTRL", "DCOUNT", "STA", "ICR", "MASK">>)
    \o Reserved(2) \o Words(\h48, <<"FIFOCNT">>) \o Reserved(13) \o Words(\h80, <<"FIFO">>)
SPI_TypeDef ==
    Words(0, <<"CR1", "CR2", "SR", "DR", "CRCPR", "RXCRCR", "TXCRCR", "I2SCFGR",
                 "I2SPR">>)
TIM_TypeDef ==
    Words(0, <<"CR1", "CR2", "SMCR", "DIER", "SR", "EGR", "CCMR1", "CCMR2", "CCER",
                 "CNT", "PSC", "ARR", "RCR", "CCR1", "CCR2", "CCR3", "CCR4", "BDTR",
                 "DCR", "DMAR", "OR">>)
USART_TypeDef == Words(0, <<"SR", "DR", "BRR", "CR1", "CR2", "CR3", "GTPR">>)
WWDG_TypeDef == Words(0, <<"CR", "CFR", "SR">>)
USB_OTG_GlobalTypeDef ==
    Words(0, <<"GOTGCTL", "GOTGINT", "GAHBCFG", "GUSBCFG", "GRSTCTL", "GINTSTS",
                 "GINTMSK", "GRXSTSR", "GRXSTSP", "GRXFSIZ", "DIEPTXF0_HNPTXFSIZ",
                 "HNPTXSTS">>) \o Reserved(2) \o Words(\h38, <<"GCCFG", "CID">>)
    \o Reserved(48) \o Words(\h100, <<"HPTXFSIZ">>) \o Array(None, "DIEPTXF", 4, 15)
USB_OTG_DeviceTypeDef ==
    Words(\h800, <<"DCFG", "DCTL", "DSTS">>) \o Reserved(1)
    \o Words(\h810, <<"DIEPMSK", "DOEPMSK", "DAINT", "DAINTMSK">>) \o Reserved(2)
    \o Words(\h828, <<"DVBUSDIS", "DVBUSPULSE", "DTHRCTL", "DIEPEMPMSK", "DEACHINT",
                 "DEACHMSK">>) \o Reserved(1) \o Words(\h844, <<"DINEP1MSK">>)
    \o Reserved(15) \o Words(\h884, <<"DOUTEP1MSK">>)
USB_OTG_INEndpointTypeDef ==
    Words(\h900, <<"DIEPCTL">>) \o Reserved(1) \o Words(\h908, <<"DIEPINT">>)
    \o Reserved(1) \o Words(\h910, <<"DIEPTSIZ", "DIEPDMA", "DTXFSTS">>) \o Reserved(1)
USB_OTG_OUTEndpointTypeDef ==
    Words(\hB00, <<"DOEPCTL">>) \o Reserved(1) \o Words(\hB08, <<"DOEPINT">>)
    \o Reserved(1) \o Words(\hB10, <<"DOEPTSIZ", "DOEPDMA">>) \o Reserved(2)
USB_OTG_HostTypeDef ==
    Words(\h400, <<"HCFG", "HFIR", "HFNUM">>) \o Reserved(1)
    \o Words(\h410, <<"HPTXSTS", "HAINT", "HAINTMSK">>)
USB_OTG_HostChannelTypeDef ==
    Words(\h500, <<"HCCHAR", "HCSPLT", "HCINT", "HCINTMSK", "HCTSIZ", "HCDMA">>)
    \o Reserved(2)

\* Addresses are 32-bit words taken as signed numbers.
PERIPH_BASE == \h40000000
APB1PERIPH_BASE == PERIPH_BASE
APB2PERIPH_BASE == PERIPH_BASE + \h10000
AHB1PERIPH_BASE == PERIPH_BASE + \h20000
DBGMCU_BASE == \h42000 - \h20000000    \* 0xE0042000
USB_OTG_FS_PERIPH_BASE == \h50000000

\* The name of an object: of a device, or of one of a row of them.
One(name) == <<name, 0>>
Row(name, indices) == {<<name, n>> : n \in indices}

\* A bus: the type of each device on it, and its offset from the bus's base.
OnBus(base, devices) ==
    [o \in {One(d) : d \in DOMAIN devices} |->
        At(devices[o[1]][1], base + devices[o[1]][2])]

APB1 == OnBus(APB1PERIPH_BASE,
    [TIM2 |-> <<TIM_TypeDef, 0>>, TIM3 |-> <<TIM_TypeDef, \h400>>,
     TIM4 |-> <<TIM_TypeDef, \h800>>, TIM5 |-> <<TIM_TypeDef, \hC00>>,
     RTC |-> <<RTC_TypeDef, \h2800>>, WWDG |-> <<WWDG_TypeDef, \h2C00>>,
     IWDG |-> <<IWDG_TypeDef, \h3000>>, I2S2ext |-> <<SPI_TypeDef, \h3400>>,
     SPI2 |-> <<SPI_TypeDef, \h3800>>, SPI3 |-> <<SPI_TypeDef, \h3C00>>,
     I2S3ext |-> <<SPI_TypeDef, \h4000>>, USART2 |-> <<USART_TypeDef, \h4400>>,
     I2C1 |-> <<I2C_TypeDef, \h5400>>, I2C2 |-> <<I2C_TypeDef, \h5800>>,
     I2C3 |-> <<I2C_TypeDef, \h5C00>>, PWR |-> <<PWR_TypeDef, \h7000>>])

APB2 == OnBus(APB2PERIPH_BASE,
    [TIM1 |-> <<TIM_TypeDef, 0>>, USART1 |-> <<USART_TypeDef, \h1000>>,
     USART6 |-> <<USART_TypeDef, \h1400>>, ADC1 |-> <<ADC_TypeDef, \h2000>>,
     SDIO |-> <<SDIO_TypeDef, \h2C00>>, SPI1 |-> <<SPI_TypeDef, \h3000>>,
     SPI4 |-> <<SPI_TypeDef, \h3400>>, SYSCFG |-> <<SYSCFG_TypeDef, \h3800>>,
     EXTI |-> <<EXTI_TypeDef, \h3C00>>, TIM9 |-> <<TIM_TypeDef, \h4000>>,
     TIM10 |-> <<TIM_TypeDef, \h4400>>, TIM11 |-> <<TIM_TypeDef, \h4800>>,
     SPI5 |-> <<SPI_TypeDef, \h5000>>])

\* The comments of these registers count from ADC1.
ADC1_COMMON ==
    Placed(ADC_Common_TypeDef, APB2PERIPH_BASE + \h2300, APB2PERIPH_BASE + \h2000)

AHB1 == OnBus(AHB1PERIPH_BASE,
    [GPIOA |-> <<GPIO_TypeDef, 0>>, GPIOB |-> <<GPIO_TypeDef, \h400>>,
     GPIOC |-> <<GPIO_TypeDef, \h800>>, GPIOD |-> <<GPIO_TypeDef, \hC00>>,
     GPIOE |-> <<GPIO_TypeDef, \h1000>>, GPIOH |-> <<GPIO_TypeDef, \h1C00>>,
     CRC |-> <<CRC_TypeDef, \h3000>>, RCC |-> <<RCC_TypeDef, \h3800>>,
     FLASH |-> <<FLASH_TypeDef, \h3C00>>, DMA1 |-> <<DMA_TypeDef, \h6000>>,
     DMA2 |-> <<DMA_TypeDef, \h6400>>])

DMA1_BASE == AHB1PERIPH_BASE + \h6000
DMA2_BASE == AHB1PERIPH_BASE + \h6400
\* Mutant: a stream is taken to be five words long.
DMA_Stream_BASE_Short == <<\h10, \h24, \h38, \h4C, \h60, \h74, \h88, \h9C>>

DMA_Stream_BASE == <<\h10, \h28, \h40, \h58, \h70, \h88, \hA0, \hB8>>
Streams(name, base) ==
    [s \in Row(name, 0..7) |-> At(DMA_Stream_TypeDef, base + DMA_Stream_BASE[s[2] + 1])]

\* The comments of the USB registers count from the base of the core, those of the
\* endpoints and channels from the base of the first.
UsbEndpoints == 0..15
UsbAt(type, offset, origin) ==
    Placed(type, USB_OTG_FS_PERIPH_BASE + offset, USB_OTG_FS_PERIPH_BASE + origin)
USB_OTG_FS ==
    (One("OTG global") :> UsbAt(USB_OTG_GlobalTypeDef, 0, 0))
    @@ (One("OTG host") :> UsbAt(USB_OTG_HostTypeDef, \h400, 0))
    @@ (One("OTG HPRT") :> UsbAt(Words(None, <<"HPRT">>), \h440, 0))
    @@ [c \in Row("OTG channel", UsbEndpoints) |->
            UsbAt(USB_OTG_HostChannelTypeDef, \h500 + c[2] * \h20, c[2] * \h20)]
    @@ (One("OTG device") :> UsbAt(USB_OTG_DeviceTypeDef, \h800, 0))
    @@ [e \in Row("OTG in", UsbEndpoints) |->
            UsbAt(USB_OTG_INEndpointTypeDef, \h900 + e[2] * \h20, e[2] * \h20)]
    @@ [e \in Row("OTG out", UsbEndpoints) |->
            UsbAt(USB_OTG_OUTEndpointTypeDef, \hB00 + e[2] * \h20, e[2] * \h20)]
    @@ (One("OTG PCGCCTL") :> UsbAt(Words(None, <<"PCGCCTL">>), \hE00, 0))
    @@ [f \in Row("OTG fifo", UsbEndpoints) |->
            UsbAt(Words(None, <<"data">>), \h1000 + f[2] * \h1000, 0)]

Peripherals ==
    APB1 @@ APB2 @@ (One("ADC1_COMMON") :> ADC1_COMMON) @@ AHB1
    @@ Streams("DMA1 stream", DMA1_BASE) @@ Streams("DMA2 stream", DMA2_BASE)
    @@ (One("DBGMCU") :> At(DBGMCU_TypeDef, DBGMCU_BASE)) @@ USB_OTG_FS
========================================================================================
