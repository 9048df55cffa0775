-------------------------------- MODULE MCAtomicAccess ---------------------------------
(* Two tasks and a handler that switch clocks on and off in one enable register. *)
EXTENDS AtomicAccess, SystemRegisters, TLC

CONSTANTS t1, t2, h1

MCShare ==
    (t1 :> RCC_APB1ENR.TIM2EN.mask \cup RCC_APB1ENR.USART2EN.mask)
    @@ (t2 :> RCC_APB1ENR.SPI2EN.mask)
    @@ (h1 :> RCC_APB1ENR.I2C1EN.mask)

MCStartWords == {{b \in Bits : b % 2 = 0}}
========================================================================================
