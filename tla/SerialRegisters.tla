-------------------------------- MODULE SerialRegisters --------------------------------
(* The registers of the I2C, SD card, SPI and USART units, as stm32f411xe.h defines
   them: every register of more than one field. The bits of one field that have names
   of their own (_0, _1, ...) are left out, and so are second names of a field. *)
EXTENDS RegisterLayout, Sequences

I2C_CR1 ==
    [PE |-> Bit(0), SMBUS |-> Bit(1), SMBTYPE |-> Bit(3), ENARP |-> Bit(4),
     ENPEC |-> Bit(5), ENGC |-> Bit(6), NOSTRETCH |-> Bit(7), START |-> Bit(8),
     STOP |-> Bit(9), ACK |-> Bit(10), POS |-> Bit(11), PEC |-> Bit(12),
     ALERT |-> Bit(13), SWRST |-> Bit(15)]
I2C_CR2 ==
    [FREQ |-> Run(0, 6), ITERREN |-> Bit(8), ITEVTEN |-> Bit(9), ITBUFEN |-> Bit(10),
     DMAEN |-> Bit(11), LAST |-> Bit(12)]
I2C_OAR1 ==
    [ADD0 |-> Bit(0), ADD1 |-> Bit(1), ADD2 |-> Bit(2), ADD3 |-> Bit(3),
     ADD4 |-> Bit(4), ADD5 |-> Bit(5), ADD6 |-> Bit(6), ADD7 |-> Bit(7),
     ADD8 |-> Bit(8), ADD9 |-> Bit(9), ADDMODE |-> Bit(15)]
I2C_OAR2 == [ENDUAL |-> Bit(0), ADD2 |-> Run(1, 7)]
I2C_SR1 ==
    [SB |-> Bit(0), ADDR |-> Bit(1), BTF |-> Bit(2), ADD10 |-> Bit(3), STOPF |-> Bit(4),
     RXNE |-> Bit(6), TXE |-> Bit(7), BERR |-> Bit(8), ARLO |-> Bit(9), AF |-> Bit(10),
     OVR |-> Bit(11), PECERR |-> Bit(12), TIMEOUT |-> Bit(14), SMBALERT |-> Bit(15)]
I2C_SR2 ==
    [MSL |-> Bit(0), BUSY |-> Bit(1), TRA |-> Bit(2), GENCALL |-> Bit(4),
     SMBDEFAULT |-> Bit(5), SMBHOST |-> Bit(6), DUALF |-> Bit(7), PEC |-> Run(8, 8)]
I2C_CCR == [CCR |-> Run(0, 12), DUTY |-> Bit(14), FS |-> Bit(15)]
I2C_FLTR == [DNF |-> Run(0, 4), ANOFF |-> Bit(4)]

SDIO_CLKCR ==
    [CLKDIV |-> Run(0, 8), CLKEN |-> Bit(8), PWRSAV |-> Bit(9), BYPASS |-> Bit(10),
     WIDBUS |-> Run(11, 2), NEGEDGE |-> Bit(13), HWFC_EN |-> Bit(14)]
SDIO_CMD ==
    [CMDINDEX |-> Run(0, 6), WAITRESP |-> Run(6, 2), WAITINT |-> Bit(8),
     WAITPEND |-> Bit(9), CPSMEN |-> Bit(10), SDIOSUSPEND |-> Bit(11),
     ENCMDCOMPL |-> Bit(12), NIEN |-> Bit(13), CEATACMD |-> Bit(14)]
SDIO_DCTRL ==
    [DTEN |-> Bit(0), DTDIR |-> Bit(1), DTMODE |-> Bit(2), DMAEN |-> Bit(3),
     DBLOCKSIZE |-> Run(4, 4), RWSTART |-> Bit(8), RWSTOP |-> Bit(9), RWMOD |-> Bit(10),
     SDIOEN |-> Bit(11)]
SDIO_STA ==
    [CCRCFAIL |-> Bit(0), DCRCFAIL |-> Bit(1), CTIMEOUT |-> Bit(2), DTIMEOUT |-> Bit(3),
     TXUNDERR |-> Bit(4), RXOVERR |-> Bit(5), CMDREND |-> Bit(6), CMDSENT |-> Bit(7),
     DATAEND |-> Bit(8), STBITERR |-> Bit(9), DBCKEND |-> Bit(10), CMDACT |-> Bit(11),
     TXACT |-> Bit(12), RXACT |-> Bit(13), TXFIFOHE |-> Bit(14), RXFIFOHF |-> Bit(15),
     TXFIFOF |-> Bit(16), RXFIFOF |-> Bit(17), TXFIFOE |-> Bit(18), RXFIFOE |-> Bit(19),
     TXDAVL |-> Bit(20), RXDAVL |-> Bit(21), SDIOIT |-> Bit(22), CEATAEND |-> Bit(23)]
SDIO_ICR ==
    [CCRCFAILC |-> Bit(0), DCRCFAILC |-> Bit(1), CTIMEOUTC |-> Bit(2),
     DTIMEOUTC |-> Bit(3), TXUNDERRC |-> Bit(4), RXOVERRC |-> Bit(5),
     CMDRENDC |-> Bit(6), CMDSENTC |-> Bit(7), DATAENDC |-> Bit(8),
     STBITERRC |-> Bit(9), DBCKENDC |-> Bit(10), SDIOITC |-> Bit(22),
     CEATAENDC |-> Bit(23)]
SDIO_MASK ==
    [CCRCFAILIE |-> Bit(0), DCRCFAILIE |-> Bit(1), CTIMEOUTIE |-> Bit(2),
     DTIMEOUTIE |-> Bit(3), TXUNDERRIE |-> Bit(4), RXOVERRIE |-> Bit(5),
     CMDRENDIE |-> Bit(6), CMDSENTIE |-> Bit(7), DATAENDIE |-> Bit(8),
     STBITERRIE |-> Bit(9), DBCKENDIE |-> Bit(10), CMDACTIE |-> Bit(11),
     TXACTIE |-> Bit(12), RXACTIE |-> Bit(13), TXFIFOHEIE |-> Bit(14),
     RXFIFOHFIE |-> Bit(15), TXFIFOFIE |-> Bit(16), RXFIFOFIE |-> Bit(17),
     TXFIFOEIE |-> Bit(18), RXFIFOEIE |-> Bit(19), TXDAVLIE |-> Bit(20),
     RXDAVLIE |-> Bit(21), SDIOITIE |-> Bit(22), CEATAENDIE |-> Bit(23)]

SPI_CR1 ==
    [CPHA |-> Bit(0), CPOL |-> Bit(1), MSTR |-> Bit(2), BR |-> Run(3, 3),
     SPE |-> Bit(6), LSBFIRST |-> Bit(7), SSI |-> Bit(8), SSM |-> Bit(9),
     RXONLY |-> Bit(10), DFF |-> Bit(11), CRCNEXT |-> Bit(12), CRCEN |-> Bit(13),
     BIDIOE |-> Bit(14), BIDIMODE |-> Bit(15)]
SPI_CR2 ==
    [RXDMAEN |-> Bit(0), TXDMAEN |-> Bit(1), SSOE |-> Bit(2), FRF |-> Bit(4),
     ERRIE |-> Bit(5), RXNEIE |-> Bit(6), TXEIE |-> Bit(7)]
SPI_SR ==
    [RXNE |-> Bit(0), TXE |-> Bit(1), CHSIDE |-> Bit(2), UDR |-> Bit(3),
     CRCERR |-> Bit(4), MODF |-> Bit(5), OVR |-> Bit(6), BSY |-> Bit(7), FRE |-> Bit(8)]
SPI_I2SCFGR ==
    [CHLEN |-> Bit(0), DATLEN |-> Run(1, 2), CKPOL |-> Bit(3), I2SSTD |-> Run(4, 2),
     PCMSYNC |-> Bit(7), I2SCFG |-> Run(8, 2), I2SE |-> Bit(10), I2SMOD |-> Bit(11)]
SPI_I2SPR == [I2SDIV |-> Run(0, 8), ODD |-> Bit(8), MCKOE |-> Bit(9)]

USART_SR ==
    [PE |-> Bit(0), FE |-> Bit(1), NE |-> Bit(2), ORE |-> Bit(3), IDLE |-> Bit(4),
     RXNE |-> Bit(5), TC |-> Bit(6), TXE |-> Bit(7), LBD |-> Bit(8), CTS |-> Bit(9)]
USART_BRR == [DIV_Fraction |-> Run(0, 4), DIV_Mantissa |-> Run(4, 12)]
USART_CR1 ==
    [SBK |-> Bit(0), RWU |-> Bit(1), RE |-> Bit(2), TE |-> Bit(3), IDLEIE |-> Bit(4),
     RXNEIE |-> Bit(5), TCIE |-> Bit(6), TXEIE |-> Bit(7), PEIE |-> Bit(8),
     PS |-> Bit(9), PCE |-> Bit(10), WAKE |-> Bit(11), M |-> Bit(12), UE |-> Bit(13),
     OVER8 |-> Bit(15)]
USART_CR2 ==
    [ADD |-> Run(0, 4), LBDL |-> Bit(5), LBDIE |-> Bit(6), LBCL |-> Bit(8),
     CPHA |-> Bit(9), CPOL |-> Bit(10), CLKEN |-> Bit(11), STOP |-> Run(12, 2),
     LINEN |-> Bit(14)]
USART_CR3 ==
    [EIE |-> Bit(0), IREN |-> Bit(1), IRLP |-> Bit(2), HDSEL |-> Bit(3),
     NACK |-> Bit(4), SCEN |-> Bit(5), DMAR |-> Bit(6), DMAT |-> Bit(7),
     RTSE |-> Bit(8), CTSE |-> Bit(9), CTSIE |-> Bit(10), ONEBIT |-> Bit(11)]
USART_GTPR == [PSC |-> Run(0, 8), GT |-> Run(8, 8)]

SerialLayouts ==
    <<I2C_CR1, I2C_CR2, I2C_OAR1, I2C_OAR2, I2C_SR1, I2C_SR2, I2C_CCR, I2C_FLTR,
      SDIO_CLKCR, SDIO_CMD, SDIO_DCTRL, SDIO_STA, SDIO_ICR, SDIO_MASK, SPI_CR1, SPI_CR2,
      SPI_SR, SPI_I2SCFGR, SPI_I2SPR, USART_SR, USART_BRR, USART_CR1, USART_CR2,
      USART_CR3, USART_GTPR>>
========================================================================================
