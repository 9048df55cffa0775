--------------------------------- MODULE CoreRegisters ---------------------------------
(* The registers of the processor itself, as core_cm4.h defines them: every register of
   more than one field. The masks of fields at position 0 are written without a shift. *)
EXTENDS RegisterLayout, Sequences, Functions

APSR ==
    [N |-> Bit(31), Z |-> Bit(30), C |-> Bit(29), V |-> Bit(28), Q |-> Bit(27),
     GE |-> Run(16, 4)]

xPSR ==
    [N |-> Bit(31), Z |-> Bit(30), C |-> Bit(29), V |-> Bit(28), Q |-> Bit(27),
     ICI_IT_2 |-> Run(25, 2), T |-> Bit(24), GE |-> Run(16, 4), ICI_IT_1 |-> Run(10, 6),
     ISR |-> Unshifted(0, 9)]

CONTROL == [FPCA |-> Bit(2), SPSEL |-> Bit(1), nPRIV |-> Unshifted(0, 1)]

SCB_CPUID ==
    [IMPLEMENTER |-> Run(24, 8), VARIANT |-> Run(20, 4), ARCHITECTURE |-> Run(16, 4),
     PARTNO |-> Run(4, 12), REVISION |-> Unshifted(0, 4)]
SCB_ICSR ==
    [NMIPENDSET |-> Bit(31), PENDSVSET |-> Bit(28), PENDSVCLR |-> Bit(27),
     PENDSTSET |-> Bit(26), PENDSTCLR |-> Bit(25), ISRPREEMPT |-> Bit(23),
     ISRPENDING |-> Bit(22), VECTPENDING |-> Run(12, 9), RETTOBASE |-> Bit(11),
     VECTACTIVE |-> Unshifted(0, 9)]
\* VECTKEYSTAT is what the bits of VECTKEY read as.
SCB_AIRCR ==
    [VECTKEY |-> Run(16, 16), ENDIANESS |-> Bit(15), PRIGROUP |-> Run(8, 3),
     SYSRESETREQ |-> Bit(2), VECTCLRACTIVE |-> Bit(1), VECTRESET |-> Unshifted(0, 1)]
SCB_SCR == [SEVONPEND |-> Bit(4), SLEEPDEEP |-> Bit(2), SLEEPONEXIT |-> Bit(1)]
SCB_CCR ==
    [STKALIGN |-> Bit(9), BFHFNMIGN |-> Bit(8), DIV_0_TRP |-> Bit(4),
     UNALIGN_TRP |-> Bit(3), USERSETMPEND |-> Bit(1),
     NONBASETHRDENA |-> Unshifted(0, 1)]
SCB_SHCSR ==
    [USGFAULTENA |-> Bit(18), BUSFAULTENA |-> Bit(17), MEMFAULTENA |-> Bit(16),
     SVCALLPENDED |-> Bit(15), BUSFAULTPENDED |-> Bit(14), MEMFAULTPENDED |-> Bit(13),
     USGFAULTPENDED |-> Bit(12), SYSTICKACT |-> Bit(11), PENDSVACT |-> Bit(10),
     MONITORACT |-> Bit(8), SVCALLACT |-> Bit(7), USGFAULTACT |-> Bit(3),
     BUSFAULTACT |-> Bit(1), MEMFAULTACT |-> Unshifted(0, 1)]
SCB_CFSR ==
    [USGFAULTSR |-> Run(16, 16), BUSFAULTSR |-> Run(8, 8),
     MEMFAULTSR |-> Unshifted(0, 8)]
\* The three fault status registers are the fields of SCB_CFSR.
SCB_CFSR_MEMFAULTSR ==
    [MMARVALID |-> Bit(7), MLSPERR |-> Bit(5), MSTKERR |-> Bit(4), MUNSTKERR |-> Bit(3),
     DACCVIOL |-> Bit(1), IACCVIOL |-> Unshifted(0, 1)]
SCB_CFSR_BUSFAULTSR ==
    [BFARVALID |-> Bit(15), LSPERR |-> Bit(13), STKERR |-> Bit(12),
     UNSTKERR |-> Bit(11), IMPRECISERR |-> Bit(10), PRECISERR |-> Bit(9),
     IBUSERR |-> Bit(8)]
SCB_CFSR_USGFAULTSR ==
    [DIVBYZERO |-> Bit(25), UNALIGNED |-> Bit(24), NOCP |-> Bit(19), INVPC |-> Bit(18),
     INVSTATE |-> Bit(17), UNDEFINSTR |-> Bit(16)]
SCB_HFSR == [DEBUGEVT |-> Bit(31), FORCED |-> Bit(30), VECTTBL |-> Bit(1)]
SCB_DFSR ==
    [EXTERNAL |-> Bit(4), VCATCH |-> Bit(3), DWTTRAP |-> Bit(2), BKPT |-> Bit(1),
     HALTED |-> Unshifted(0, 1)]

SCnSCB_ACTLR ==
    [DISOOFP |-> Bit(9), DISFPCA |-> Bit(8), DISFOLD |-> Bit(2), DISDEFWBUF |-> Bit(1),
     DISMCYCINT |-> Unshifted(0, 1)]

SysTick_CTRL ==
    [COUNTFLAG |-> Bit(16), CLKSOURCE |-> Bit(2), TICKINT |-> Bit(1),
     ENABLE |-> Unshifted(0, 1)]
SysTick_CALIB == [NOREF |-> Bit(31), SKEW |-> Bit(30), TENMS |-> Unshifted(0, 24)]

ITM_TCR ==
    [BUSY |-> Bit(23), TraceBusID |-> Run(16, 7), GTSFREQ |-> Run(10, 2),
     TSPrescale |-> Run(8, 2), SWOENA |-> Bit(4), DWTENA |-> Bit(3), SYNCENA |-> Bit(2),
     TSENA |-> Bit(1), ITMENA |-> Unshifted(0, 1)]
ITM_LSR == [ByteAcc |-> Bit(2), Access |-> Bit(1), Present |-> Unshifted(0, 1)]

DWT_CTRL ==
    [NUMCOMP |-> Run(28, 4), NOTRCPKT |-> Bit(27), NOEXTTRIG |-> Bit(26),
     NOCYCCNT |-> Bit(25), NOPRFCNT |-> Bit(24), CYCEVTENA |-> Bit(22),
     FOLDEVTENA |-> Bit(21), LSUEVTENA |-> Bit(20), SLEEPEVTENA |-> Bit(19),
     EXCEVTENA |-> Bit(18), CPIEVTENA |-> Bit(17), EXCTRCENA |-> Bit(16),
     PCSAMPLENA |-> Bit(12), SYNCTAP |-> Run(10, 2), CYCTAP |-> Bit(9),
     POSTINIT |-> Run(5, 4), POSTPRESET |-> Run(1, 4), CYCCNTENA |-> Unshifted(0, 1)]
DWT_FUNCTION ==
    [MATCHED |-> Bit(24), DATAVADDR1 |-> Run(16, 4), DATAVADDR0 |-> Run(12, 4),
     DATAVSIZE |-> Run(10, 2), LNK1ENA |-> Bit(9), DATAVMATCH |-> Bit(8),
     CYCMATCH |-> Bit(7), EMITRANGE |-> Bit(5), FUNCTION |-> Unshifted(0, 4)]

TPI_FFSR ==
    [FtNonStop |-> Bit(3), TCPresent |-> Bit(2), FtStopped |-> Bit(1),
     FlInProg |-> Unshifted(0, 1)]
TPI_FFCR == [TrigIn |-> Bit(8), EnFCont |-> Bit(1)]
TPI_FIFO0 ==
    [ITM_ATVALID |-> Bit(29), ITM_bytecount |-> Run(27, 2), ETM_ATVALID |-> Bit(26),
     ETM_bytecount |-> Run(24, 2), ETM2 |-> Run(16, 8), ETM1 |-> Run(8, 8),
     ETM0 |-> Unshifted(0, 8)]
TPI_FIFO1 ==
    [ITM_ATVALID |-> Bit(29), ITM_bytecount |-> Run(27, 2), ETM_ATVALID |-> Bit(26),
     ETM_bytecount |-> Run(24, 2), ITM2 |-> Run(16, 8), ITM1 |-> Run(8, 8),
     ITM0 |-> Unshifted(0, 8)]
TPI_DEVID ==
    [NRZVALID |-> Bit(11), MANCVALID |-> Bit(10), PTINVALID |-> Bit(9),
     MinBufSz |-> Run(6, 3), AsynClkIn |-> Bit(5), NrTraceInput |-> Unshifted(0, 5)]

MPU_TYPE ==
    [IREGION |-> Run(16, 8), DREGION |-> Run(8, 8), SEPARATE |-> Unshifted(0, 1)]
MPU_CTRL == [PRIVDEFENA |-> Bit(2), HFNMIENA |-> Bit(1), ENABLE |-> Unshifted(0, 1)]
MPU_RBAR == [ADDR |-> Run(5, 27), VALID |-> Bit(4), REGION |-> Unshifted(0, 4)]
\* ATTRS is all the fields from B to XN together.
MPU_RASR ==
    [XN |-> Bit(28), AP |-> Run(24, 3), TEX |-> Run(19, 3), S |-> Bit(18),
     C |-> Bit(17), B |-> Bit(16), SRD |-> Run(8, 8), SIZE |-> Run(1, 5),
     ENABLE |-> Unshifted(0, 1)]

FPU_FPCCR ==
    [ASPEN |-> Bit(31), LSPEN |-> Bit(30), MONRDY |-> Bit(8), BFRDY |-> Bit(6),
     MMRDY |-> Bit(5), HFRDY |-> Bit(4), THREAD |-> Bit(3), USER |-> Bit(1),
     LSPACT |-> Unshifted(0, 1)]
FPU_FPDSCR == [AHP |-> Bit(26), DN |-> Bit(25), FZ |-> Bit(24), RMode |-> Run(22, 2)]
FPU_MVFR0 ==
    [FP_rounding_modes |-> Run(28, 4), Short_vectors |-> Run(24, 4),
     Square_root |-> Run(20, 4), Divide |-> Run(16, 4),
     FP_excep_trapping |-> Run(12, 4), Double_precision |-> Run(8, 4),
     Single_precision |-> Run(4, 4), A_SIMD_registers |-> Unshifted(0, 4)]
FPU_MVFR1 ==
    [FP_fused_MAC |-> Run(28, 4), FP_HPFP |-> Run(24, 4), D_NaN_mode |-> Run(4, 4),
     FtZ_mode |-> Unshifted(0, 4)]

\* What is written and what is read back differ in the upper half.
CoreDebug_DHCSR_Written ==
    [DBGKEY |-> Run(16, 16), C_SNAPSTALL |-> Bit(5), C_MASKINTS |-> Bit(3),
     C_STEP |-> Bit(2), C_HALT |-> Bit(1), C_DEBUGEN |-> Unshifted(0, 1)]
CoreDebug_DHCSR_Read ==
    [S_RESET_ST |-> Bit(25), S_RETIRE_ST |-> Bit(24), S_LOCKUP |-> Bit(19),
     S_SLEEP |-> Bit(18), S_HALT |-> Bit(17), S_REGRDY |-> Bit(16),
     C_SNAPSTALL |-> Bit(5), C_MASKINTS |-> Bit(3), C_STEP |-> Bit(2),
     C_HALT |-> Bit(1), C_DEBUGEN |-> Unshifted(0, 1)]
CoreDebug_DCRSR == [REGWnR |-> Bit(16), REGSEL |-> Unshifted(0, 5)]
CoreDebug_DEMCR ==
    [TRCENA |-> Bit(24), MON_REQ |-> Bit(19), MON_STEP |-> Bit(18),
     MON_PEND |-> Bit(17), MON_EN |-> Bit(16), VC_HARDERR |-> Bit(10),
     VC_INTERR |-> Bit(9), VC_BUSERR |-> Bit(8), VC_STATERR |-> Bit(7),
     VC_CHKERR |-> Bit(6), VC_NOCPERR |-> Bit(5), VC_MMERR |-> Bit(4),
     VC_CORERESET |-> Unshifted(0, 1)]

(* The same registers as a union with bit fields: the compiler gives out the bits
   of the word from 0 up, in the order of the declaration. *)
BitFields(decl) ==
    LET from(i) == FoldFunction(+, 0, [j \in 1..i - 1 |-> decl[j][2]])
        named   == {i \in DOMAIN decl : decl[i][1] # "reserved"}
    IN  [f \in {decl[i][1] : i \in named} |->
            LET i == CHOOSE i \in named : decl[i][1] = f
            IN  from(i)..from(i + 1) - 1]

APSR_Type ==
    BitFields(<<<<"reserved", 16>>, <<"GE", 4>>, <<"reserved", 7>>, <<"Q", 1>>,
                <<"V", 1>>, <<"C", 1>>, <<"Z", 1>>, <<"N", 1>>>>)
xPSR_Type ==
    BitFields(<<<<"ISR", 9>>, <<"reserved", 1>>, <<"ICI_IT_1", 6>>, <<"GE", 4>>,
                <<"reserved", 4>>, <<"T", 1>>, <<"ICI_IT_2", 2>>, <<"Q", 1>>, <<"V", 1>>,
                <<"C", 1>>, <<"Z", 1>>, <<"N", 1>>>>)
CONTROL_Type ==
    BitFields(<<<<"nPRIV", 1>>, <<"SPSEL", 1>>, <<"FPCA", 1>>, <<"reserved", 29>>>>)

(* Three registers of the trace port whose fields share bits. Both integration registers
   have two fields on bit 0. SubType is said to begin at bit 4, and its mask is bits
   0..3, those of MajorType. *)
TPI_ITATBCTR2 == [ATREADY2 |-> Unshifted(0, 1), ATREADY1 |-> Unshifted(0, 1)]
TPI_ITATBCTR0 == [ATREADY2 |-> Unshifted(0, 1), ATREADY1 |-> Unshifted(0, 1)]
TPI_DEVTYPE == [SubType |-> Unshifted(4, 4), MajorType |-> Run(0, 4)]

SharedLayouts == <<TPI_ITATBCTR2, TPI_ITATBCTR0, TPI_DEVTYPE>>

\* All the others.
CoreLayouts ==
    <<APSR, xPSR, CONTROL, SCB_CPUID, SCB_ICSR, SCB_AIRCR, SCB_SCR, SCB_CCR, SCB_SHCSR,
      SCB_CFSR, SCB_CFSR_MEMFAULTSR, SCB_CFSR_BUSFAULTSR, SCB_CFSR_USGFAULTSR, SCB_HFSR,
      SCB_DFSR, SCnSCB_ACTLR, SysTick_CTRL, SysTick_CALIB, ITM_TCR, ITM_LSR, DWT_CTRL,
      DWT_FUNCTION, TPI_FFSR, TPI_FFCR, TPI_FIFO0, TPI_FIFO1, TPI_DEVID, MPU_TYPE,
      MPU_CTRL, MPU_RBAR, MPU_RASR, FPU_FPCCR, FPU_FPDSCR, FPU_MVFR0, FPU_MVFR1,
      CoreDebug_DHCSR_Written, CoreDebug_DHCSR_Read, CoreDebug_DCRSR, CoreDebug_DEMCR>>
========================================================================================
