--------------------------------- MODULE CoreStructs -----------------------------------
(* The structs through which core_cm4.h gives access to the registers of the
   processor, and where it places them. *)
EXTENDS CLayout, TLC

NVIC_Type ==
    Array(0, "ISER", 4, 8) \o Reserved(24) \o Array(\h80, "ICER", 4, 8) \o Reserved(24)
    \o Array(\h100, "ISPR", 4, 8) \o Reserved(24) \o Array(\h180, "ICPR", 4, 8)
    \o Reserved(24) \o Array(\h200, "IABR", 4, 8) \o Reserved(56)
    \o Array(\h300, "IP", 1, 240) \o Reserved(644) \o Words(\hE00, <<"STIR">>)
SCB_Type ==
    Words(0, <<"CPUID", "ICSR", "VTOR", "AIRCR", "SCR", "CCR">>)
    \o Array(\h18, "SHP", 1, 12)
    \o Words(\h24, <<"SHCSR", "CFSR", "HFSR", "DFSR", "MMFAR", "BFAR", "AFSR">>)
    \o Array(\h40, "PFR", 4, 2) \o Words(\h48, <<"DFR", "ADR">>) \o Array(\h50, "MMFR", 4, 4)
    \o Array(\h60, "ISAR", 4, 5) \o Reserved(5) \o Words(\h88, <<"CPACR">>)
SCnSCB_Type == Reserved(1) \o Words(\h4, <<"ICTR", "ACTLR">>)
SysTick_Type == Words(0, <<"CTRL", "LOAD", "VAL", "CALIB">>)
ITM_Type ==
    Array(0, "PORT", 4, 32) \o Reserved(864) \o Words(\hE00, <<"TER">>) \o Reserved(15)
    \o Words(\hE40, <<"TPR">>) \o Reserved(15) \o Words(\hE80, <<"TCR">>)
    \o Reserved(75) \o Words(\hFB0, <<"LAR", "LSR">>) \o Reserved(6)
    \o Words(\hFD0, <<"PID4", "PID5", "PID6", "PID7", "PID0", "PID1", "PID2", "PID3",
                      "CID0", "CID1", "CID2", "CID3">>)
DWT_Type ==
    Words(0, <<"CTRL", "CYCCNT", "CPICNT", "EXCCNT", "SLEEPCNT", "LSUCNT", "FOLDCNT",
                 "PCSR", "COMP0", "MASK0", "FUNCTION0">>) \o Reserved(1)
    \o Words(\h30, <<"COMP1", "MASK1", "FUNCTION1">>) \o Reserved(1)
    \o Words(\h40, <<"COMP2", "MASK2", "FUNCTION2">>) \o Reserved(1)
    \o Words(\h50, <<"COMP3", "MASK3", "FUNCTION3">>)
TPI_Type ==
    Words(0, <<"SSPSR", "CSPSR">>) \o Reserved(2) \o Words(\h10, <<"ACPR">>)
    \o Reserved(55) \o Words(\hF0, <<"SPPR">>) \o Reserved(131)
    \o Words(\h300, <<"FFSR", "FFCR", "FSCR">>) \o Reserved(759)
    \o Words(\hEE8, <<"TRIGGER", "FIFO0", "ITATBCTR2">>) \o Reserved(1)
    \o Words(\hEF8, <<"ITATBCTR0", "FIFO1", "ITCTRL">>) \o Reserved(39)
    \o Words(\hFA0, <<"CLAIMSET", "CLAIMCLR">>) \o Reserved(8)
    \o Words(\hFC8, <<"DEVID", "DEVTYPE">>)
MPU_Type ==
    Words(0, <<"TYPE", "CTRL", "RNR", "RBAR", "RASR", "RBAR_A1", "RASR_A1", "RBAR_A2",
                 "RASR_A2", "RBAR_A3", "RASR_A3">>)
FPU_Type ==
    Reserved(1) \o Words(\h4, <<"FPCCR", "FPCAR", "FPDSCR", "MVFR0", "MVFR1", "MVFR2">>)
CoreDebug_Type == Words(0, <<"DHCSR", "DCRSR", "DCRDR", "DEMCR">>)

\* Addresses from 0xE0000000 up, as signed numbers.
ITM_BASE == 0 - \h20000000
DWT_BASE == ITM_BASE + \h1000
SCS_BASE == ITM_BASE + \hE000
TPI_BASE == ITM_BASE + \h40000

CorePeripherals ==
    LET structs == [ITM |-> At(ITM_Type, ITM_BASE), DWT |-> At(DWT_Type, DWT_BASE),
                    SCnSCB |-> At(SCnSCB_Type, SCS_BASE),
                    SysTick |-> At(SysTick_Type, SCS_BASE + \h10),
                    NVIC |-> At(NVIC_Type, SCS_BASE + \h100),
                    SCB |-> At(SCB_Type, SCS_BASE + \hD00),
                    MPU |-> At(MPU_Type, SCS_BASE + \hD90),
                    CoreDebug |-> At(CoreDebug_Type, SCS_BASE + \hDF0),
                    FPU |-> At(FPU_Type, SCS_BASE + \hF30), TPI |-> At(TPI_Type, TPI_BASE)]
    IN  [o \in {<<s, 0>> : s \in DOMAIN structs} |-> structs[o[1]]]
========================================================================================
