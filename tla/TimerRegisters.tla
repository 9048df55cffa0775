-------------------------------- MODULE TimerRegisters ---------------------------------
(* The registers of the timers, real-time clock and watchdogs, as stm32f411xe.h
   defines them: every register of more than one field. The bits of one field that
   have names of their own (_0, _1, ...) are left out, and so are second names of a
   field. *)
EXTENDS RegisterLayout, Sequences

IWDG_SR == [PVU |-> Bit(0), RVU |-> Bit(1)]

RTC_TR ==
    [PM |-> Bit(22), HT |-> Run(20, 2), HU |-> Run(16, 4), MNT |-> Run(12, 3),
     MNU |-> Run(8, 4), ST |-> Run(4, 3), SU |-> Run(0, 4)]
RTC_DR ==
    [YT |-> Run(20, 4), YU |-> Run(16, 4), WDU |-> Run(13, 3), MT |-> Bit(12),
     MU |-> Run(8, 4), DT |-> Run(4, 2), DU |-> Run(0, 4)]
RTC_CR ==
    [COE |-> Bit(23), OSEL |-> Run(21, 2), POL |-> Bit(20), COSEL |-> Bit(19),
     BKP |-> Bit(18), SUB1H |-> Bit(17), ADD1H |-> Bit(16), TSIE |-> Bit(15),
     WUTIE |-> Bit(14), ALRBIE |-> Bit(13), ALRAIE |-> Bit(12), TSE |-> Bit(11),
     WUTE |-> Bit(10), ALRBE |-> Bit(9), ALRAE |-> Bit(8), DCE |-> Bit(7),
     FMT |-> Bit(6), BYPSHAD |-> Bit(5), REFCKON |-> Bit(4), TSEDGE |-> Bit(3),
     WUCKSEL |-> Run(0, 3)]
RTC_ISR ==
    [RECALPF |-> Bit(16), TAMP1F |-> Bit(13), TAMP2F |-> Bit(14), TSOVF |-> Bit(12),
     TSF |-> Bit(11), WUTF |-> Bit(10), ALRBF |-> Bit(9), ALRAF |-> Bit(8),
     INIT |-> Bit(7), INITF |-> Bit(6), RSF |-> Bit(5), INITS |-> Bit(4),
     SHPF |-> Bit(3), WUTWF |-> Bit(2), ALRBWF |-> Bit(1), ALRAWF |-> Bit(0)]
RTC_PRER == [PREDIV_A |-> Run(16, 7), PREDIV_S |-> Run(0, 15)]
RTC_CALIBR == [DCS |-> Bit(7), DC |-> Run(0, 5)]
RTC_ALRMAR ==
    [MSK4 |-> Bit(31), WDSEL |-> Bit(30), DT |-> Run(28, 2), DU |-> Run(24, 4),
     MSK3 |-> Bit(23), PM |-> Bit(22), HT |-> Run(20, 2), HU |-> Run(16, 4),
     MSK2 |-> Bit(15), MNT |-> Run(12, 3), MNU |-> Run(8, 4), MSK1 |-> Bit(7),
     ST |-> Run(4, 3), SU |-> Run(0, 4)]
RTC_ALRMBR ==
    [MSK4 |-> Bit(31), WDSEL |-> Bit(30), DT |-> Run(28, 2), DU |-> Run(24, 4),
     MSK3 |-> Bit(23), PM |-> Bit(22), HT |-> Run(20, 2), HU |-> Run(16, 4),
     MSK2 |-> Bit(15), MNT |-> Run(12, 3), MNU |-> Run(8, 4), MSK1 |-> Bit(7),
     ST |-> Run(4, 3), SU |-> Run(0, 4)]
RTC_SHIFTR == [SUBFS |-> Run(0, 15), ADD1S |-> Bit(31)]
RTC_TSTR ==
    [PM |-> Bit(22), HT |-> Run(20, 2), HU |-> Run(16, 4), MNT |-> Run(12, 3),
     MNU |-> Run(8, 4), ST |-> Run(4, 3), SU |-> Run(0, 4)]
RTC_TSDR ==
    [WDU |-> Run(13, 3), MT |-> Bit(12), MU |-> Run(8, 4), DT |-> Run(4, 2),
     DU |-> Run(0, 4)]
RTC_CALR ==
    [CALP |-> Bit(15), CALW8 |-> Bit(14), CALW16 |-> Bit(13), CALM |-> Run(0, 9)]
RTC_TAFCR ==
    [ALARMOUTTYPE |-> Bit(18), TSINSEL |-> Bit(17), TAMP1INSEL |-> Bit(16),
     TAMPPUDIS |-> Bit(15), TAMPPRCH |-> Run(13, 2), TAMPFLT |-> Run(11, 2),
     TAMPFREQ |-> Run(8, 3), TAMPTS |-> Bit(7), TAMP2TRG |-> Bit(4), TAMP2E |-> Bit(3),
     TAMPIE |-> Bit(2), TAMP1TRG |-> Bit(1), TAMP1E |-> Bit(0)]
RTC_ALRMASSR == [MASKSS |-> Run(24, 4), SS |-> Run(0, 15)]
RTC_ALRMBSSR == [MASKSS |-> Run(24, 4), SS |-> Run(0, 15)]

TIM_CR1 ==
    [CEN |-> Bit(0), UDIS |-> Bit(1), URS |-> Bit(2), OPM |-> Bit(3), DIR |-> Bit(4),
     CMS |-> Run(5, 2), ARPE |-> Bit(7), CKD |-> Run(8, 2)]
TIM_CR2 ==
    [CCPC |-> Bit(0), CCUS |-> Bit(2), CCDS |-> Bit(3), MMS |-> Run(4, 3),
     TI1S |-> Bit(7), OIS1 |-> Bit(8), OIS1N |-> Bit(9), OIS2 |-> Bit(10),
     OIS2N |-> Bit(11), OIS3 |-> Bit(12), OIS3N |-> Bit(13), OIS4 |-> Bit(14)]
TIM_SMCR ==
    [SMS |-> Run(0, 3), TS |-> Run(4, 3), MSM |-> Bit(7), ETF |-> Run(8, 4),
     ETPS |-> Run(12, 2), ECE |-> Bit(14), ETP |-> Bit(15)]
TIM_DIER ==
    [UIE |-> Bit(0), CC1IE |-> Bit(1), CC2IE |-> Bit(2), CC3IE |-> Bit(3),
     CC4IE |-> Bit(4), COMIE |-> Bit(5), TIE |-> Bit(6), BIE |-> Bit(7), UDE |-> Bit(8),
     CC1DE |-> Bit(9), CC2DE |-> Bit(10), CC3DE |-> Bit(11), CC4DE |-> Bit(12),
     COMDE |-> Bit(13), TDE |-> Bit(14)]
TIM_SR ==
    [UIF |-> Bit(0), CC1IF |-> Bit(1), CC2IF |-> Bit(2), CC3IF |-> Bit(3),
     CC4IF |-> Bit(4), COMIF |-> Bit(5), TIF |-> Bit(6), BIF |-> Bit(7),
     CC1OF |-> Bit(9), CC2OF |-> Bit(10), CC3OF |-> Bit(11), CC4OF |-> Bit(12)]
TIM_EGR ==
    [UG |-> Bit(0), CC1G |-> Bit(1), CC2G |-> Bit(2), CC3G |-> Bit(3), CC4G |-> Bit(4),
     COMG |-> Bit(5), TG |-> Bit(6), BG |-> Bit(7)]
\* A capture/compare channel has one layout as an output and one as an input.
TIM_CCMR1_Output ==
    [CC1S |-> Run(0, 2), OC1FE |-> Bit(2), OC1PE |-> Bit(3), OC1M |-> Run(4, 3),
     OC1CE |-> Bit(7), CC2S |-> Run(8, 2), OC2FE |-> Bit(10), OC2PE |-> Bit(11),
     OC2M |-> Run(12, 3), OC2CE |-> Bit(15)]
TIM_CCMR1_Input ==
    [CC1S |-> Run(0, 2), CC2S |-> Run(8, 2), IC1PSC |-> Run(2, 2), IC1F |-> Run(4, 4),
     IC2PSC |-> Run(10, 2), IC2F |-> Run(12, 4)]
TIM_CCMR2_Output ==
    [CC3S |-> Run(0, 2), OC3FE |-> Bit(2), OC3PE |-> Bit(3), OC3M |-> Run(4, 3),
     OC3CE |-> Bit(7), CC4S |-> Run(8, 2), OC4FE |-> Bit(10), OC4PE |-> Bit(11),
     OC4M |-> Run(12, 3), OC4CE |-> Bit(15)]
TIM_CCMR2_Input ==
    [CC3S |-> Run(0, 2), CC4S |-> Run(8, 2), IC3PSC |-> Run(2, 2), IC3F |-> Run(4, 4),
     IC4PSC |-> Run(10, 2), IC4F |-> Run(12, 4)]
TIM_CCER ==
    [CC1E |-> Bit(0), CC1P |-> Bit(1), CC1NE |-> Bit(2), CC1NP |-> Bit(3),
     CC2E |-> Bit(4), CC2P |-> Bit(5), CC2NE |-> Bit(6), CC2NP |-> Bit(7),
     CC3E |-> Bit(8), CC3P |-> Bit(9), CC3NE |-> Bit(10), CC3NP |-> Bit(11),
     CC4E |-> Bit(12), CC4P |-> Bit(13), CC4NP |-> Bit(15)]
TIM_BDTR ==
    [DTG |-> Run(0, 8), LOCK |-> Run(8, 2), OSSI |-> Bit(10), OSSR |-> Bit(11),
     BKE |-> Bit(12), BKP |-> Bit(13), AOE |-> Bit(14), MOE |-> Bit(15)]
TIM_DCR == [DBA |-> Run(0, 5), DBL |-> Run(8, 5)]
TIM_OR == [TI1_RMP |-> Run(0, 2), TI4_RMP |-> Run(6, 2), ITR1_RMP |-> Run(10, 2)]

WWDG_CR == [T |-> Run(0, 7), WDGA |-> Bit(7)]
WWDG_CFR == [W |-> Run(0, 7), WDGTB |-> Run(7, 2), EWI |-> Bit(9)]

TimerLayouts ==
    <<IWDG_SR, RTC_TR, RTC_DR, RTC_CR, RTC_ISR, RTC_PRER, RTC_CALIBR, RTC_ALRMAR,
      RTC_ALRMBR, RTC_SHIFTR, RTC_TSTR, RTC_TSDR, RTC_CALR, RTC_TAFCR, RTC_ALRMASSR,
      RTC_ALRMBSSR, TIM_CR1, TIM_CR2, TIM_SMCR, TIM_DIER, TIM_SR, TIM_EGR,
      TIM_CCMR1_Output, TIM_CCMR1_Input, TIM_CCMR2_Output, TIM_CCMR2_Input, TIM_CCER,
      TIM_BDTR, TIM_DCR, TIM_OR, WWDG_CR, WWDG_CFR>>
========================================================================================
