--------------------------------- MODULE UsbRegisters ----------------------------------
(* The registers of the USB controller, as stm32f411xe.h defines them: every register
   of more than one field. The bits of one field that have names of their own (_0, _1,
   ...) are left out, and so are second names of a field. *)
EXTENDS RegisterLayout, Sequences

USB_OTG_GOTGCTL ==
    [SRQSCS |-> Bit(0), SRQ |-> Bit(1), HNGSCS |-> Bit(8), HNPRQ |-> Bit(9),
     HSHNPEN |-> Bit(10), DHNPEN |-> Bit(11), CIDSTS |-> Bit(16), DBCT |-> Bit(17),
     ASVLD |-> Bit(18), BSVLD |-> Bit(19)]
USB_OTG_HCFG == [FSLSPCS |-> Run(0, 2), FSLSS |-> Bit(2)]
USB_OTG_DCFG ==
    [DSPD |-> Run(0, 2), NZLSOHSK |-> Bit(2), DAD |-> Run(4, 7), PFIVL |-> Run(11, 2),
     XCVRDLY |-> Bit(14), ERRATIM |-> Bit(15), PERSCHIVL |-> Run(24, 2)]
USB_OTG_PCGCR == [STPPCLK |-> Bit(0), GATEHCLK |-> Bit(1), PHYSUSP |-> Bit(4)]
USB_OTG_GOTGINT ==
    [SEDET |-> Bit(2), SRSSCHG |-> Bit(8), HNSSCHG |-> Bit(9), HNGDET |-> Bit(17),
     ADTOCHG |-> Bit(18), DBCDNE |-> Bit(19)]
USB_OTG_DCTL ==
    [RWUSIG |-> Bit(0), SDIS |-> Bit(1), GINSTS |-> Bit(2), GONSTS |-> Bit(3),
     TCTL |-> Run(4, 3), SGINAK |-> Bit(7), CGINAK |-> Bit(8), SGONAK |-> Bit(9),
     CGONAK |-> Bit(10), POPRGDNE |-> Bit(11)]
USB_OTG_HFNUM == [FRNUM |-> Run(0, 16), FTREM |-> Run(16, 16)]
USB_OTG_DSTS ==
    [SUSPSTS |-> Bit(0), ENUMSPD |-> Run(1, 2), EERR |-> Bit(3), FNSOF |-> Run(8, 14)]
USB_OTG_GAHBCFG ==
    [GINT |-> Bit(0), HBSTLEN |-> Run(1, 4), DMAEN |-> Bit(5), TXFELVL |-> Bit(7),
     PTXFELVL |-> Bit(8)]
USB_OTG_GUSBCFG ==
    [TOCAL |-> Run(0, 3), PHYSEL |-> Bit(6), SRPCAP |-> Bit(8), HNPCAP |-> Bit(9),
     TRDT |-> Run(10, 4), PHYLPCS |-> Bit(15), ULPIFSLS |-> Bit(17), ULPIAR |-> Bit(18),
     ULPICSM |-> Bit(19), ULPIEVBUSD |-> Bit(20), ULPIEVBUSI |-> Bit(21),
     TSDPS |-> Bit(22), PCCI |-> Bit(23), PTCI |-> Bit(24), ULPIIPD |-> Bit(25),
     FHMOD |-> Bit(29), FDMOD |-> Bit(30), CTXPKT |-> Bit(31)]
USB_OTG_GRSTCTL ==
    [CSRST |-> Bit(0), HSRST |-> Bit(1), FCRST |-> Bit(2), RXFFLSH |-> Bit(4),
     TXFFLSH |-> Bit(5), TXFNUM |-> Run(6, 5), DMAREQ |-> Bit(30), AHBIDL |-> Bit(31)]
USB_OTG_DIEPMSK ==
    [XFRCM |-> Bit(0), EPDM |-> Bit(1), TOM |-> Bit(3), ITTXFEMSK |-> Bit(4),
     INEPNMM |-> Bit(5), INEPNEM |-> Bit(6), TXFURM |-> Bit(8), NAKM |-> Bit(13)]
USB_OTG_HPTXSTS ==
    [PTXFSAVL |-> Run(0, 16), PTXQSAV |-> Run(16, 8), PTXQTOP |-> Run(24, 8)]
USB_OTG_DOEPMSK ==
    [XFRCM |-> Bit(0), EPDM |-> Bit(1), AHBERRM |-> Bit(2), STUPM |-> Bit(3),
     OTEPDM |-> Bit(4), OTEPSPRM |-> Bit(5), B2BSTUP |-> Bit(6), OPEM |-> Bit(8),
     BOIM |-> Bit(9), BERRM |-> Bit(12), NAKM |-> Bit(13), NYETM |-> Bit(14)]
USB_OTG_GINTSTS ==
    [CMOD |-> Bit(0), MMIS |-> Bit(1), OTGINT |-> Bit(2), SOF |-> Bit(3),
     RXFLVL |-> Bit(4), NPTXFE |-> Bit(5), GINAKEFF |-> Bit(6), BOUTNAKEFF |-> Bit(7),
     ESUSP |-> Bit(10), USBSUSP |-> Bit(11), USBRST |-> Bit(12), ENUMDNE |-> Bit(13),
     ISOODRP |-> Bit(14), EOPF |-> Bit(15), IEPINT |-> Bit(18), OEPINT |-> Bit(19),
     IISOIXFR |-> Bit(20), PXFR_INCOMPISOOUT |-> Bit(21), DATAFSUSP |-> Bit(22),
     HPRTINT |-> Bit(24), HCINT |-> Bit(25), PTXFE |-> Bit(26), CIDSCHG |-> Bit(28),
     DISCINT |-> Bit(29), SRQINT |-> Bit(30), WKUINT |-> Bit(31)]
USB_OTG_GINTMSK ==
    [MMISM |-> Bit(1), OTGINT |-> Bit(2), SOFM |-> Bit(3), RXFLVLM |-> Bit(4),
     NPTXFEM |-> Bit(5), GINAKEFFM |-> Bit(6), GONAKEFFM |-> Bit(7), ESUSPM |-> Bit(10),
     USBSUSPM |-> Bit(11), USBRST |-> Bit(12), ENUMDNEM |-> Bit(13),
     ISOODRPM |-> Bit(14), EOPFM |-> Bit(15), EPMISM |-> Bit(17), IEPINT |-> Bit(18),
     OEPINT |-> Bit(19), IISOIXFRM |-> Bit(20), PXFRM_IISOOXFRM |-> Bit(21),
     FSUSPM |-> Bit(22), PRTIM |-> Bit(24), HCIM |-> Bit(25), PTXFEM |-> Bit(26),
     CIDSCHGM |-> Bit(28), DISCINT |-> Bit(29), SRQIM |-> Bit(30), WUIM |-> Bit(31)]
USB_OTG_DAINT == [IEPINT |-> Run(0, 16), OEPINT |-> Run(16, 16)]
USB_OTG_GRXSTSP ==
    [EPNUM |-> Run(0, 4), BCNT |-> Run(4, 11), DPID |-> Run(15, 2),
     PKTSTS |-> Run(17, 4)]
USB_OTG_DAINTMSK == [IEPM |-> Run(0, 16), OEPM |-> Run(16, 16)]
\* One word, two layouts: for a host and for a device.
USB_OTG_NPTXF == [NPTXFSA |-> Run(0, 16), NPTXFD |-> Run(16, 16)]
USB_OTG_TX0F == [TX0FSA |-> Run(0, 16), TX0FD |-> Run(16, 16)]
USB_OTG_GNPTXSTS ==
    [NPTXFSAV |-> Run(0, 16), NPTQXSAV |-> Run(16, 8), NPTXQTOP |-> Run(24, 7)]
USB_OTG_DTHRCTL ==
    [NONISOTHREN |-> Bit(0), ISOTHREN |-> Bit(1), TXTHRLEN |-> Run(2, 9),
     RXTHREN |-> Bit(16), RXTHRLEN |-> Run(17, 9), ARPEN |-> Bit(27)]
USB_OTG_DEACHINT == [IEP1INT |-> Bit(1), OEP1INT |-> Bit(17)]
USB_OTG_GCCFG ==
    [PWRDWN |-> Bit(16), I2CPADEN |-> Bit(17), VBUSASEN |-> Bit(18),
     VBUSBSEN |-> Bit(19), SOFOUTEN |-> Bit(20), NOVBUSSENS |-> Bit(21)]
USB_OTG_DEACHINTMSK == [IEP1INTM |-> Bit(1), OEP1INTM |-> Bit(17)]
USB_OTG_DIEPEACHMSK1 ==
    [XFRCM |-> Bit(0), EPDM |-> Bit(1), TOM |-> Bit(3), ITTXFEMSK |-> Bit(4),
     INEPNMM |-> Bit(5), INEPNEM |-> Bit(6), TXFURM |-> Bit(8), BIM |-> Bit(9),
     NAKM |-> Bit(13)]
USB_OTG_HPRT ==
    [PCSTS |-> Bit(0), PCDET |-> Bit(1), PENA |-> Bit(2), PENCHNG |-> Bit(3),
     POCA |-> Bit(4), POCCHNG |-> Bit(5), PRES |-> Bit(6), PSUSP |-> Bit(7),
     PRST |-> Bit(8), PLSTS |-> Run(10, 2), PPWR |-> Bit(12), PTCTL |-> Run(13, 4),
     PSPD |-> Run(17, 2)]
USB_OTG_DOEPEACHMSK1 ==
    [XFRCM |-> Bit(0), EPDM |-> Bit(1), TOM |-> Bit(3), ITTXFEMSK |-> Bit(4),
     INEPNMM |-> Bit(5), INEPNEM |-> Bit(6), TXFURM |-> Bit(8), BIM |-> Bit(9),
     BERRM |-> Bit(12), NAKM |-> Bit(13), NYETM |-> Bit(14)]
USB_OTG_HPTXFSIZ == [PTXSA |-> Run(0, 16), PTXFD |-> Run(16, 16)]
USB_OTG_DIEPCTL ==
    [MPSIZ |-> Run(0, 11), USBAEP |-> Bit(15), EONUM_DPID |-> Bit(16),
     NAKSTS |-> Bit(17), EPTYP |-> Run(18, 2), STALL |-> Bit(21), TXFNUM |-> Run(22, 4),
     CNAK |-> Bit(26), SNAK |-> Bit(27), SD0PID_SEVNFRM |-> Bit(28),
     SODDFRM |-> Bit(29), EPDIS |-> Bit(30), EPENA |-> Bit(31)]
USB_OTG_HCCHAR ==
    [MPSIZ |-> Run(0, 11), EPNUM |-> Run(11, 4), EPDIR |-> Bit(15), LSDEV |-> Bit(17),
     EPTYP |-> Run(18, 2), MC |-> Run(20, 2), DAD |-> Run(22, 7), ODDFRM |-> Bit(29),
     CHDIS |-> Bit(30), CHENA |-> Bit(31)]
USB_OTG_HCSPLT ==
    [PRTADDR |-> Run(0, 7), HUBADDR |-> Run(7, 7), XACTPOS |-> Run(14, 2),
     COMPLSPLT |-> Bit(16), SPLITEN |-> Bit(31)]
USB_OTG_HCINT ==
    [XFRC |-> Bit(0), CHH |-> Bit(1), AHBERR |-> Bit(2), STALL |-> Bit(3),
     NAK |-> Bit(4), ACK |-> Bit(5), NYET |-> Bit(6), TXERR |-> Bit(7),
     BBERR |-> Bit(8), FRMOR |-> Bit(9), DTERR |-> Bit(10)]
USB_OTG_DIEPINT ==
    [XFRC |-> Bit(0), EPDISD |-> Bit(1), AHBERR |-> Bit(2), TOC |-> Bit(3),
     ITTXFE |-> Bit(4), INEPNM |-> Bit(5), INEPNE |-> Bit(6), TXFE |-> Bit(7),
     TXFIFOUDRN |-> Bit(8), BNA |-> Bit(9), PKTDRPSTS |-> Bit(11), BERR |-> Bit(12),
     NAK |-> Bit(13)]
USB_OTG_HCINTMSK ==
    [XFRCM |-> Bit(0), CHHM |-> Bit(1), AHBERR |-> Bit(2), STALLM |-> Bit(3),
     NAKM |-> Bit(4), ACKM |-> Bit(5), NYET |-> Bit(6), TXERRM |-> Bit(7),
     BBERRM |-> Bit(8), FRMORM |-> Bit(9), DTERRM |-> Bit(10)]
USB_OTG_DIEPTSIZ ==
    [XFRSIZ |-> Run(0, 19), PKTCNT |-> Run(19, 10), MULCNT |-> Run(29, 2)]
USB_OTG_HCTSIZ ==
    [XFRSIZ |-> Run(0, 19), PKTCNT |-> Run(19, 10), DOPING |-> Bit(31),
     DPID |-> Run(29, 2)]
USB_OTG_DIEPTXF == [INEPTXSA |-> Run(0, 16), INEPTXFD |-> Run(16, 16)]
USB_OTG_DOEPCTL ==
    [MPSIZ |-> Run(0, 11), USBAEP |-> Bit(15), NAKSTS |-> Bit(17),
     SD0PID_SEVNFRM |-> Bit(28), SODDFRM |-> Bit(29), EPTYP |-> Run(18, 2),
     SNPM |-> Bit(20), STALL |-> Bit(21), CNAK |-> Bit(26), SNAK |-> Bit(27),
     EPDIS |-> Bit(30), EPENA |-> Bit(31)]
USB_OTG_DOEPINT ==
    [XFRC |-> Bit(0), EPDISD |-> Bit(1), AHBERR |-> Bit(2), STUP |-> Bit(3),
     OTEPDIS |-> Bit(4), OTEPSPR |-> Bit(5), B2BSTUP |-> Bit(6), OUTPKTERR |-> Bit(8),
     NAK |-> Bit(13), NYET |-> Bit(14), STPKTRX |-> Bit(15)]
USB_OTG_DOEPTSIZ ==
    [XFRSIZ |-> Run(0, 19), PKTCNT |-> Run(19, 10), STUPCNT |-> Run(29, 2)]
USB_OTG_PCGCCTL == [STOPCLK |-> Bit(0), GATECLK |-> Bit(1), PHYSUSP |-> Bit(4)]
\* The legacy names of an OTG register: for the channel of a host, and for an endpoint.
USB_OTG_Channel ==
    [CHNUM |-> Run(0, 4), BCNT |-> Run(4, 11), DPID |-> Run(15, 2),
     PKTSTS |-> Run(17, 4)]
USB_OTG_Endpoint ==
    [EPNUM |-> Run(0, 4), BCNT |-> Run(4, 11), DPID |-> Run(15, 2),
     PKTSTS |-> Run(17, 4), FRMNUM |-> Run(21, 4)]

UsbLayouts ==
    <<USB_OTG_GOTGCTL, USB_OTG_HCFG, USB_OTG_DCFG, USB_OTG_PCGCR, USB_OTG_GOTGINT,
      USB_OTG_DCTL, USB_OTG_HFNUM, USB_OTG_DSTS, USB_OTG_GAHBCFG, USB_OTG_GUSBCFG,
      USB_OTG_GRSTCTL, USB_OTG_DIEPMSK, USB_OTG_HPTXSTS, USB_OTG_DOEPMSK,
      USB_OTG_GINTSTS, USB_OTG_GINTMSK, USB_OTG_DAINT, USB_OTG_GRXSTSP,
      USB_OTG_DAINTMSK, USB_OTG_NPTXF, USB_OTG_TX0F, USB_OTG_GNPTXSTS, USB_OTG_DTHRCTL,
      USB_OTG_DEACHINT, USB_OTG_GCCFG, USB_OTG_DEACHINTMSK, USB_OTG_DIEPEACHMSK1,
      USB_OTG_HPRT, USB_OTG_DOEPEACHMSK1, USB_OTG_HPTXFSIZ, USB_OTG_DIEPCTL,
      USB_OTG_HCCHAR, USB_OTG_HCSPLT, USB_OTG_HCINT, USB_OTG_DIEPINT, USB_OTG_HCINTMSK,
      USB_OTG_DIEPTSIZ, USB_OTG_HCTSIZ, USB_OTG_DIEPTXF, USB_OTG_DOEPCTL,
      USB_OTG_DOEPINT, USB_OTG_DOEPTSIZ, USB_OTG_PCGCCTL, USB_OTG_Channel,
      USB_OTG_Endpoint>>
========================================================================================
