----------------------------------- MODULE MCHeaders -----------------------------------
(* Headers for every register of more than one field but the three of the trace port
   whose fields share bits, and for all the devices that the headers declare with a
   telemetry frame in RAM. *)
EXTENDS Headers, SystemRegisters, PortRegisters, TimerRegisters, SerialRegisters,
        UsbRegisters, CoreRegisters, TLC

Each(layouts) == [k \in DOMAIN layouts |-> At(layouts[k])]

MCRegisters ==
    Each(SystemLayouts) \o Each(PortLayouts) \o Each(TimerLayouts) \o Each(SerialLayouts)
    \o Each(UsbLayouts) \o Each(CoreLayouts)
    \o <<WithUnion(APSR, APSR_Type), WithUnion(xPSR, xPSR_Type),
         WithUnion(CONTROL, CONTROL_Type)>>

\* The three registers of the trace port whose definitions disagree with themselves.
TracePort == Each(SharedLayouts)

\* What earlier writes have left: nothing, everything, every other bit.
MCStartWords == {{}, Bits, {b \in Bits : b % 2 = 0}, {b \in Bits : b % 2 = 1}}
MCSample(n) == {{0}, {n - 1}}

Structs == INSTANCE PeripheralStructs
Core == INSTANCE CoreStructs
Telemetry == INSTANCE TelemetryStructs

SRAM1_BASE == \h20000000
MCObjects ==
    Structs!Peripherals @@ Core!CorePeripherals @@ Telemetry!TelemetryObjects(SRAM1_BASE)
========================================================================================
