---------------------------------- MODULE MCProcessor ----------------------------------
(* Nvic for every two interrupts with neighbouring numbers or with the same bit in
   different words, and Mpu with every kind of memory in single calls and with tables
   of up to 9 rows whose regions run upwards or by threes, so that a region may have
   two rows. The two have no register in common but those a reset clears: a step of
   one can do nothing to the other, and a behaviour looks at one of them. *)
EXTENDS Nvic, Mpu

VARIABLE unit

(* The faults and SVCall are not in a pair: they answer to the instruction that runs
   and never wait. *)
MCUsed == Device \cup {"NonMaskableInt", "PendSV", "SysTick"}
MCPairs ==
    {pair \in {{i, j} : i, j \in MCUsed} :
        \E i, j \in pair :
          /\ IRQn_Type[i] < IRQn_Type[j]
          /\ \/ \A k \in MCUsed : IRQn_Type[k] <= IRQn_Type[i]
                                    \/ IRQn_Type[k] >= IRQn_Type[j]
             \/ IRQn_Type[j] >= 32 /\ BitOf(i) = BitOf(j)}
MCPeriods == {0, 1, 2^24, 2^24 + 1}

Change(number, address, xn, ap, memory, srd, size) ==
    [region |-> number,
     want |-> [enable |-> TRUE, address |-> address, xn |-> xn, ap |-> ap,
               memory |-> memory, srd |-> srd, size |-> size]]

Ordered == [kind |-> "ordered"]
\* Every memory, every permission, every size.
MCChanges ==
    {Change(5, 5..31, 1, "RO", m, 255, <<4, "GB">>) : m \in Memories}
      \cup {Change(0, {29, 5}, 0, ap, Ordered, 1, <<32, "B">>) : ap \in DOMAIN ARM_MPU_AP}
      \cup {Change(7, {30}, 0, "FULL", Ordered, 128, RegionSizes[n]) :
              n \in DOMAIN RegionSizes}

Normal == [kind |-> "normal", outer |-> "WB_WRA", inner |-> "WT_NWA", shareable |-> 0]
MCTables ==
    {[k \in 1..n |-> Change((first + k * stride) % 8, {29, 12 + k}, k % 2, "FULL",
                            Normal, 0, <<2^k, "KB">>)] :
        n \in 0..9, first \in {0, 6}, stride \in {1, 3}}

ProcessorInit ==
    \/ unit = "interrupts" /\ Init /\ MpuInit
    \/ /\ unit = "protection" /\ Init /\ MpuInit
       /\ used = CHOOSE pair \in Pairs : TRUE
ProcessorNext ==
    /\ UNCHANGED unit
    /\ \/ unit = "interrupts" /\ Next /\ UNCHANGED mpuVars
       \/ unit = "protection" /\ MpuNext /\ UNCHANGED vars
ProcessorSpec ==
    ProcessorInit /\ [][ProcessorNext]_<<vars, unit, mpuVars>>
========================================================================================
