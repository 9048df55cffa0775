-------------------------------------- MODULE Mpu --------------------------------------
(* The memory protection unit of the Cortex-M4 and the functions of mpu_armv7.h that
   set up its regions: the macros that pack the words of a region, the functions for
   one region, and ARM_MPU_Load, which writes a table through the four pairs of
   addresses that the unit answers to, store by store. A word is the set of its 1
   bits. *)
EXTENDS RegisterMacros, CoreRegisters, Sequences

CONSTANTS
    Tables,     \* the tables that are loaded
    Changes,    \* the single regions that are set afterwards
    MaxCalls    \* bound: how many times regions are set or cleared

VARIABLES
    rnr,        \* the region selected
    rbar, rasr, \* the address and the attributes of each region
    ctrl,       \* the control register
    memfault,   \* SCB: a violation has an exception of its own
    stores,     \* what the call in progress still stores: registers with their words
    table, copied, \* ARM_MPU_Load: the rows left, and the words copied of this part
    calls,      \* how many calls have set or cleared a region
    asked       \* ghost: what each region was last asked to be

mpuVars == <<rnr, rbar, rasr, ctrl, memfault, stores, table, copied, calls, asked>>

Regions == 0..7     \* MPU_TYPE.DREGION of the Cortex-M4
Off == [enable |-> FALSE]

----------------------------------------------------------------------------------------
(* The words of a region *)

\* ARM_MPU_REGION_SIZE_32B to ARM_MPU_REGION_SIZE_4GB, by their values from 4 to 31.
RegionSizes ==
    <<<<32, "B">>, <<64, "B">>, <<128, "B">>, <<256, "B">>, <<512, "B">>, <<1, "KB">>,
      <<2, "KB">>, <<4, "KB">>, <<8, "KB">>, <<16, "KB">>, <<32, "KB">>, <<64, "KB">>,
      <<128, "KB">>, <<256, "KB">>, <<512, "KB">>, <<1, "MB">>, <<2, "MB">>, <<4, "MB">>,
      <<8, "MB">>, <<16, "MB">>, <<32, "MB">>, <<64, "MB">>, <<128, "MB">>, <<256, "MB">>,
      <<512, "MB">>, <<1, "GB">>, <<2, "GB">>, <<4, "GB">>>>
ARM_MPU_REGION_SIZE(size) ==
    3 + CHOOSE n \in DOMAIN RegionSizes : RegionSizes[n] = size

ARM_MPU_AP == [NONE |-> 0, PRIV |-> 1, URO |-> 2, FULL |-> 3, PRO |-> 5, RO |-> 6]

ARM_MPU_CACHEP == [NOCACHE |-> 0, WB_WRA |-> 1, WT_NWA |-> 2, WB_NWA |-> 3]

ARM_MPU_RBAR(region, address) ==
    (address \cap MPU_RBAR.ADDR.mask) \cup (Word(region) \cap MPU_RBAR.REGION.mask)
        \cup MPU_RBAR.VALID.mask

ARM_MPU_ACCESS_(tex, shareable, cacheable, bufferable) ==
    VAL2FLD(19, MPU_RASR.TEX.mask, Word(tex))
        \cup VAL2FLD(18, MPU_RASR.S.mask, Word(shareable))
        \cup VAL2FLD(17, MPU_RASR.C.mask, Word(cacheable))
        \cup VAL2FLD(16, MPU_RASR.B.mask, Word(bufferable))

ARM_MPU_ACCESS_ORDERED == ARM_MPU_ACCESS_(0, 1, 0, 0)

ARM_MPU_ACCESS_DEVICE(shareable) ==
    IF shareable = 1 THEN ARM_MPU_ACCESS_(0, 1, 0, 1) ELSE ARM_MPU_ACCESS_(2, 0, 0, 0)

ARM_MPU_ACCESS_NORMAL(outer, inner, shareable) ==
    ARM_MPU_ACCESS_(4 + outer, shareable, inner \div 2, inner % 2)

ARM_MPU_RASR_EX(xn, ap, access, srd, size) ==
    VAL2FLD(28, MPU_RASR.XN.mask, Word(xn)) \cup VAL2FLD(24, MPU_RASR.AP.mask, Word(ap))
        \cup (access \cap UNION {MPU_RASR.TEX.mask, MPU_RASR.S.mask, MPU_RASR.C.mask,
                                 MPU_RASR.B.mask})
        \cup VAL2FLD(8, MPU_RASR.SRD.mask, Word(srd))
        \cup VAL2FLD(1, MPU_RASR.SIZE.mask, Word(size)) \cup MPU_RASR.ENABLE.mask

(* A region as a program wants it, and the macro for its kind of memory. *)
Access(memory) ==
    CASE memory.kind = "ordered" -> ARM_MPU_ACCESS_ORDERED
      [] memory.kind = "device" -> ARM_MPU_ACCESS_DEVICE(memory.shareable)
      [] memory.kind = "normal" ->
           ARM_MPU_ACCESS_NORMAL(ARM_MPU_CACHEP[memory.outer],
                                 ARM_MPU_CACHEP[memory.inner], memory.shareable)

ARM_MPU_RASR(want) ==
    ARM_MPU_RASR_EX(want.xn, ARM_MPU_AP[want.ap], Access(want.memory), want.srd,
                    ARM_MPU_REGION_SIZE(want.size))

(* What a program may want of a region, and the regions with what is wanted of them. *)
Memories ==
    {[kind |-> "ordered"]} \cup [kind : {"device"}, shareable : 0..1]
      \cup [kind : {"normal"}, outer : DOMAIN ARM_MPU_CACHEP,
            inner : DOMAIN ARM_MPU_CACHEP, shareable : 0..1]
Wants ==
    [enable : {TRUE}, address : SUBSET MPU_RBAR.ADDR.mask, xn : 0..1,
     ap : DOMAIN ARM_MPU_AP, memory : Memories, srd : 0..255,
     size : {RegionSizes[n] : n \in DOMAIN RegionSizes}]
Settings == [region : Regions, want : Wants]

ASSUME MpuAssumption == Changes \subseteq Settings /\ Tables \subseteq Seq(Settings)

\* ARM_MPU_Region_t
Row(region, want) ==
    [RBAR |-> ARM_MPU_RBAR(region, want.address), RASR |-> ARM_MPU_RASR(want)]

----------------------------------------------------------------------------------------
(* The registers *)

(* An address with VALID selects the region it names. The aliases are further
   addresses of the same two registers; behind the last nothing is written. *)
StoreRBAR(word) ==
    LET region == IF MPU_RBAR.VALID.mask \subseteq word
                    THEN Number(word \cap MPU_RBAR.REGION.mask) ELSE rnr
    IN  /\ rnr' = region
        /\ rbar' = [rbar EXCEPT ![region] = word \cap MPU_RBAR.ADDR.mask]
        /\ UNCHANGED <<rasr, ctrl, memfault>>

StoreRASR(word) ==
    /\ rasr' = [rasr EXCEPT ![rnr] = word]
    /\ UNCHANGED <<rnr, rbar, ctrl, memfault>>

Aliases == 4
StoreWord(k, word) ==
    IF k >= 2 * Aliases THEN UNCHANGED <<rnr, rbar, rasr, ctrl, memfault>>
    ELSE IF k % 2 = 0 THEN StoreRBAR(word) ELSE StoreRASR(word)

MpuInit ==
    /\ rnr = 0
    /\ rbar = [r \in Regions |-> {}]
    /\ rasr = [r \in Regions |-> {}]
    /\ ctrl = {}
    /\ memfault = FALSE
    /\ stores = <<>>
    /\ table = <<>>
    /\ copied = 0
    /\ calls = 0
    /\ asked = [r \in Regions |-> Off]

----------------------------------------------------------------------------------------
(* Calls for a single region, and the switch *)

Idle == stores = <<>> /\ table = <<>>

Call(list) ==
    /\ Idle
    /\ stores' = list
    /\ UNCHANGED <<rnr, rbar, rasr, ctrl, memfault, table, copied>>

Changing(list, region, want) ==
    /\ calls < MaxCalls
    /\ Call(list)
    /\ calls' = calls + 1
    /\ asked' = [asked EXCEPT ![region] = want]

ARM_MPU_ClrRegion(region) ==
    Changing(<<<<"RNR", region>>, <<"RASR", {}>>>>, region, Off)

ARM_MPU_SetRegion(region, want) ==
    LET row == Row(region, want)
    IN  Changing(<<<<"RBAR", row.RBAR>>, <<"RASR", row.RASR>>>>, region, want)

\* With a plain address: the region is the one selected first.
ARM_MPU_SetRegionEx(region, want) ==
    Changing(<<<<"RNR", region>>, <<"RBAR", want.address>>,
               <<"RASR", ARM_MPU_RASR(want)>>>>, region, want)

ARM_MPU_Enable(control) ==
    /\ Call(<<<<"CTRL", control \cup MPU_CTRL.ENABLE.mask>>, <<"SHCSR", TRUE>>>>)
    /\ UNCHANGED <<calls, asked>>

ARM_MPU_Disable ==
    /\ Call(<<<<"SHCSR", FALSE>>, <<"CTRL", ctrl \ MPU_CTRL.ENABLE.mask>>>>)
    /\ UNCHANGED <<calls, asked>>

Store ==
    /\ stores # <<>>
    /\ LET reg == Head(stores)[1]
           word == Head(stores)[2]
       IN  \/ reg = "RNR" /\ rnr' = word /\ UNCHANGED <<rbar, rasr, ctrl, memfault>>
           \/ reg = "RBAR" /\ StoreRBAR(word)
           \/ reg = "RASR" /\ StoreRASR(word)
           \/ reg = "CTRL" /\ ctrl' = word /\ UNCHANGED <<rnr, rbar, rasr, memfault>>
           \/ reg = "SHCSR" /\ memfault' = word /\ UNCHANGED <<rnr, rbar, rasr, ctrl>>
    /\ stores' = Tail(stores)
    /\ UNCHANGED <<table, copied, calls, asked>>

----------------------------------------------------------------------------------------
(* Loading a table *)

(* Mutant: the header is taken from a unit with one alias more. *)
RALIASES_Five == 5

RALIASES == 4   \* MPU_TYPE_RALIASES of core_cm4.h

\* What a region is asked to be by the last row for it, if there is one.
Last(rows, region) ==
    LET its == {k \in DOMAIN rows : rows[k].region = region}
    IN  IF its = {} THEN asked[region] ELSE rows[Max(its)].want

ARM_MPU_Load(rows) ==
    /\ calls < MaxCalls
    /\ Idle
    /\ table' = rows
    /\ copied' = 0
    /\ calls' = calls + 1
    /\ asked' = [r \in Regions |-> Last(rows, r)]
    /\ UNCHANGED <<rnr, rbar, rasr, ctrl, memfault, stores>>

\* The rows that one call of ARM_MPU_OrderedMemcpy copies.
Part == IF Len(table) > RALIASES THEN RALIASES ELSE Len(table)

\* dst[i] = src[i]
ARM_MPU_OrderedMemcpy ==
    /\ table # <<>>
    /\ copied < 2 * Part
    /\ LET row == Row(table[(copied \div 2) + 1].region, table[(copied \div 2) + 1].want)
       IN  StoreWord(copied, IF copied % 2 = 0 THEN row.RBAR ELSE row.RASR)
    /\ copied' = copied + 1
    /\ UNCHANGED <<stores, table, calls, asked>>

NextPart ==
    /\ table # <<>>
    /\ copied = 2 * Part
    /\ table' = SubSeq(table, Part + 1, Len(table))
    /\ copied' = 0
    /\ UNCHANGED <<rnr, rbar, rasr, ctrl, memfault, stores, calls, asked>>

MpuNext ==
    \/ \E row \in Changes : ARM_MPU_SetRegion(row.region, row.want)
    \/ \E row \in Changes : ARM_MPU_SetRegionEx(row.region, row.want)
    \/ \E row \in Changes : ARM_MPU_ClrRegion(row.region)
    \/ \E rows \in Tables : ARM_MPU_Load(rows)
    \/ \E control \in {{}, MPU_CTRL.PRIVDEFENA.mask} : ARM_MPU_Enable(control)
    \/ ARM_MPU_Disable
    \/ Store
    \/ ARM_MPU_OrderedMemcpy
    \/ NextPart

MpuSpec == MpuInit /\ [][MpuNext]_mpuVars

----------------------------------------------------------------------------------------
(* What the unit enforces *)

Field(word, mask) == Number({b - Min(mask) : b \in word \cap mask})

\* The architecture's tables: cache policies, permissions for privileged and for other
\* code, kinds of memory, and sizes, where n stands for 2^(n + 1) bytes.
Policy == <<"NOCACHE", "WB_WRA", "WT_NWA", "WB_NWA">>
Permission ==
    [NONE |-> <<"", "">>, PRIV |-> <<"rw", "">>, URO |-> <<"rw", "r">>,
     FULL |-> <<"rw", "rw">>, PRO |-> <<"r", "">>, RO |-> <<"r", "r">>]
Permitted ==
    <<<<"", "">>, <<"rw", "">>, <<"rw", "r">>, <<"rw", "rw">>, <<"reserved">>,
      <<"r", "">>, <<"r", "r">>, <<"r", "r">>>>

MemoryType(word) ==
    LET tex == Field(word, MPU_RASR.TEX.mask)
        s == Field(word, MPU_RASR.S.mask)
        c == Field(word, MPU_RASR.C.mask)
        b == Field(word, MPU_RASR.B.mask)
    IN  CASE tex >= 4 ->
               [kind |-> "normal", outer |-> Policy[tex - 3],
                inner |-> Policy[2 * c + b + 1], shareable |-> s]
          [] <<tex, c, b>> = <<0, 0, 0>> -> [kind |-> "ordered"]
          [] <<tex, c, b>> = <<0, 0, 1>> -> [kind |-> "device", shareable |-> 1]
          [] <<tex, c, b>> = <<2, 0, 0>> -> [kind |-> "device", shareable |-> 0]
          [] OTHER -> [kind |-> "reserved"]

Size(n) ==
    CASE n + 1 < 10 -> <<2^(n + 1), "B">>
      [] n + 1 \in 10..19 -> <<2^(n - 9), "KB">>
      [] n + 1 \in 20..29 -> <<2^(n - 19), "MB">>
      [] n + 1 >= 30 -> <<2^(n - 29), "GB">>

Enforces(r, want) ==
    LET word == rasr[r]
    IN  IF want.enable
          THEN /\ MPU_RASR.ENABLE.mask \subseteq word
               /\ rbar[r] = want.address
               /\ Field(word, MPU_RASR.XN.mask) = want.xn
               /\ Permitted[Field(word, MPU_RASR.AP.mask) + 1] = Permission[want.ap]
               /\ MemoryType(word) = want.memory
               /\ Field(word, MPU_RASR.SRD.mask) = want.srd
               /\ Size(Field(word, MPU_RASR.SIZE.mask)) = want.size
          ELSE MPU_RASR.ENABLE.mask \cap word = {}

(* Between calls every region is what the last call for it asked for, in every field,
   whether it came alone or in a table of any length and order, and a violation has
   its own exception exactly while the unit is on. *)
AsAsked ==
    Idle =>
      /\ \A r \in Regions : Enforces(r, asked[r])
      /\ memfault = (MPU_CTRL.ENABLE.mask \subseteq ctrl)
========================================================================================
