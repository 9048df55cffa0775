-------------------------------- MODULE RegisterFields ---------------------------------
(* A driver that sets up a register field by field with the macros of stm32f4xx.h
   and core_cm4.h, and the record of field values that it believes it has written.
   The fields of a status register are set by the hardware, in the same layout. *)
EXTENDS RegisterMacros, Sequences

CONSTANTS
    Registers,      \* the registers: the layout of the header, its position and its
                    \* mask for each field, and the bits of the union members
    StartWords,     \* what a register may hold before
    Sample(_),      \* Sample(n): values of n bits that are written to a field
    MaxWrites       \* bound: writes to a register

VARIABLES
    reg,            \* the register the driver sets up, an index into Registers
    word,           \* what it holds
    intended,       \* what the driver believes its fields to be
    writes          \* the writes so far

vars == <<reg, word, intended, writes>>

Fields == DOMAIN Registers[reg].layout
Msk(f) == Registers[reg].layout[f].mask
Pos(f) == Registers[reg].layout[f].pos
Member(f) == Registers[reg].union[f]

(* A register with a union of bit fields beside its masks, and one without. *)
Masks(layout) == [f \in DOMAIN layout |-> layout[f].mask]
WithUnion(layout, union) == [layout |-> layout, union |-> union]
At(layout) == WithUnion(layout, Masks(layout))

Width(f) == Cardinality(Msk(f))

Init ==
    /\ reg \in DOMAIN Registers
    /\ word \in StartWords
    /\ intended = [f \in Fields |-> FLD2VAL(Pos(f), Msk(f), word)]
    /\ writes = 0

Write(value, record) ==
    /\ writes < MaxWrites
    /\ word' = value
    /\ intended' = record
    /\ writes' = writes + 1
    /\ UNCHANGED reg

(* Every bit of a field set, or cleared: SET_BIT(REG, MASK), CLEAR_BIT(REG, MASK). *)
SetField(f) ==
    Write(SET_BIT(word, Msk(f)), [intended EXCEPT ![f] = 0..Width(f) - 1])
ClearField(f) ==
    Write(CLEAR_BIT(word, Msk(f)), [intended EXCEPT ![f] = {}])

(* A value put into a field by its position, MODIFY_REG(REG, MASK, VALUE << POS),
   with the position computed or taken from the header. *)
ModifyField(f) == \E v \in Sample(Width(f)) :
    Write(MODIFY_REG(word, Msk(f), VAL2FLD(Pos(f), Msk(f), v)),
          [intended EXCEPT ![f] = v])
ModifyAtPosition(f) == \E v \in Sample(Width(f)) :
    Write(MODIFY_REG(word, Msk(f), ShiftLeft(v, POSITION_VAL(Msk(f)))),
          [intended EXCEPT ![f] = v])

(* CLEAR_REG *)
ClearRegister == Write({}, [f \in Fields |-> {}])

Next ==
    \/ ClearRegister
    \/ \E f \in Fields :
        SetField(f) \/ ClearField(f) \/ ModifyField(f) \/ ModifyAtPosition(f)

Spec == Init /\ [][Next]_vars

----------------------------------------------------------------------------------------
(* Every field is a run of bits that begins at its position, in a 32-bit word, and
   no two fields of a register share one. *)
FieldsApart(r) ==
    /\ \A f \in DOMAIN r.layout : \E hi \in Bits :
        r.layout[f].pos \in 0..hi /\ r.layout[f].mask = r.layout[f].pos..hi
    /\ \A f, g \in DOMAIN r.layout :
        f # g => r.layout[f].mask \cap r.layout[g].mask = {}
    /\ r.union = Masks(r.layout)

(* The register is well formed, and it and its fields hold at most 32 bits. *)
TypeOK ==
    /\ reg \in DOMAIN Registers
    /\ FieldsApart(Registers[reg])
    /\ word \subseteq Bits
    /\ intended \in [Fields -> SUBSET Bits]
    /\ writes \in 0..MaxWrites

(* Whatever fields the driver has set, in whatever order and with whichever macro,
   each of them reads back what was written to it last, by position, by mask and
   through the union: no field lies in another's bits, and the position and the
   mask of a field are about the same bits. *)
ReadsBack == \A f \in Fields :
    /\ FLD2VAL(Pos(f), Msk(f), word) = intended[f]
    /\ ShiftRight(READ_BIT(word, Msk(f)), POSITION_VAL(Msk(f))) = intended[f]
    /\ FLD2VAL(Pos(f), Member(f), word) = intended[f]

Reserved == Bits \ UNION {Msk(f) : f \in Fields}

(* Setting one field leaves every reserved bit as it was: reference manuals ask that
   reserved bits be kept at their reset value. *)
ReservedKept == [][ClearRegister \/ word' \cap Reserved = word \cap Reserved]_vars
========================================================================================
