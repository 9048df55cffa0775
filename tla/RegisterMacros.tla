-------------------------------- MODULE RegisterMacros ---------------------------------
(* The register macros of stm32f4xx.h and the bit-field macros of core_cm4.h, on
   words that are the sets of their 1 bits: | is \cup, & is \cap, & ~ is \. *)
EXTENDS Integers, FiniteSetsExt

Bits == 0..31

SET_BIT(reg, bit) == reg \cup bit
CLEAR_BIT(reg, bit) == reg \ bit
READ_BIT(reg, bit) == reg \cap bit

(* Mutant: the new value is merged into the old one. *)
MODIFY_REG_Merges(reg, clearmask, setmask) == reg \cup setmask

MODIFY_REG(reg, clearmask, setmask) == (reg \ clearmask) \cup setmask

(* The instructions rbit and clz behind the two intrinsics. *)
RBIT(value) == {31 - b : b \in value}
CLZ(value) == IF value = {} THEN 32 ELSE 31 - Max(value)

(* Mutant: the position of the highest bit, counted from the top. *)
POSITION_VAL_Top(val) == CLZ(val)

POSITION_VAL(val) == CLZ(RBIT(val))

(* The shifts of C on a uint32_t. *)
ShiftLeft(value, n) == {b + n : b \in value} \cap Bits
ShiftRight(value, n) == {b - n : b \in value} \cap Bits

(* A field is known to these two by its _Pos and its _Msk. *)
VAL2FLD(pos, mask, value) == ShiftLeft(value, pos) \cap mask
FLD2VAL(pos, mask, value) == ShiftRight(value \cap mask, pos)

(* A number of 16 bits as a word; and the number that a word of 8 bits is. *)
Word(n) == {b \in 0..15 : (n \div 2^b) % 2 = 1}
Numbers == [value \in SUBSET (0..7) |-> CHOOSE n \in 0..255 : Word(n) = value]
Number(value) == Numbers[value]
========================================================================================
