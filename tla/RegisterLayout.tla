-------------------------------- MODULE RegisterLayout ---------------------------------
(* How stm32f411xe.h and core_cm4.h define a field of a register: by the macro
   <register>_<field>_Pos, its position, and by <register>_<field>_Msk, its mask, here
   the set of bits that are 1. A register is a function from the names of its fields to
   these. *)
EXTENDS Integers

\* One bit, (1 << _Pos); and a number of ones, as (0x7 << _Pos).
Bit(pos) == [pos |-> pos, mask |-> {pos}]
Run(pos, width) == [pos |-> pos, mask |-> pos..pos + width - 1]

\* With the shift commented out: the mask is the lowest bits, whatever the position is.
Unshifted(pos, width) == [pos |-> pos, mask |-> 0..width - 1]
========================================================================================
