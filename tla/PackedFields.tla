---------------------------- MODULE PackedFields ----------------------------
(***************************************************************************)
(* Fields packed in the bytes of an instrument's registers: Field_Bitops   *)
(* of sources/utility/field_bitops.h.                                      *)
(*                                                                         *)
(* A layout says which byte holds a field, from which bit, how wide it is, *)
(* and whether it is counted down from the greatest value the bits hold,   *)
(* as the chips do with levels and rates.  Bytes is a function to 0..255.  *)
(***************************************************************************)
EXTENDS Integers

Plain(register, shift, width) ==
    [register |-> register, shift |-> shift, width |-> width, down |-> FALSE]
Down(register, shift, width) ==
    [register |-> register, shift |-> shift, width |-> width, down |-> TRUE]

GreatestOf(layout) == 2^layout.width - 1

BitsAt(bytes, layout) == (bytes[layout.register] \div 2^layout.shift) % 2^layout.width

\* What the bits are for a value, and the other way round.
Turned(layout, x) == (IF layout.down THEN GreatestOf(layout) - x ELSE x) % 2^layout.width

\* get and get_inverted
Unpacked(bytes, layout) == Turned(layout, BitsAt(bytes, layout))

\* set and set_inverted
Packed(bytes, layout, value) ==
    [bytes EXCEPT ![layout.register] =
        @ + (Turned(layout, value) - BitsAt(bytes, layout)) * 2^layout.shift]
=============================================================================
