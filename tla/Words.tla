---------------------------------- MODULE Words ----------------------------------
(***************************************************************************)
(* Bytes, and the words made of two of them (u8 and u16 of src/common.h).  *)
(***************************************************************************)
EXTENDS Integers

Byte == 0 .. 255

Low(w) == w % 256
High(w) == w \div 256
AsWord(high, low) == 256 * high + low
===============================================================================
