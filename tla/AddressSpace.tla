------------------------------ MODULE AddressSpace ------------------------------
(***************************************************************************)
(* The addresses of the machine, and the cells of its memory, which are    *)
(* one fewer (src/main.c: memory[0xffff]).  AddrMod scales the address     *)
(* space down for TLC; with AddrMod = 65536 an address is the 16-bit       *)
(* number the code computes.                                               *)
(***************************************************************************)
EXTENDS Words

CONSTANT AddrMod   (* number of values of a u16 address: 65536 *)

ASSUME AddrModAssumption == AddrMod \in Nat /\ 257 <= AddrMod /\ AddrMod <= 65536

Word == 0 .. AddrMod - 1
Wrap(w) == w % AddrMod

MemSize == AddrMod - 1
Cells == 0 .. MemSize - 1
===============================================================================
