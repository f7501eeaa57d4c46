--------------------------------- MODULE Memory ---------------------------------
(***************************************************************************)
(* The memory array of src/main.c, the one thing that the assembler, the   *)
(* disassembler, the machine and the commands share.                       *)
(***************************************************************************)
EXTENDS AddressSpace

VARIABLE memory

\* The n first bytes of a string, stored from an address on.
Stored(at, code, n) ==
  [c \in Cells |-> IF c \in at .. at + n - 1 THEN code[c - at + 1] ELSE memory[c]]
=================================================================================
