------------------------------ MODULE InstructionHelp ------------------------------
(***************************************************************************)
(* What 'help <opcode>' of the inline shell tells of an instruction:       *)
(* src/instruction_details.c, but for its columns.  A row is for one form  *)
(* of operands, or for a branch that is taken; its example is any of those *)
(* the random numbers may make.                                            *)
(***************************************************************************)
EXTENDS Keywords

extract_nibble(ins, pos) == (ins \div 16 ^ pos) % 16

(***************************************************************************)
(* One number for each keyword, in their order: its nibbles are, from the  *)
(* highest on, the kinds of type, length, machine cycles and T-states.     *)
(***************************************************************************)
opcode_details ==
  <<\h234C, \h6117, \h6117, \h234C, \h6117, \h234C, \h1594, \h156E, \h156E,
    \h3005, \h3005, \h6117, \h156E, \h156E, \h156E, \h156E, \h234C, \h156E,
    \h156E, \h3005, \h7070, \h6136, \h700A, \h3049, \h2370, \h6136, \h700A,
    \h055D, \h055D, \h0570, \h055D, \h055D, \h055D, \h055D, \h055D, \h055D,
    \h1582, \h904C, \h1593, \h8570, \h5228, \h445D, \h3005, \h6117, \h234C,
    \h2370, \h300A, \h7070, \h7071, \h3005, \h3005, \h303B, \h3070, \h3005,
    \h303B, \h303B, \h303B, \h303B, \h303B, \h303B, \h3005, \h303B, \h6117,
    \h234C, \h1593, \h300A, \h0582, \h904C, \h3005, \h6117, \h234C, \h3005,
    \h6117, \h234C, \h3093>>

Type(op) == extract_nibble(op, 3)

type_isdual(type) == type \in {4, 5, 6}
type_isthrice(type) == type = 5

\* The operands a row is for: none for the second row of a branch.
type_strings ==
  <<"16-bit data", "16-bit address", "8-bit data", "None", "Register, 8-bit data",
    "Register, Register", "Register", "Register pair", "Register pair, 16-bit data",
    "Register pair (B/D)", "Memory, 8-bit data", "Register, Memory", "Memory",
    "Memory, Register">>

type_get_str(op, part) ==
  CASE part = 1 -> type_strings[Type(op) + 1]
    [] part = 2 /\ type_isdual(Type(op)) -> type_strings[Type(op) + 7]
    [] part = 3 /\ type_isthrice(Type(op)) -> type_strings[14]
    [] OTHER -> " "

\* Mutant of LengthTold: an operand next to a register is a word.
LengthToldShort(op) == <<1, 1, 1, 2, 3, 3>>[extract_nibble(op, 2) + 1]

LengthTold(op) == <<1, 1, 1, 2, 2, 3>>[extract_nibble(op, 2) + 1]

mc_istwice(mc) == mc \in {1, 2, 3, 5, 7}

mc_get(op, part) ==
  LET mct == extract_nibble(op, 1)
  IN CASE part = 1 -> <<1, 1, 1, 1, 2, 2, 2, 3, 4, 5>>[mct + 1]
       [] part = 2 /\ mct \in {3, 5} -> 3
       [] part = 2 /\ mct = 6 -> 5
       [] OTHER -> 2

tstate_istwice(ts) == ts \in {6, 7, 8, 11, 13, 14}

\* Mutant of tstate_get: the second row repeats the first.
tstate_getFirst(op, part) ==
  <<10, 12, 13, 16, 18, 4, 4, 4, 4, 5, 6, 6, 7, 7, 9>>[extract_nibble(op, 0) + 1]

tstate_get(op, part) ==
  LET ts == extract_nibble(op, 0)
  IN CASE part = 1 ->
            <<10, 12, 13, 16, 18, 4, 4, 4, 4, 5, 6, 6, 7, 7, 9>>[ts + 1]
       [] part = 2 /\ ts \in {6, 13} -> 10
       [] part = 2 /\ ts = 11 -> 12
       [] part = 2 /\ ts = 14 -> 18
       [] OTHER -> 7

\* How many rows instruction_print_details prints.
Rows(op) ==
  LET twice == \/ type_isdual(Type(op))
               \/ mc_istwice(extract_nibble(op, 1))
               \/ tstate_istwice(extract_nibble(op, 0))
  IN 1 + (IF twice THEN 1 ELSE 0) + (IF type_isthrice(Type(op)) THEN 1 ELSE 0)

Row(op, part) ==
  [operands |-> type_get_str(op, part),
   length |-> LengthTold(op),
   cycles |-> mc_get(op, part),
   tstates |-> tstate_get(op, part)]

instruction_print_details(num) ==
  LET op == opcode_details[num] IN [part \in 1 .. Rows(op) |-> Row(op, part)]

-----------------------------------------------------------------------------
(* Examples.                                                                *)

get_random_reg == {"a", "b", "c", "d", "e", "h", "l"}
get_random_pair == {"b", "d", "h", "sp", "psw"}

\* The operands of an example, with numbers of 8 and 16 bits to choose from,
\* as "%x" prints them.
ExampleOperands(op, part, data8, data16) ==
  LET type == Type(op)
  IN CASE part = 1 /\ type \in {0, 1} -> {n \o "h" : n \in data16}
       [] part = 1 /\ type = 2 -> {n \o "h" : n \in data8}
       [] part = 1 /\ type = 4 ->
            {r \o ", " \o n \o "h" : r \in get_random_reg, n \in data8}
       [] part = 1 /\ type = 5 ->
            {r \o ", " \o q : r, q \in get_random_reg}
       [] part = 1 /\ type = 6 -> get_random_reg
       [] part = 1 /\ type = 7 -> get_random_pair
       [] part = 1 /\ type = 8 ->
            {r \o ", " \o n \o "h" : r \in get_random_pair, n \in data16}
       [] part = 1 /\ type = 9 -> {"b", "d"}
       [] part = 2 /\ type = 4 -> {"m, " \o n \o "h" : n \in data8}
       [] part = 2 /\ type = 5 -> {r \o ", m" : r \in get_random_reg}
       [] part = 2 /\ type = 6 -> {"m"}
       [] part = 3 -> {"m, " \o r : r \in get_random_reg}
       [] OTHER -> {""}

\* The row of a taken branch has a blank for an example.
type_gen_example(num, part, data8, data16) ==
  LET op == opcode_details[num]
  IN IF part = 1 \/ type_get_str(op, part) # " "
       THEN {Mnemonics[num] \o " " \o operands :
               operands \in ExampleOperands(op, part, data8, data16)}
       ELSE {}
====================================================================================
