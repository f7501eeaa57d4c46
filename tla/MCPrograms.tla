------------------------------ MODULE MCPrograms ------------------------------
(***************************************************************************)
(* Every instruction of the machine inside the frame of a subroutine that  *)
(* saves all registers and restores them:                                  *)
(*      push psw   push b   push d   push h   <body>                       *)
(*      pop h   pop d   pop b   pop psw   hlt                              *)
(* with a breakpoint at the body or without, stepped or continued from it. *)
(* The code lies across address 256; at 8 * n, where RST n goes, there is  *)
(* the n-th conditional return followed by an unconditional one.           *)
(***************************************************************************)
EXTENDS Debugger

Base == 246
BodyAt == Base + 4
DataAt == 120

Prologue == << \hF5, \hC5, \hD5, \hE5 >>
Epilogue == << \hE1, \hD1, \hC1, \hF1, HLT >>

\* The opcodes that leave the stack pointer and the top of the stack alone,
\* or, as calls and restarts do here, come back to the next instruction.
SingleCodes ==
  Byte \ (PushCodes \cup PopCodes \cup ReturnCodes
            \cup {HLT, \h31, \h33, \h3B, \hC9, \hE3, \hE9, \hF9})

Operands(code) ==
  IF code \in JumpCodes \cup {\hC3} THEN << Low(BodyAt + 3), High(BodyAt + 3) >>
  ELSE IF code \in CallCodes THEN << code - \hC4, 0 >>
  ELSE IF code = \hCD THEN << 8, 0 >>
  ELSE IF Length(code) = 3 THEN << DataAt, 0 >>
  ELSE IF Length(code) = 2 THEN << \h55 >>
  ELSE << >>

PushAndPop == {<< c, d >> : c \in PushCodes, d \in PopCodes}

Bodies ==
  {<< c >> \o Operands(c) : c \in SingleCodes}
    \cup PushAndPop
    \cup {<< \hE3, \hE3 >>,                        \* xthl   xthl
          << \h33, \h3B >>, << \h3B, \h33 >>,      \* inx sp   dcx sp
          << \h21, 0, 0, \h39, \hF9 >>,            \* lxi h, 0   dad sp   sphl
          << \h3B, \h3B, \h31, 192, 0 >>,          \* ... lxi sp, the old one
          << \h21, Low(BodyAt + 4), High(BodyAt + 4), \hE9 >>}   \* pchl

Handler(c) == IF c % 8 = 0 THEN \hC0 + c ELSE \hC9

Program(body) == Prologue \o body \o Epilogue

Image(body) ==
  [c \in Cells |->
     IF c \in Base .. Base + Len(Program(body)) - 1
       THEN Program(body)[c - Base + 1]
     ELSE IF c < 64 /\ c % 8 \in {0, 1} THEN Handler(c)
     ELSE 0]

Loads(a, bc, de, hl) ==
  [r \in RegisterNames |->
     CASE r = "A" -> a
       [] r = "B" -> High(bc) [] r = "C" -> Low(bc)
       [] r = "D" -> High(de) [] r = "E" -> Low(de)
       [] r = "H" -> High(hl) [] r = "L" -> Low(hl)]

\* HL points at data, or at the address that has no cell; the stack is high, or
\* too low for the frame.
Starts ==
  {[registers |-> Loads(\h9C, 100, 290, 110), sp |-> 200],
   [registers |-> Loads(\hFF, 65535, 65500, AddrMod - 1), sp |-> 200],
   [registers |-> Loads(0, 100, 290, 110), sp |-> 5]}

VARIABLES body,    (* the body of the program that runs                     *)
          before   (* the registers, flags and stack pointer it started with *)

programVars == <<vars, body, before>>

ProgramInit ==
  /\ body \in Bodies
  /\ \E s \in Starts, f \in {\h00, \hFF, \h45, \h90} :
       registers = s.registers /\ sp = s.sp /\ flags = ToBits(f)
  /\ before = [registers |-> registers, flags |-> flags, sp |-> sp]
  /\ memory = Image(body)
  /\ breakpoints = [i \in Slots |-> IF i = 0 THEN BodyAt ELSE 0]
  /\ breakpoint_pointer \in {0, 1}
  /\ answer = "none"
  /\ pc = Base
  /\ isbroken = FALSE
  /\ step = FALSE
  /\ tstates = 0
  /\ control = "entry"

ProgramNext == (Turn \/ Continue \/ StepOnce) /\ UNCHANGED <<body, before>>

ProgramSpec == ProgramInit /\ [][ProgramNext]_programVars

(***************************************************************************)
(* Whatever the body does, and however the user stopped the program on its *)
(* way, it arrives at its last instruction with every register, every flag *)
(* and the stack pointer as they were: pushes and pops, calls and returns, *)
(* restarts and exchanges agree on the order of the bytes of a word and on *)
(* the way the stack grows.                                                *)
(***************************************************************************)
ContextRestored ==
  control = "repl" /\ ~isbroken =>
    /\ pc = Base + Len(Program(body))
    /\ registers = before.registers
    /\ flags = before.flags
    /\ sp = before.sp

-----------------------------------------------------------------------------

Help == INSTANCE InstructionHelp
Listed == INSTANCE Disassembler

\* Of the instructions of the machine, 'help' does not know DI, EI, RIM, SIM
\* and RST.
Mnemonic == Listed!Decoded[Code].mnemonic
Numbers == {num \in DOMAIN Help!Mnemonics : Help!Mnemonics[num] = Mnemonic}

Conditional == Code \in JumpCodes \cup CallCodes \cup ReturnCodes
FirstOfFamily == Code - 8 * ((Code \div 8) % 8)

\* The row for the operands of the instruction, or for its branch.
Part ==
  CASE Code \in \h70 .. \h77 -> 3
    [] UsesM(Code) -> 2
    [] Conditional /\ Taken(-1, FirstOfFamily) -> 2
    [] OTHER -> 1

(***************************************************************************)
(* 'help' tells of each instruction the length it has and the T-states the *)
(* machine waits after it, for each kind of operand and for branches taken *)
(* or not; except that RET is told to take 10 and takes 12, and that STC   *)
(* takes as long as the instruction before it.                             *)
(***************************************************************************)
HelpDescribes ==
  [][Running /\ control' # "undefined" /\ Code # HLT =>
       \A num \in Numbers :
         LET row == Help!instruction_print_details(num)[Part]
         IN /\ row.length = Length(Code)
            /\ CASE Mnemonic = "ret" -> tstates' = row.tstates + 2
                 [] Mnemonic = "stc" -> tstates' = tstates
                 [] OTHER -> tstates' = row.tstates]_programVars

(***************************************************************************)
(* Claimed by src/README.md:122: 'help' tells the T-states that an opcode  *)
(* takes.                                                                  *)
(***************************************************************************)
TakesAsTold ==
  [][Running /\ control' # "undefined" /\ Code # HLT =>
       \A num \in Numbers :
         tstates' = Help!instruction_print_details(num)[Part].tstates]_programVars
===============================================================================
