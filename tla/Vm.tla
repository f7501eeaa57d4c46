----------------------------------- MODULE Vm -----------------------------------
(***************************************************************************)
(* The virtual machine: run() of src/neovm.c, one action per family of     *)
(* instructions, over the real opcodes.  An action is one turn of the      *)
(* while loop: fetch, execute and the call of machine_on_breakpoint that   *)
(* ends the turn.  An instruction that reads or writes beyond the cells of *)
(* the memory array is undefined behaviour: the model stops there.         *)
(***************************************************************************)
EXTENDS Alu, Breakpoints, Opcodes, Memory

CONSTANTS InputBytes   (* what the user may type at an 'in' instruction *)

ASSUME InputAssumption == InputBytes \subseteq Byte

VARIABLES
  registers,  (* the seven byte registers, by name                          *)
  flags,      (* the flag register, by bit                                  *)
  pc, sp,     (* program counter and stack pointer                          *)
  isbroken,   (* whether a paused program can be continued                  *)
  step,       (* the argument of run(): one instruction only                *)
  tstates,    (* the local of run() by which it waits after an instruction  *)
  control     (* where the processor is: in the REPL, about to execute the
                 first instruction of a run ("entry"), a later one ("loop"),
                 out of its REPL ("exited") or out of its memory ("undefined") *)

cpuVars == <<registers, flags, sp, memory>>
vmVars == <<cpuVars, pc, isbroken, step, tstates, control>>

RegisterNames == {"A", "B", "C", "D", "E", "H", "L"}

\* machine_init over the zeroed statics of src/main.c.
VmInit ==
  /\ registers = [r \in RegisterNames |-> 0]
  /\ flags = [k \in 0 .. 7 |-> 0]
  /\ pc = 0
  /\ sp = AddrMod - 1
  /\ memory = [a \in Cells |-> 0]
  /\ isbroken = FALSE
  /\ step = FALSE
  /\ tstates = 0
  /\ control = "repl"

-----------------------------------------------------------------------------
(* Pairs and the operand fields of an opcode.                               *)

HL == AsWord(registers["H"], registers["L"])

\* The register field of an opcode: M is the memory cell HL points to.
Operand(n) == <<"B", "C", "D", "E", "H", "L", "M", "A">>[n + 1]

Value(o) == IF o = "M" THEN memory[Wrap(HL)] ELSE registers[o]

\* The pair field of an opcode.  Pair 3 is the stack pointer.
PairHigh(p) == <<"B", "D", "H">>[p + 1]
PairLow(p) == <<"C", "E", "L">>[p + 1]
PairValue(p) ==
  IF p = 3 THEN sp
           ELSE AsWord(registers[PairHigh(p)], registers[PairLow(p)])
WithPair(p, w) ==
  [registers EXCEPT ![PairHigh(p)] = High(w), ![PairLow(p)] = Low(w)]

\* FLG_Z, FLG_C, FLG_P and FLG_S clear and set, in the order of the opcodes.
Holds(c) == flags[<<FLG_Z, FLG_C, FLG_P, FLG_S>>[(c \div 2) + 1]] = c % 2

-----------------------------------------------------------------------------
(* The instruction at the program counter.                                  *)

Code == memory[pc]
ByteOperand == memory[pc + 1]
WordOperand == AsWord(memory[pc + 2], memory[pc + 1])

\* The field of the opcode at pc, counted from the first code of its family.
Field(first, width) == (Code - first) \div width

\* A conditional jump, call or return is taken; the unconditional one always.
Taken(always, first) == Code = always \/ Holds(Field(first, 8))

-----------------------------------------------------------------------------
(* The memory an instruction reaches, as the int index the code computes.   *)

UsesM(code) ==
  \/ code \in \h40 .. \hBF /\ code % 8 = 6
  \/ code \in \h70 .. \h77
  \/ code \in \h34 .. \h36

Pushes ==
  \/ Code \in PushCodes \cup RestartCodes
  \/ Code \in CallCodes \cup {\hCD} /\ Taken(\hCD, \hC4)

Pops ==
  \/ Code \in PopCodes \cup {\hE3}
  \/ Code \in ReturnCodes \cup {\hC9} /\ Taken(\hC9, \hC0)

Reached ==
  CASE Code # HLT /\ UsesM(Code) -> {Wrap(HL)}
    [] Code \in {\h02, \h12, \h0A, \h1A} -> {Wrap(PairValue(Code \div 16))}
    [] Code \in {\h32, \h3A} -> {Wrap(WordOperand)}
    [] Code \in {\h22, \h2A} -> {Wrap(WordOperand), Wrap(WordOperand) + 1}
    [] Pushes -> {sp - 1, sp - 2}
    [] Pops -> {sp, sp + 1}
    [] OTHER -> {}

InBounds ==
  /\ pc \in Cells
  /\ pc + Length(Code) <= MemSize
  /\ Reached \subseteq Cells

Running == control \in {"entry", "loop"}

\* The next turn of the loop finds one of these opcodes at pc.
Fetch(codes) == Running /\ pc \in Cells /\ Code \in codes /\ InBounds

(***************************************************************************)
(* The T-states of the instruction, with the number left by the one before *)
(* for those that assign none.  'out' takes 10, for it is not silent.      *)
(***************************************************************************)
Spent ==
  CASE Code \in CallCodes \cup {\hCD} -> IF Taken(\hCD, \hC4) THEN 18 ELSE 9
    [] Code \in ReturnCodes \cup {\hC9} -> IF Taken(\hC9, \hC0) THEN 12 ELSE 6
    [] Code \in JumpCodes \cup {\hC3} -> IF Taken(\hC3, \hC2) THEN 10 ELSE 7
    [] Code \in PushCodes \cup RestartCodes -> 12
    [] Code \in {\h22, \h2A, \hE3} -> 16
    [] Code \in {\h32, \h3A} -> 13
    [] Code \in PopCodes \cup LoadPairCodes \cup AddPairCodes -> 10
    [] Code \in {\hDB, \hD3, \h34, \h35, \h36} -> 10
    [] Code \in IncrementPairCodes \cup DecrementPairCodes \cup {\hE9, \hF9} -> 6
    [] Code \in MoveImmediateCodes \ {\h36} -> 7
    [] Code \in ImmediateCodes \cup {\h02, \h12, \h0A, \h1A} -> 7
    [] Code \in \h40 .. \hBF \ {HLT} /\ UsesM(Code) -> 7
    [] Code \in (NoEffectCodes \ {\h00}) \cup {\h37} -> tstates
    [] OTHER -> 4

\* Mutant of EndTurn: the instruction just executed is looked up instead.
EndTurnLate(next) ==
  /\ pc' = next
  /\ tstates' = Spent
  /\ IF step \/ pc \in Attached
       THEN isbroken' = TRUE /\ control' = "repl"
       ELSE control' = "loop" /\ UNCHANGED isbroken
  /\ UNCHANGED <<step, tableVars>>

(***************************************************************************)
(* The end of a turn: machine_on_breakpoint pauses the machine when it was *)
(* asked to step, or when the next instruction is at a breakpoint.         *)
(***************************************************************************)
EndTurn(next) ==
  /\ pc' = next
  /\ tstates' = Spent
  /\ IF step \/ next \in Attached
       THEN isbroken' = TRUE /\ control' = "repl"
       ELSE control' = "loop" /\ UNCHANGED isbroken
  /\ UNCHANGED <<step, tableVars>>

EndInstruction == EndTurn(pc + Length(Code))

-----------------------------------------------------------------------------
(* Data transfer.                                                           *)

PutOperand(o, v) ==
  IF o = "M"
    THEN memory' = [memory EXCEPT ![Wrap(HL)] = v] /\ UNCHANGED registers
    ELSE registers' = [registers EXCEPT ![o] = v] /\ UNCHANGED memory

PutAccumulator(v) ==
  /\ registers' = [registers EXCEPT !["A"] = v]
  /\ UNCHANGED <<flags, sp, memory>>

PutMemory(changed) == memory' = changed /\ UNCHANGED <<registers, flags, sp>>

Move ==
  /\ Fetch(MoveCodes)
  /\ PutOperand(Operand(Field(\h40, 8)), Value(Operand(Code % 8)))
  /\ UNCHANGED <<flags, sp>>
  /\ EndInstruction

MoveImmediate ==
  /\ Fetch(MoveImmediateCodes)
  /\ PutOperand(Operand(Field(\h06, 8)), ByteOperand)
  /\ UNCHANGED <<flags, sp>>
  /\ EndInstruction

LoadPairImmediate ==
  /\ Fetch(LoadPairCodes)
  /\ IF Code = \h31
       THEN sp' = Wrap(WordOperand) /\ UNCHANGED registers
       ELSE registers' = WithPair(Field(\h01, 16), WordOperand) /\ UNCHANGED sp
  /\ UNCHANGED <<flags, memory>>
  /\ EndInstruction

LoadAccumulator ==
  /\ Fetch({\h3A})
  /\ PutAccumulator(memory[Wrap(WordOperand)])
  /\ EndInstruction

LoadAccumulatorIndirect ==
  /\ Fetch({\h0A, \h1A})
  /\ PutAccumulator(memory[Wrap(PairValue(Field(\h0A, 16)))])
  /\ EndInstruction

StoreAccumulator ==
  /\ Fetch({\h32})
  /\ PutMemory([memory EXCEPT ![Wrap(WordOperand)] = registers["A"]])
  /\ EndInstruction

StoreAccumulatorIndirect ==
  /\ Fetch({\h02, \h12})
  /\ PutMemory([memory EXCEPT ![Wrap(PairValue(Field(\h02, 16)))] =
                  registers["A"]])
  /\ EndInstruction

LoadHL ==
  /\ Fetch({\h2A})
  /\ registers' = [registers EXCEPT !["L"] = memory[Wrap(WordOperand)],
                                    !["H"] = memory[Wrap(WordOperand) + 1]]
  /\ UNCHANGED <<flags, sp, memory>>
  /\ EndInstruction

StoreHL ==
  /\ Fetch({\h22})
  /\ PutMemory([memory EXCEPT ![Wrap(WordOperand)] = registers["L"],
                              ![Wrap(WordOperand) + 1] = registers["H"]])
  /\ EndInstruction

ExchangePairs ==
  /\ Fetch({\hEB})
  /\ registers' = [registers EXCEPT !["D"] = registers["H"],
                                    !["E"] = registers["L"],
                                    !["H"] = registers["D"],
                                    !["L"] = registers["E"]]
  /\ UNCHANGED <<flags, sp, memory>>
  /\ EndInstruction

\* The user types a number, or something scanf cannot read.
Input ==
  /\ Fetch({\hDB})
  /\ \E typed \in InputBytes : PutAccumulator(typed)
  /\ EndInstruction

NoEffect ==
  /\ Fetch(NoEffectCodes)
  /\ UNCHANGED cpuVars
  /\ EndInstruction

\* The port is a line on the terminal.
Output ==
  /\ Fetch({\hD3})
  /\ UNCHANGED cpuVars
  /\ EndInstruction

-----------------------------------------------------------------------------
(* Arithmetic and logic.                                                    *)

PutResult(result) ==
  /\ registers' = [registers EXCEPT !["A"] = result.acc]
  /\ flags' = result.flags
  /\ UNCHANGED <<sp, memory>>

OperateRegister ==
  /\ Fetch(OperateCodes)
  /\ PutResult(Operate(Field(\h80, 8), registers["A"],
                       Value(Operand(Code % 8)), flags))
  /\ EndInstruction

OperateImmediate ==
  /\ Fetch(ImmediateCodes)
  /\ PutResult(Operate(Field(\hC6, 8), registers["A"], ByteOperand, flags))
  /\ EndInstruction

CompareWithMemory ==
  /\ Fetch({CMP_M})
  /\ PutResult(CompareMemory(registers["A"], Value("M"), flags))
  /\ EndInstruction

\* INR and DCR.
Count(result) ==
  /\ PutOperand(Operand(Code \div 8), result.acc)
  /\ flags' = result.flags
  /\ UNCHANGED sp
  /\ EndInstruction

IncrementOperand ==
  /\ Fetch(IncrementCodes)
  /\ Count(Increment(Value(Operand(Code \div 8)), flags))

DecrementOperand ==
  /\ Fetch(DecrementCodes)
  /\ Count(Decrement(Value(Operand(Code \div 8)), flags))

\* INX and DCX: no flag changes, and the pair wraps round.
CountPair(by) ==
  /\ IF Code \div 16 = 3
       THEN sp' = (sp + AddrMod + by) % AddrMod /\ UNCHANGED registers
       ELSE /\ registers' =
                 WithPair(Code \div 16,
                          (PairValue(Code \div 16) + 65536 + by) % 65536)
            /\ UNCHANGED sp
  /\ UNCHANGED <<flags, memory>>
  /\ EndInstruction

IncrementPair == Fetch(IncrementPairCodes) /\ CountPair(1)
DecrementPair == Fetch(DecrementPairCodes) /\ CountPair(-1)

AddPair ==
  /\ Fetch(AddPairCodes)
  /\ LET result == AddPairs(HL, PairValue(Code \div 16), flags)
     IN registers' = WithPair(2, result.sum) /\ flags' = result.flags
  /\ UNCHANGED <<sp, memory>>
  /\ EndInstruction

RotateAccumulator ==
  /\ Fetch({\h07, \h0F, \h17, \h1F})
  /\ PutResult(Rotate(Code \div 8, registers["A"], flags))
  /\ EndInstruction

AdjustAccumulator ==
  /\ Fetch({\h27})
  /\ PutResult(DecimalAdjust(registers["A"], flags))
  /\ EndInstruction

ComplementAccumulator ==
  /\ Fetch({\h2F})
  /\ PutAccumulator(255 - registers["A"])
  /\ EndInstruction

\* STC sets the carry, CMC complements it.
ChangeCarry ==
  /\ Fetch({\h37, \h3F})
  /\ flags' = SetCarry(flags, IF Code = \h37 THEN 1 ELSE 1 - flags[FLG_C])
  /\ UNCHANGED <<registers, sp, memory>>
  /\ EndInstruction

-----------------------------------------------------------------------------
(* Branches and the stack, which grows down: a word is stored with its high *)
(* byte at the higher address.                                              *)

WordAt(a) == AsWord(memory[a + 1], memory[a])

\* Mutants of PushWord: the bytes the other way round, and a stack pointer that
\* points to the next free cell.
PushWordSwapped(high, low) ==
  /\ memory' = [memory EXCEPT ![sp - 1] = low, ![sp - 2] = high]
  /\ sp' = sp - 2
PushWordHigher(high, low) ==
  /\ memory' = [memory EXCEPT ![sp] = high, ![sp - 1] = low]
  /\ sp' = sp - 2

PushWord(high, low) ==
  /\ memory' = [memory EXCEPT ![sp - 1] = high, ![sp - 2] = low]
  /\ sp' = sp - 2

\* Where the program goes on, whether or not the branch is taken.
Jump ==
  /\ Fetch(JumpCodes \cup {\hC3})
  /\ UNCHANGED cpuVars
  /\ EndTurn(IF Taken(\hC3, \hC2) THEN Wrap(WordOperand) ELSE pc + 3)

JumpToHL ==
  /\ Fetch({\hE9})
  /\ UNCHANGED cpuVars
  /\ EndTurn(Wrap(HL))

CallTaken ==
  /\ Fetch(CallCodes \cup {\hCD})
  /\ Taken(\hCD, \hC4)
  /\ PushWord(High(pc + 3), Low(pc + 3))
  /\ UNCHANGED <<registers, flags>>
  /\ EndTurn(Wrap(WordOperand))

CallNotTaken ==
  /\ Fetch(CallCodes)
  /\ ~Taken(\hCD, \hC4)
  /\ UNCHANGED cpuVars
  /\ EndInstruction

ReturnTaken ==
  /\ Fetch(ReturnCodes \cup {\hC9})
  /\ Taken(\hC9, \hC0)
  /\ sp' = Wrap(sp + 2)
  /\ UNCHANGED <<registers, flags, memory>>
  /\ EndTurn(Wrap(WordAt(sp)))

ReturnNotTaken ==
  /\ Fetch(ReturnCodes)
  /\ ~Taken(\hC9, \hC0)
  /\ UNCHANGED cpuVars
  /\ EndInstruction

Restart ==
  /\ Fetch(RestartCodes)
  /\ PushWord(High(pc + 1), Low(pc + 1))
  /\ UNCHANGED <<registers, flags>>
  /\ EndTurn(Code - \hC7)

\* PUSH and POP: pair 3 is the accumulator above the flags.
Push ==
  /\ Fetch(PushCodes)
  /\ LET p == Field(\hC5, 16)
     IN IF p = 3 THEN PushWord(registers["A"], FromBits(flags))
                 ELSE PushWord(registers[PairHigh(p)], registers[PairLow(p)])
  /\ UNCHANGED <<registers, flags>>
  /\ EndInstruction

\* Mutant of Pop: the accumulator is taken from below the flags.
PopSwapped ==
  /\ Fetch(PopCodes)
  /\ IF Code = \hF1
       THEN /\ registers' = [registers EXCEPT !["A"] = memory[sp]]
            /\ flags' = ToBits(memory[sp + 1])
       ELSE /\ registers' = WithPair(Field(\hC1, 16), WordAt(sp))
            /\ UNCHANGED flags
  /\ sp' = Wrap(sp + 2)
  /\ UNCHANGED memory
  /\ EndInstruction

Pop ==
  /\ Fetch(PopCodes)
  /\ IF Code = \hF1
       THEN /\ registers' = [registers EXCEPT !["A"] = memory[sp + 1]]
            /\ flags' = ToBits(memory[sp])
       ELSE /\ registers' = WithPair(Field(\hC1, 16), WordAt(sp))
            /\ UNCHANGED flags
  /\ sp' = Wrap(sp + 2)
  /\ UNCHANGED memory
  /\ EndInstruction

ExchangeTop ==
  /\ Fetch({\hE3})
  /\ registers' = WithPair(2, WordAt(sp))
  /\ memory' = [memory EXCEPT ![sp + 1] = registers["H"], ![sp] = registers["L"]]
  /\ UNCHANGED <<flags, sp>>
  /\ EndInstruction

StackPointerFromHL ==
  /\ Fetch({\hF9})
  /\ sp' = Wrap(HL)
  /\ UNCHANGED <<registers, flags, memory>>
  /\ EndInstruction

-----------------------------------------------------------------------------

\* Mutant of Halt: the processor stays there, as the chip does.
HaltSpins ==
  /\ Fetch({HLT})
  /\ control' = "loop"
  /\ UNCHANGED <<cpuVars, pc, isbroken, step, tstates, tableVars>>

\* run() returns at HLT, which has been fetched: the program counter is past it.
Halt ==
  /\ Fetch({HLT})
  /\ pc' = pc + 1
  /\ isbroken' = FALSE
  /\ control' = "repl"
  /\ UNCHANGED <<cpuVars, step, tstates, tableVars>>

\* The next instruction reaches out of the array: from here on, anything.
LeaveMemory ==
  /\ Running
  /\ ~InBounds
  /\ control' = "undefined"
  /\ UNCHANGED <<cpuVars, pc, isbroken, step, tstates, tableVars>>

Transfer ==
  \/ Move \/ MoveImmediate \/ LoadPairImmediate
  \/ LoadAccumulator \/ LoadAccumulatorIndirect
  \/ StoreAccumulator \/ StoreAccumulatorIndirect
  \/ LoadHL \/ StoreHL \/ ExchangePairs \/ Input \/ Output \/ NoEffect

Compute ==
  \/ OperateRegister \/ OperateImmediate \/ CompareWithMemory
  \/ IncrementOperand \/ DecrementOperand \/ IncrementPair \/ DecrementPair
  \/ AddPair \/ RotateAccumulator \/ AdjustAccumulator
  \/ ComplementAccumulator \/ ChangeCarry

Branch ==
  \/ Jump \/ JumpToHL \/ CallTaken \/ CallNotTaken
  \/ ReturnTaken \/ ReturnNotTaken \/ Restart
  \/ Push \/ Pop \/ ExchangeTop \/ StackPointerFromHL

Turn == Transfer \/ Compute \/ Branch \/ Halt \/ LeaveMemory

VmTypeOK ==
  /\ TableTypeOK
  /\ registers \in [RegisterNames -> Byte]
  /\ flags \in Flags
  /\ pc \in Word
  /\ sp \in Word
  /\ memory \in [Cells -> Byte]
  /\ isbroken \in BOOLEAN
  /\ step \in BOOLEAN
  /\ tstates \in 0 .. 18
  /\ control \in {"repl", "entry", "loop", "undefined", "exited"}

(***************************************************************************)
(* A word that an instruction puts on the stack is the word that the next  *)
(* RET, POP or XTHL takes from it: behind a call or a restart the address  *)
(* of the instruction after it, behind a push the pair, or the accumulator *)
(* and all eight bits of the flags.                                        *)
(***************************************************************************)
StackKeepsWords ==
  [][/\ CallTaken \/ Restart => WordAt(sp)' = pc + Length(Code)
     /\ Push /\ Code # \hF5 => WordAt(sp)' = PairValue(Field(\hC5, 16))
     /\ Push /\ Code = \hF5 => /\ memory'[sp' + 1] = registers["A"]
                               /\ ToBits(memory'[sp']) = flags
     /\ ExchangeTop => WordAt(sp)' = HL]_vmVars

(***************************************************************************)
(* A turn changes no cell but those that Reached names, by which the       *)
(* machine is known to stay within the array.                              *)
(***************************************************************************)
KeepsOtherCells ==
  [][Turn => \A a \in Cells \ Reached : memory'[a] = memory[a]]_vmVars
================================================================================
