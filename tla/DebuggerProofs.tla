----------------------------- MODULE DebuggerProofs -----------------------------
(***************************************************************************)
(* What the debugger keeps to whatever the program computes.  The first    *)
(* part shows that one turn of run() keeps every register a byte and every *)
(* address an address, for every memory, every program and every address   *)
(* space; the second starts from the end of a turn, which every            *)
(* instruction but HLT comes to.                                           *)
(***************************************************************************)
EXTENDS Debugger, AluProofs, BreakpointsProofs

-----------------------------------------------------------------------------
(* Words.                                                                   *)

\* What two bytes can hold, an address or not.
Wide(w) == w \in Nat /\ w < 65536

LEMMA WordFacts ==
  /\ \A w \in Int : Wrap(w) \in Word
  /\ \A w \in Word : w \in Int /\ Wide(w)
  /\ \A a \in Cells : a \in Word /\ a + 1 \in Word
<1>1. \A w \in Int : Wrap(w) \in Word
  BY AddrModAssumption DEF Wrap, Word
<1>2. \A w \in Word : w \in Int /\ Wide(w)
  BY AddrModAssumption DEF Word, Wide
<1>3. \A a \in Cells : a \in Word /\ a + 1 \in Word
  BY AddrModAssumption DEF Word, Cells, MemSize
<1> QED BY <1>1, <1>2, <1>3

LEMMA SmallIsWord == ASSUME NEW n \in 0 .. 256 PROVE n \in Word
BY AddrModAssumption DEF Word

LEMMA WideOfBytes ==
  ASSUME NEW high \in Byte, NEW low \in Byte PROVE Wide(AsWord(high, low))
BY DEF Byte, AsWord, Wide

LEMMA BytesOfWide ==
  ASSUME NEW w, Wide(w)
  PROVE  w \in Int /\ High(w) \in Byte /\ Low(w) \in Byte
BY DEF Byte, High, Low, Wide

-----------------------------------------------------------------------------
(* The processor and its loop.                                              *)

CpuTypeOK ==
  /\ registers \in [RegisterNames -> Byte]
  /\ flags \in Flags
  /\ sp \in Word
  /\ memory \in [Cells -> Byte]

LoopTypeOK ==
  /\ pc \in Word
  /\ isbroken \in BOOLEAN
  /\ step \in BOOLEAN
  /\ tstates \in 0 .. 18
  /\ control \in {"repl", "entry", "loop", "undefined", "exited"}

LEMMA VmTypeParts == VmTypeOK <=> TableTypeOK /\ CpuTypeOK /\ LoopTypeOK
BY DEF VmTypeOK, CpuTypeOK, LoopTypeOK

LEMMA NextVmTypeParts == (TableTypeOK /\ CpuTypeOK /\ LoopTypeOK)' => VmTypeOK'
BY DEF VmTypeOK, CpuTypeOK, LoopTypeOK

LEMMA SpentTyped == ASSUME LoopTypeOK PROVE Spent \in 0 .. 18
<1>1. tstates \in 0 .. 18
  BY DEF LoopTypeOK
<1> QED BY <1>1 DEF Spent

LEMMA EndTurnTyped ==
  ASSUME TableTypeOK, LoopTypeOK, NEW next \in Word, EndTurn(next)
  PROVE  TableTypeOK' /\ LoopTypeOK'
<1>1. TableTypeOK'
  BY DEF EndTurn, tableVars, TableTypeOK
<1>2. Spent \in 0 .. 18
  BY SpentTyped
<1>3. LoopTypeOK'
  BY <1>2 DEF EndTurn, LoopTypeOK
<1> QED BY <1>1, <1>3

-----------------------------------------------------------------------------
(* What an instruction finds at the program counter.                        *)

LEMMA LengthFacts ==
  ASSUME NEW code
  PROVE  /\ Length(code) \in 1 .. 3
         /\ code \in TwoByteCodes => Length(code) >= 2
         /\ code \in ThreeByteCodes => Length(code) = 3
BY DEF Length

LEMMA FetchFacts ==
  ASSUME CpuTypeOK, NEW codes, Fetch(codes)
  PROVE  /\ InBounds /\ pc \in Cells
         /\ Code \in codes /\ Code \in Byte
         /\ pc + Length(Code) \in Word
         /\ Code \in TwoByteCodes => ByteOperand \in Byte
         /\ Code \in ThreeByteCodes => Wide(WordOperand)
<1>1. InBounds /\ pc \in Cells /\ Code \in codes
  BY DEF Fetch
<1>2. Code \in Byte
  BY <1>1 DEF Code, CpuTypeOK
<1>3. pc + Length(Code) <= MemSize /\ pc \in Int /\ pc >= 0
  BY <1>1 DEF InBounds, Cells
<1>4. pc + Length(Code) \in Word
  BY <1>3, LengthFacts, AddrModAssumption DEF Word, MemSize
<1>5. ASSUME Length(Code) >= 2 PROVE ByteOperand \in Byte
  <2>1. pc + 1 \in Cells
    BY <1>3, <1>5, LengthFacts, AddrModAssumption DEF Cells, MemSize
  <2> QED BY <2>1 DEF ByteOperand, CpuTypeOK
<1>6. ASSUME Length(Code) = 3 PROVE Wide(WordOperand)
  <2>1. pc + 1 \in Cells /\ pc + 2 \in Cells
    BY <1>3, <1>6, LengthFacts, AddrModAssumption DEF Cells, MemSize
  <2> QED BY <2>1, WideOfBytes DEF WordOperand, CpuTypeOK
<1> QED BY <1>1, <1>2, <1>4, <1>5, <1>6, LengthFacts

\* An instruction that neither branches nor halts ends one turn in its place.
LEMMA EndInstructionTyped ==
  ASSUME VmTypeOK, NEW codes, Fetch(codes), EndInstruction, CpuTypeOK'
  PROVE  VmTypeOK'
<1>1. TableTypeOK /\ CpuTypeOK /\ LoopTypeOK
  BY VmTypeParts
<1>2. pc + Length(Code) \in Word
  BY <1>1, FetchFacts
<1>3. TableTypeOK' /\ LoopTypeOK'
  BY <1>1, <1>2, EndTurnTyped DEF EndInstruction
<1> QED BY <1>3, NextVmTypeParts

-----------------------------------------------------------------------------
(* Registers, pairs and memory operands.                                    *)

LEMMA RegistersTyped ==
  ASSUME CpuTypeOK
  PROVE  /\ \A r \in RegisterNames : registers[r] \in Byte
         /\ registers["A"] \in Byte /\ registers["H"] \in Byte
         /\ registers["L"] \in Byte
         /\ Wide(HL)
<1>1. \A r \in RegisterNames : registers[r] \in Byte
  BY DEF CpuTypeOK
<1>2. "A" \in RegisterNames /\ "H" \in RegisterNames /\ "L" \in RegisterNames
  BY DEF RegisterNames
<1> QED BY <1>1, <1>2, WideOfBytes DEF HL

LEMMA PairFacts ==
  ASSUME CpuTypeOK, NEW p \in 0 .. 3
  PROVE  /\ Wide(PairValue(p))
         /\ p # 3 => /\ PairHigh(p) \in RegisterNames
                     /\ PairLow(p) \in RegisterNames
                     /\ \A w : Wide(w) => WithPair(p, w) \in [RegisterNames -> Byte]
<1>1. CASE p = 3
  BY <1>1, WordFacts DEF PairValue, CpuTypeOK
<1>2. CASE p # 3
  <2>1. PairHigh(p) \in RegisterNames /\ PairLow(p) \in RegisterNames
    BY <1>2 DEF PairHigh, PairLow, RegisterNames
  <2>2. Wide(PairValue(p))
    BY <1>2, <2>1, RegistersTyped, WideOfBytes DEF PairValue
  <2>3. ASSUME NEW w, Wide(w) PROVE WithPair(p, w) \in [RegisterNames -> Byte]
    BY <2>1, <2>3, BytesOfWide DEF WithPair, CpuTypeOK
  <2> QED BY <2>1, <2>2, <2>3
<1> QED BY <1>1, <1>2

\* M, or the name of a register.
LEMMA OperandNames ==
  ASSUME NEW n \in 0 .. 7
  PROVE  IF n = 6 THEN Operand(n) = "M" ELSE Operand(n) \in RegisterNames \ {"M"}
BY DEF Operand, RegisterNames

LEMMA ValueTyped ==
  ASSUME CpuTypeOK, NEW o,
         IF o = "M" THEN Wrap(HL) \in Cells ELSE o \in RegisterNames
  PROVE  Value(o) \in Byte
BY DEF Value, CpuTypeOK

LEMMA PutOperandTyped ==
  ASSUME CpuTypeOK, NEW v \in Byte, NEW o, PutOperand(o, v)
  PROVE  registers' \in [RegisterNames -> Byte] /\ memory' \in [Cells -> Byte]
BY DEF PutOperand, CpuTypeOK

LEMMA PutAccumulatorTyped ==
  ASSUME CpuTypeOK, NEW v \in Byte, PutAccumulator(v) PROVE CpuTypeOK'
BY DEF PutAccumulator, CpuTypeOK

LEMMA PutResultTyped ==
  ASSUME CpuTypeOK, NEW result, result.acc \in Byte, result.flags \in Flags,
         PutResult(result)
  PROVE  CpuTypeOK'
BY DEF PutResult, CpuTypeOK

LEMMA CpuUnchanged == ASSUME CpuTypeOK, UNCHANGED cpuVars PROVE CpuTypeOK'
BY DEF CpuTypeOK, cpuVars

-----------------------------------------------------------------------------
(* The memory an instruction reaches is within the array.                   *)

\* The opcodes that push and those that pop are at the end of the table.
LEMMA StackCodes ==
  /\ \A c \in PushCodes \cup RestartCodes \cup CallCodes \cup {\hCD} : c >= 192
  /\ \A c \in PopCodes \cup ReturnCodes \cup {\hE3, \hC9} :
       c >= 192 /\ c \notin PushCodes \cup RestartCodes \cup CallCodes \cup {\hCD}
<1> USE DEF EveryEighth, EverySixteenth
<1>1. \A c \in PushCodes \cup RestartCodes \cup CallCodes \cup {\hCD} : c >= 192
  BY DEF PushCodes, RestartCodes, CallCodes
<1>2. \A c \in PopCodes : c >= 192 /\ c \notin PushCodes \cup {\hCD}
  BY DEF PopCodes, PushCodes
<1>3. \A c \in PopCodes : c \notin RestartCodes \cup CallCodes
  BY DEF PopCodes, RestartCodes, CallCodes
<1>4. \A c \in ReturnCodes : c >= 192 /\ c \notin PushCodes \cup {\hCD}
  BY DEF ReturnCodes, PushCodes
<1>5. \A c \in ReturnCodes : c \notin RestartCodes \cup CallCodes
  BY DEF ReturnCodes, RestartCodes, CallCodes
<1>6. \A c \in {\hE3, \hC9} :
        c >= 192 /\ c \notin PushCodes \cup RestartCodes \cup CallCodes \cup {\hCD}
  BY DEF PushCodes, RestartCodes, CallCodes
<1> QED BY <1>1, <1>2, <1>3, <1>4, <1>5, <1>6

\* An opcode reaches memory in one way only.
LEMMA ReachedWays ==
  ASSUME Code \in Byte
  PROVE  /\ Code # HLT /\ UsesM(Code) => Reached = {Wrap(HL)}
         /\ Code \in {\h02, \h12, \h0A, \h1A} =>
              Reached = {Wrap(PairValue(Code \div 16))}
         /\ Code \in {\h32, \h3A} => Reached = {Wrap(WordOperand)}
         /\ Code \in {\h22, \h2A} =>
              Reached = {Wrap(WordOperand), Wrap(WordOperand) + 1}
         /\ Pushes => Reached = {sp - 1, sp - 2}
         /\ Pops => Reached = {sp, sp + 1}
<1> DEFINE byM == Code # HLT /\ UsesM(Code)
           byPair == Code \in {\h02, \h12, \h0A, \h1A}
           byWord == Code \in {\h32, \h3A}
           byWords == Code \in {\h22, \h2A}
<1>1. Pushes => Code >= 192 /\ ~Pops
  BY StackCodes DEF Pushes, Pops
<1>2. Pops => Code >= 192
  BY StackCodes DEF Pops
<1>3. Code >= 192 => ~byM /\ ~byPair /\ ~byWord /\ ~byWords
  BY DEF UsesM, Byte
<1>4. /\ byPair => ~byM /\ ~byWord /\ ~byWords /\ ~(Code >= 192)
      /\ byWord => ~byM /\ ~byWords /\ ~(Code >= 192)
      /\ byWords => ~byM /\ ~(Code >= 192)
  BY DEF UsesM
<1>5. Reached = CASE byM -> {Wrap(HL)}
                  [] byPair -> {Wrap(PairValue(Code \div 16))}
                  [] byWord -> {Wrap(WordOperand)}
                  [] byWords -> {Wrap(WordOperand), Wrap(WordOperand) + 1}
                  [] Pushes -> {sp - 1, sp - 2}
                  [] Pops -> {sp, sp + 1}
                  [] OTHER -> {}
  BY DEF Reached
<1> HIDE DEF byM, byPair, byWord, byWords
<1>6. byM => Reached = {Wrap(HL)}
  BY <1>1, <1>2, <1>3, <1>4, <1>5
<1>7. byPair => Reached = {Wrap(PairValue(Code \div 16))}
  BY <1>1, <1>2, <1>3, <1>4, <1>5
<1>8. byWord => Reached = {Wrap(WordOperand)}
  BY <1>1, <1>2, <1>3, <1>4, <1>5
<1>9. byWords => Reached = {Wrap(WordOperand), Wrap(WordOperand) + 1}
  BY <1>1, <1>2, <1>3, <1>4, <1>5
<1>10. Pushes => Reached = {sp - 1, sp - 2}
  BY <1>1, <1>2, <1>3, <1>4, <1>5
<1>11. Pops => Reached = {sp, sp + 1}
  BY <1>1, <1>2, <1>3, <1>4, <1>5
<1> QED BY <1>6, <1>7, <1>8, <1>9, <1>10, <1>11
        DEF byM, byPair, byWord, byWords

LEMMA ReachesM ==
  ASSUME InBounds, Code \in Byte, Code # HLT, UsesM(Code)
  PROVE  Wrap(HL) \in Cells
BY ReachedWays DEF InBounds

LEMMA ReachesByPair ==
  ASSUME InBounds, Code \in Byte, Code \in {\h02, \h12, \h0A, \h1A}
  PROVE  Wrap(PairValue(Code \div 16)) \in Cells
BY ReachedWays DEF InBounds

LEMMA ReachesDirectly ==
  ASSUME InBounds, Code \in Byte
  PROVE  /\ Code \in {\h32, \h3A} => Wrap(WordOperand) \in Cells
         /\ Code \in {\h22, \h2A} => /\ Wrap(WordOperand) \in Cells
                                     /\ Wrap(WordOperand) + 1 \in Cells
BY ReachedWays DEF InBounds

LEMMA ReachesBelowTop ==
  ASSUME InBounds, Code \in Byte, Pushes PROVE sp - 1 \in Cells /\ sp - 2 \in Cells
BY ReachedWays DEF InBounds

LEMMA ReachesTop ==
  ASSUME InBounds, Code \in Byte, Pops PROVE sp \in Cells /\ sp + 1 \in Cells
BY ReachedWays DEF InBounds

-----------------------------------------------------------------------------
(* Data transfer.                                                           *)

LEMMA MoveTyped == ASSUME VmTypeOK, Move PROVE VmTypeOK'
<1>1. CpuTypeOK /\ Fetch(MoveCodes)
  BY VmTypeParts DEF Move
<1>2. InBounds /\ Code \in MoveCodes /\ Code \in Byte
  BY <1>1, FetchFacts
<1>3. Code \in \h40 .. \h7F /\ Code # HLT
  BY <1>2 DEF MoveCodes
<1> DEFINE source == Operand(Code % 8)
           target == Operand(Field(\h40, 8))
<1>4. Code % 8 \in 0 .. 7 /\ (Code % 8 = 6 => UsesM(Code))
  BY <1>3 DEF UsesM
<1>5. IF source = "M" THEN Wrap(HL) \in Cells ELSE source \in RegisterNames
  BY <1>2, <1>3, <1>4, OperandNames, ReachesM
<1>6. Value(source) \in Byte
  BY <1>1, <1>5, ValueTyped
<1>7. PutOperand(target, Value(source)) /\ UNCHANGED <<flags, sp>> /\ EndInstruction
  BY DEF Move
<1>8. CpuTypeOK'
  BY <1>1, <1>6, <1>7, PutOperandTyped DEF CpuTypeOK
<1> QED BY <1>1, <1>7, <1>8, EndInstructionTyped

LEMMA MoveImmediateTyped == ASSUME VmTypeOK, MoveImmediate PROVE VmTypeOK'
<1>1. CpuTypeOK /\ Fetch(MoveImmediateCodes)
  BY VmTypeParts DEF MoveImmediate
<1>2. ByteOperand \in Byte
  BY <1>1, FetchFacts DEF TwoByteCodes
<1>3. CpuTypeOK'
  BY <1>1, <1>2, PutOperandTyped DEF MoveImmediate, CpuTypeOK
<1> QED BY <1>1, <1>3, EndInstructionTyped DEF MoveImmediate

LEMMA LoadPairImmediateTyped ==
  ASSUME VmTypeOK, LoadPairImmediate PROVE VmTypeOK'
<1>1. CpuTypeOK /\ Fetch(LoadPairCodes)
  BY VmTypeParts DEF LoadPairImmediate
<1>2. Wide(WordOperand) /\ Code \in LoadPairCodes
  BY <1>1, FetchFacts DEF ThreeByteCodes
<1>3. CpuTypeOK'
  <2>1. CASE Code = \h31
    <3>1. Wrap(WordOperand) \in Word
      BY <1>2, WordFacts DEF Wide
    <3> QED BY <1>1, <2>1, <3>1 DEF LoadPairImmediate, CpuTypeOK
  <2>2. CASE Code # \h31
    <3>1. Field(\h01, 16) \in 0 .. 3 /\ Field(\h01, 16) # 3
      BY <1>2, <2>2 DEF LoadPairCodes, EverySixteenth, Field
    <3> QED BY <1>1, <1>2, <2>2, <3>1, PairFacts DEF LoadPairImmediate, CpuTypeOK
  <2> QED BY <2>1, <2>2
<1> QED BY <1>1, <1>3, EndInstructionTyped DEF LoadPairImmediate

LEMMA LoadAccumulatorTyped ==
  ASSUME VmTypeOK, LoadAccumulator \/ LoadAccumulatorIndirect PROVE VmTypeOK'
<1>1. CpuTypeOK
  BY VmTypeParts
<1>2. CASE LoadAccumulator
  <2>1. Fetch({\h3A})
    BY <1>2 DEF LoadAccumulator
  <2>2. memory[Wrap(WordOperand)] \in Byte
    BY <1>1, <2>1, FetchFacts, ReachesDirectly DEF CpuTypeOK
  <2>3. CpuTypeOK'
    BY <1>1, <1>2, <2>2, PutAccumulatorTyped DEF LoadAccumulator
  <2> QED BY <1>2, <2>1, <2>3, EndInstructionTyped DEF LoadAccumulator
<1>3. CASE LoadAccumulatorIndirect
  <2>1. Fetch({\h0A, \h1A})
    BY <1>3 DEF LoadAccumulatorIndirect
  <2>2. InBounds /\ Code \in {\h0A, \h1A} /\ Code \in Byte
    BY <1>1, <2>1, FetchFacts
  <2>3. Field(\h0A, 16) = Code \div 16
    BY <2>2 DEF Field
  <2>4. memory[Wrap(PairValue(Field(\h0A, 16)))] \in Byte
    BY <1>1, <2>2, <2>3, ReachesByPair DEF CpuTypeOK
  <2>5. CpuTypeOK'
    BY <1>1, <1>3, <2>4, PutAccumulatorTyped DEF LoadAccumulatorIndirect
  <2> QED BY <1>3, <2>1, <2>5, EndInstructionTyped DEF LoadAccumulatorIndirect
<1> QED BY <1>2, <1>3

\* A byte stored anywhere leaves a memory of bytes.
LEMMA PutMemoryTyped ==
  ASSUME CpuTypeOK, NEW changed \in [Cells -> Byte], PutMemory(changed)
  PROVE  CpuTypeOK'
BY DEF PutMemory, CpuTypeOK

LEMMA StoreTyped ==
  ASSUME VmTypeOK, StoreAccumulator \/ StoreAccumulatorIndirect \/ StoreHL
  PROVE  VmTypeOK'
<1>1. CpuTypeOK
  BY VmTypeParts
<1>2. registers["A"] \in Byte /\ registers["H"] \in Byte /\ registers["L"] \in Byte
  BY <1>1, RegistersTyped
<1>3. /\ \A a : [memory EXCEPT ![a] = registers["A"]] \in [Cells -> Byte]
      /\ \A a, b : [memory EXCEPT ![a] = registers["L"], ![b] = registers["H"]]
                     \in [Cells -> Byte]
  BY <1>1, <1>2 DEF CpuTypeOK
<1>4. CpuTypeOK'
  BY <1>1, <1>3, PutMemoryTyped
     DEF StoreAccumulator, StoreAccumulatorIndirect, StoreHL
<1>5. (\E codes : Fetch(codes)) /\ EndInstruction
  BY DEF StoreAccumulator, StoreAccumulatorIndirect, StoreHL
<1> QED BY <1>4, <1>5, EndInstructionTyped

LEMMA LoadHLTyped == ASSUME VmTypeOK, LoadHL PROVE VmTypeOK'
<1>1. CpuTypeOK /\ Fetch({\h2A})
  BY VmTypeParts DEF LoadHL
<1>2. /\ memory[Wrap(WordOperand)] \in Byte
      /\ memory[Wrap(WordOperand) + 1] \in Byte
  BY <1>1, FetchFacts, ReachesDirectly DEF CpuTypeOK
<1>3. CpuTypeOK'
  BY <1>1, <1>2 DEF LoadHL, CpuTypeOK
<1> QED BY <1>1, <1>3, EndInstructionTyped DEF LoadHL

LEMMA ExchangePairsTyped == ASSUME VmTypeOK, ExchangePairs PROVE VmTypeOK'
<1>1. CpuTypeOK /\ Fetch({\hEB})
  BY VmTypeParts DEF ExchangePairs
<1>2. /\ registers["D"] \in Byte /\ registers["E"] \in Byte
      /\ registers["H"] \in Byte /\ registers["L"] \in Byte
  BY <1>1, RegistersTyped DEF RegisterNames
<1>3. CpuTypeOK'
  BY <1>1, <1>2 DEF ExchangePairs, CpuTypeOK
<1> QED BY <1>1, <1>3, EndInstructionTyped DEF ExchangePairs

LEMMA PortTyped == ASSUME VmTypeOK, Input \/ Output \/ NoEffect PROVE VmTypeOK'
<1>1. CpuTypeOK
  BY VmTypeParts
<1>2. CpuTypeOK'
  <2>1. CASE Input
    BY <1>1, <2>1, InputAssumption, PutAccumulatorTyped DEF Input
  <2>2. CASE Output \/ NoEffect
    BY <1>1, <2>2, CpuUnchanged DEF Output, NoEffect
  <2> QED BY <2>1, <2>2
<1>3. (\E codes : Fetch(codes)) /\ EndInstruction
  BY DEF Input, Output, NoEffect
<1> QED BY <1>2, <1>3, EndInstructionTyped

LEMMA TransferTyped == ASSUME VmTypeOK, Transfer PROVE VmTypeOK'
BY MoveTyped, MoveImmediateTyped, LoadPairImmediateTyped, LoadAccumulatorTyped,
   StoreTyped, LoadHLTyped, ExchangePairsTyped, PortTyped DEF Transfer

-----------------------------------------------------------------------------
(* Arithmetic and logic.                                                    *)

LEMMA OperateTyped ==
  ASSUME NEW n \in 0 .. 7, NEW a \in Byte, NEW x \in Byte, NEW f \in Flags
  PROVE  Operate(n, a, x, f).acc \in Byte /\ Operate(n, a, x, f).flags \in Flags
<1>1. CASE n = 7
  <2>1. Operate(n, a, x, f) = Compare(a, x, f)
    BY <1>1 DEF Operate
  <2> QED BY <2>1, CompareDescribes
<1>2. CASE n # 7
  BY <1>2, OperateDescribed DEF Described
<1> QED BY <1>1, <1>2

LEMMA OperateRegisterTyped == ASSUME VmTypeOK, OperateRegister PROVE VmTypeOK'
<1>1. CpuTypeOK /\ Fetch(OperateCodes) /\ flags \in Flags
  BY VmTypeParts DEF OperateRegister, CpuTypeOK
<1>2. InBounds /\ Code \in OperateCodes /\ Code \in Byte
  BY <1>1, FetchFacts
<1> DEFINE source == Operand(Code % 8)
<1>3. /\ Field(\h80, 8) \in 0 .. 7 /\ Code % 8 \in 0 .. 7 /\ Code # HLT
      /\ Code % 8 = 6 => UsesM(Code)
  BY <1>2 DEF OperateCodes, Field, UsesM, HLT, Byte
<1>4. IF source = "M" THEN Wrap(HL) \in Cells ELSE source \in RegisterNames
  BY <1>2, <1>3, OperandNames, ReachesM
<1>5. Value(source) \in Byte /\ registers["A"] \in Byte
  BY <1>1, <1>4, ValueTyped, RegistersTyped
<1> DEFINE result == Operate(Field(\h80, 8), registers["A"], Value(source), flags)
<1>6. result.acc \in Byte /\ result.flags \in Flags
  BY <1>1, <1>3, <1>5, OperateTyped
<1>7. PutResult(result)
  BY DEF OperateRegister
<1> HIDE DEF result
<1>8. CpuTypeOK'
  BY <1>1, <1>6, <1>7, PutResultTyped
<1> QED BY <1>1, <1>8, EndInstructionTyped DEF OperateRegister

LEMMA OperateImmediateTyped == ASSUME VmTypeOK, OperateImmediate PROVE VmTypeOK'
<1>1. CpuTypeOK /\ Fetch(ImmediateCodes) /\ flags \in Flags
  BY VmTypeParts DEF OperateImmediate, CpuTypeOK
<1>2. Code \in ImmediateCodes /\ ByteOperand \in Byte
  BY <1>1, FetchFacts DEF TwoByteCodes
<1>3. Field(\hC6, 8) \in 0 .. 7
  BY <1>2 DEF ImmediateCodes, EveryEighth, Field
<1> DEFINE result == Operate(Field(\hC6, 8), registers["A"], ByteOperand, flags)
<1>4. result.acc \in Byte /\ result.flags \in Flags
  BY <1>1, <1>2, <1>3, OperateTyped, RegistersTyped
<1>5. PutResult(result)
  BY DEF OperateImmediate
<1> HIDE DEF result
<1>6. CpuTypeOK'
  BY <1>1, <1>4, <1>5, PutResultTyped
<1> QED BY <1>1, <1>6, EndInstructionTyped DEF OperateImmediate

LEMMA CompareWithMemoryTyped ==
  ASSUME VmTypeOK, CompareWithMemory PROVE VmTypeOK'
<1>1. CpuTypeOK /\ Fetch({CMP_M}) /\ flags \in Flags
  BY VmTypeParts DEF CompareWithMemory, CpuTypeOK
<1>2. InBounds /\ Code = CMP_M /\ Code \in Byte
  BY <1>1, FetchFacts
<1>3. UsesM(Code) /\ Code # HLT
  BY <1>2 DEF UsesM, CMP_M, HLT
<1>4. Value("M") \in Byte /\ registers["A"] \in Byte
  BY <1>1, <1>2, <1>3, ReachesM, ValueTyped, RegistersTyped
<1> DEFINE x == (Value("M") + 1) % 256
           result == CompareMemory(registers["A"], Value("M"), flags)
<1>5. x \in Byte
  BY <1>4 DEF Byte
<1>6. Subtract(registers["A"], x, flags).flags \in Flags
  BY <1>1, <1>4, <1>5, SubtractFacts
<1>7. result.acc \in Byte /\ result.flags \in Flags
  BY <1>4, <1>6 DEF CompareMemory, Result
<1>8. PutResult(result)
  BY DEF CompareWithMemory
<1> HIDE DEF result
<1>9. CpuTypeOK'
  BY <1>1, <1>7, <1>8, PutResultTyped
<1> QED BY <1>1, <1>9, EndInstructionTyped DEF CompareWithMemory

\* INR and DCR, of a register or of memory.
LEMMA CountTyped ==
  ASSUME VmTypeOK, IncrementOperand \/ DecrementOperand PROVE VmTypeOK'
<1>1. CpuTypeOK /\ flags \in Flags
  BY VmTypeParts DEF CpuTypeOK
<1>2. Fetch(IncrementCodes) \/ Fetch(DecrementCodes)
  BY DEF IncrementOperand, DecrementOperand
<1>3. InBounds /\ Code \in IncrementCodes \cup DecrementCodes /\ Code \in Byte
  BY <1>1, <1>2, FetchFacts
<1> DEFINE o == Operand(Code \div 8)
<1>4. /\ Code \div 8 \in 0 .. 7 /\ Code # HLT
      /\ Code \div 8 = 6 => UsesM(Code)
  BY <1>3 DEF IncrementCodes, DecrementCodes, EveryEighth, UsesM, HLT
<1>5. IF o = "M" THEN Wrap(HL) \in Cells ELSE o \in RegisterNames
  BY <1>3, <1>4, OperandNames, ReachesM
<1>6. Value(o) \in Byte
  BY <1>1, <1>5, ValueTyped
<1>7. PICK result : /\ result.acc \in Byte /\ result.flags \in Flags
                    /\ Count(result)
  BY <1>1, <1>6, CountDescribed
     DEF IncrementOperand, DecrementOperand, Described
<1>8. CpuTypeOK'
  BY <1>1, <1>7, PutOperandTyped DEF Count, CpuTypeOK
<1> QED BY <1>2, <1>7, <1>8, EndInstructionTyped DEF Count

LEMMA CountPairTyped ==
  ASSUME CpuTypeOK, NEW by \in {1, -1}, Code \div 16 \in 0 .. 3, CountPair(by)
  PROVE  CpuTypeOK'
<1> DEFINE p == Code \div 16
           w == (PairValue(p) + 65536 + by) % 65536
<1>1. CASE p = 3
  <2>1. (sp + AddrMod + by) % AddrMod \in Word
    <3>1. sp + AddrMod + by \in Int
      BY AddrModAssumption DEF CpuTypeOK, Word
    <3> QED BY <3>1, AddrModAssumption DEF Word
  <2> QED BY <1>1, <2>1 DEF CountPair, CpuTypeOK
<1>2. CASE p # 3
  <2>1. PairValue(p) \in Int
    BY PairFacts DEF Wide
  <2>2. PairValue(p) + 65536 + by \in Int
    BY <2>1
  <2>3. Wide(w)
    BY <2>2 DEF Wide
  <2> HIDE DEF w
  <2>4. WithPair(p, w) \in [RegisterNames -> Byte]
    BY <1>2, <2>3, PairFacts
  <2> QED BY <1>2, <2>4 DEF CountPair, CpuTypeOK, w
<1> QED BY <1>1, <1>2

LEMMA PairArithmeticTyped ==
  ASSUME VmTypeOK, IncrementPair \/ DecrementPair \/ AddPair PROVE VmTypeOK'
<1>1. CpuTypeOK /\ flags \in Flags
  BY VmTypeParts DEF CpuTypeOK
<1>2. \/ Fetch(IncrementPairCodes) \/ Fetch(DecrementPairCodes)
      \/ Fetch(AddPairCodes)
  BY DEF IncrementPair, DecrementPair, AddPair
<1>3. Code \in IncrementPairCodes \cup DecrementPairCodes \cup AddPairCodes
  BY <1>1, <1>2, FetchFacts
<1>4. Code \div 16 \in 0 .. 3
  BY <1>3 DEF IncrementPairCodes, DecrementPairCodes, AddPairCodes, EverySixteenth
<1>5. CASE IncrementPair \/ DecrementPair
  <2>1. CpuTypeOK'
    BY <1>1, <1>4, <1>5, CountPairTyped DEF IncrementPair, DecrementPair
  <2> QED BY <1>2, <1>5, <2>1, EndInstructionTyped
          DEF IncrementPair, DecrementPair, CountPair
<1>6. CASE AddPair
  <2> DEFINE x == PairValue(Code \div 16)
             result == AddPairs(HL, x, flags)
  <2>1. HL \in Int /\ x \in Int
    BY <1>1, <1>4, RegistersTyped, PairFacts DEF Wide
  <2> HIDE DEF x
  <2>2. HL + x \in Int
    BY <2>1
  <2>3. Wide(result.sum)
    BY <2>2 DEF AddPairs, Wide
  <2>4. result.flags \in Flags
    BY <1>1, SetCarryFacts DEF AddPairs, Bit
  <2>5. /\ registers' = WithPair(2, result.sum) /\ flags' = result.flags
        /\ UNCHANGED <<sp, memory>>
    BY <1>6 DEF AddPair, x
  <2> HIDE DEF result
  <2>6. WithPair(2, result.sum) \in [RegisterNames -> Byte]
    BY <1>1, <2>3, PairFacts
  <2>7. CpuTypeOK'
    BY <1>1, <2>4, <2>5, <2>6 DEF CpuTypeOK
  <2> QED BY <1>2, <1>6, <2>7, EndInstructionTyped DEF AddPair
<1> QED BY <1>5, <1>6

LEMMA AccumulatorTyped ==
  ASSUME VmTypeOK,
         RotateAccumulator \/ AdjustAccumulator \/ ComplementAccumulator
           \/ ChangeCarry
  PROVE  VmTypeOK'
<1>1. CpuTypeOK /\ flags \in Flags /\ registers["A"] \in Byte
  BY VmTypeParts, RegistersTyped DEF CpuTypeOK
<1>2. CASE RotateAccumulator
  <2>1. Fetch({\h07, \h0F, \h17, \h1F})
    BY <1>2 DEF RotateAccumulator
  <2>2. Code \div 8 \in 0 .. 3
    <3>1. Code \in {\h07, \h0F, \h17, \h1F}
      BY <1>1, <2>1, FetchFacts
    <3> QED BY <3>1
  <2>3. CpuTypeOK'
    BY <1>1, <1>2, <2>2, RotateTyped, PutResultTyped DEF RotateAccumulator
  <2> QED BY <1>2, <2>1, <2>3, EndInstructionTyped DEF RotateAccumulator
<1>3. CASE AdjustAccumulator
  <2>1. CpuTypeOK'
    BY <1>1, <1>3, DecimalAdjustDescribed, PutResultTyped
       DEF AdjustAccumulator, Described
  <2> QED BY <1>3, <2>1, EndInstructionTyped DEF AdjustAccumulator
<1>4. CASE ComplementAccumulator
  <2>1. 255 - registers["A"] \in Byte
    BY <1>1 DEF Byte
  <2>2. CpuTypeOK'
    BY <1>1, <1>4, <2>1, PutAccumulatorTyped DEF ComplementAccumulator
  <2> QED BY <1>4, <2>2, EndInstructionTyped DEF ComplementAccumulator
<1>5. CASE ChangeCarry
  <2> DEFINE bit == IF Code = \h37 THEN 1 ELSE 1 - flags[FLG_C]
  <2>1. bit \in Bit
    BY <1>1 DEF Flags, FLG_C, Bit
  <2>2. SetCarry(flags, bit) \in Flags
    BY <1>1, <2>1, SetCarryFacts
  <2>3. CpuTypeOK'
    BY <1>1, <1>5, <2>2 DEF ChangeCarry, CpuTypeOK
  <2> QED BY <1>5, <2>3, EndInstructionTyped DEF ChangeCarry
<1> QED BY <1>2, <1>3, <1>4, <1>5

LEMMA ComputeTyped == ASSUME VmTypeOK, Compute PROVE VmTypeOK'
BY OperateRegisterTyped, OperateImmediateTyped, CompareWithMemoryTyped, CountTyped,
   PairArithmeticTyped, AccumulatorTyped DEF Compute

-----------------------------------------------------------------------------
(* Branches and the stack.                                                  *)

\* A turn that goes on somewhere else.
LEMMA BranchEndTyped ==
  ASSUME VmTypeOK, NEW next \in Word, EndTurn(next), CpuTypeOK' PROVE VmTypeOK'
BY EndTurnTyped, VmTypeParts, NextVmTypeParts

LEMMA PushWordTyped ==
  ASSUME CpuTypeOK, NEW high \in Byte, NEW low \in Byte, sp - 2 \in Cells,
         PushWord(high, low), UNCHANGED <<registers, flags>>
  PROVE  CpuTypeOK'
<1>1. sp - 2 \in Word
  BY WordFacts
<1> QED BY <1>1 DEF PushWord, CpuTypeOK

\* The word at the top of the stack.
LEMMA TopTyped ==
  ASSUME CpuTypeOK, sp \in Cells, sp + 1 \in Cells
  PROVE  Wide(WordAt(sp)) /\ Wrap(sp + 2) \in Word
<1>1. memory[sp] \in Byte /\ memory[sp + 1] \in Byte
  BY DEF CpuTypeOK
<1>2. sp + 2 \in Int
  BY DEF CpuTypeOK, Word
<1> QED BY <1>1, <1>2, WideOfBytes, WordFacts DEF WordAt

LEMMA JumpTyped == ASSUME VmTypeOK, Jump \/ JumpToHL PROVE VmTypeOK'
<1>1. CpuTypeOK
  BY VmTypeParts
<1>2. CpuTypeOK'
  BY <1>1, CpuUnchanged DEF Jump, JumpToHL
<1>3. CASE Jump
  <2>1. Fetch(JumpCodes \cup {\hC3})
    BY <1>3 DEF Jump
  <2>2. Code \in ThreeByteCodes
    BY <1>1, <2>1, FetchFacts DEF ThreeByteCodes
  <2>3. Wrap(WordOperand) \in Word /\ pc + 3 \in Word
    BY <1>1, <2>1, <2>2, FetchFacts, LengthFacts, WordFacts DEF Wide
  <2> QED BY <1>2, <1>3, <2>3, BranchEndTyped DEF Jump
<1>4. CASE JumpToHL
  <2>1. Wrap(HL) \in Word
    BY <1>1, RegistersTyped, WordFacts DEF Wide
  <2> QED BY <1>2, <1>4, <2>1, BranchEndTyped DEF JumpToHL
<1> QED BY <1>3, <1>4

LEMMA CallTyped == ASSUME VmTypeOK, CallTaken \/ CallNotTaken PROVE VmTypeOK'
<1>1. CpuTypeOK
  BY VmTypeParts
<1>2. CASE CallTaken
  <2>1. Fetch(CallCodes \cup {\hCD}) /\ Taken(\hCD, \hC4)
    BY <1>2 DEF CallTaken
  <2>2. InBounds /\ Code \in Byte /\ Pushes /\ Code \in ThreeByteCodes
    BY <1>1, <2>1, FetchFacts DEF Pushes, ThreeByteCodes
  <2>3. sp - 2 \in Cells
    BY <2>2, ReachesBelowTop
  <2>4. pc + 3 \in Word /\ Wrap(WordOperand) \in Word
    BY <1>1, <2>1, <2>2, FetchFacts, LengthFacts, WordFacts DEF Wide
  <2>5. High(pc + 3) \in Byte /\ Low(pc + 3) \in Byte
    BY <2>4, WordFacts, BytesOfWide
  <2>6. CpuTypeOK'
    BY <1>1, <1>2, <2>3, <2>5, PushWordTyped DEF CallTaken
  <2> QED BY <1>2, <2>4, <2>6, BranchEndTyped DEF CallTaken
<1>3. CASE CallNotTaken
  <2>1. CpuTypeOK'
    BY <1>1, <1>3, CpuUnchanged DEF CallNotTaken
  <2> QED BY <1>3, <2>1, EndInstructionTyped DEF CallNotTaken
<1> QED BY <1>2, <1>3

LEMMA ReturnTyped == ASSUME VmTypeOK, ReturnTaken \/ ReturnNotTaken PROVE VmTypeOK'
<1>1. CpuTypeOK
  BY VmTypeParts
<1>2. CASE ReturnTaken
  <2>1. Fetch(ReturnCodes \cup {\hC9}) /\ Taken(\hC9, \hC0)
    BY <1>2 DEF ReturnTaken
  <2>2. InBounds /\ Code \in Byte /\ Pops
    BY <1>1, <2>1, FetchFacts DEF Pops
  <2>3. Wide(WordAt(sp)) /\ Wrap(sp + 2) \in Word
    BY <1>1, <2>2, ReachesTop, TopTyped
  <2>4. Wrap(WordAt(sp)) \in Word
    BY <2>3, WordFacts DEF Wide
  <2>5. CpuTypeOK'
    BY <1>1, <1>2, <2>3 DEF ReturnTaken, CpuTypeOK
  <2> QED BY <1>2, <2>4, <2>5, BranchEndTyped DEF ReturnTaken
<1>3. CASE ReturnNotTaken
  <2>1. CpuTypeOK'
    BY <1>1, <1>3, CpuUnchanged DEF ReturnNotTaken
  <2> QED BY <1>3, <2>1, EndInstructionTyped DEF ReturnNotTaken
<1> QED BY <1>2, <1>3

LEMMA RestartTyped == ASSUME VmTypeOK, Restart PROVE VmTypeOK'
<1>1. CpuTypeOK /\ Fetch(RestartCodes)
  BY VmTypeParts DEF Restart
<1>2. InBounds /\ Code \in Byte /\ Pushes /\ Code \in RestartCodes /\ pc \in Cells
  BY <1>1, FetchFacts DEF Pushes
<1>3. sp - 2 \in Cells
  BY <1>2, ReachesBelowTop
<1>4. High(pc + 1) \in Byte /\ Low(pc + 1) \in Byte
  BY <1>2, WordFacts, BytesOfWide
<1>5. CpuTypeOK'
  BY <1>1, <1>3, <1>4, PushWordTyped DEF Restart
<1>6. Code - \hC7 \in Word
  <2>1. Code - \hC7 \in 0 .. 256
    BY <1>2 DEF RestartCodes, EveryEighth
  <2> QED BY <2>1, SmallIsWord
<1> QED BY <1>5, <1>6, BranchEndTyped DEF Restart

LEMMA PushTyped == ASSUME VmTypeOK, Push PROVE VmTypeOK'
<1>1. CpuTypeOK /\ Fetch(PushCodes)
  BY VmTypeParts DEF Push
<1>2. InBounds /\ Code \in Byte /\ Pushes /\ Code \in PushCodes
  BY <1>1, FetchFacts DEF Pushes
<1>3. sp - 2 \in Cells
  BY <1>2, ReachesBelowTop
<1> DEFINE p == Field(\hC5, 16)
<1>4. p \in 0 .. 3
  BY <1>2 DEF PushCodes, EverySixteenth, Field
<1>5. PICK high \in Byte, low \in Byte : PushWord(high, low)
  <2>1. CASE p = 3
    <3>1. registers["A"] \in Byte /\ FromBits(flags) \in Byte
      BY <1>1, RegistersTyped, FromBitsInByte DEF CpuTypeOK
    <3> QED BY <2>1, <3>1 DEF Push
  <2>2. CASE p # 3
    <3>1. registers[PairHigh(p)] \in Byte /\ registers[PairLow(p)] \in Byte
      BY <1>1, <1>4, <2>2, PairFacts, RegistersTyped
    <3> QED BY <2>2, <3>1 DEF Push
  <2> QED BY <2>1, <2>2
<1>6. CpuTypeOK'
  BY <1>1, <1>3, <1>5, PushWordTyped DEF Push
<1> QED BY <1>1, <1>6, EndInstructionTyped DEF Push

LEMMA PopTyped == ASSUME VmTypeOK, Pop \/ ExchangeTop PROVE VmTypeOK'
<1>1. CpuTypeOK
  BY VmTypeParts
<1>2. CASE Pop
  <2>1. Fetch(PopCodes)
    BY <1>2 DEF Pop
  <2>2. InBounds /\ Code \in Byte /\ Pops /\ Code \in PopCodes
    BY <1>1, <2>1, FetchFacts DEF Pops
  <2>3. sp \in Cells /\ sp + 1 \in Cells
    BY <2>2, ReachesTop
  <2>4. Wide(WordAt(sp)) /\ Wrap(sp + 2) \in Word
    BY <1>1, <2>3, TopTyped
  <2>5. CpuTypeOK'
    <3>1. CASE Code = \hF1
      <4>1. memory[sp + 1] \in Byte /\ memory[sp] \in Byte
        BY <1>1, <2>3 DEF CpuTypeOK
      <4>2. ToBits(memory[sp]) \in Flags
        BY <4>1, HalvesFacts
      <4> QED BY <1>1, <1>2, <2>4, <3>1, <4>1, <4>2 DEF Pop, CpuTypeOK
    <3>2. CASE Code # \hF1
      <4>1. Field(\hC1, 16) \in 0 .. 3 /\ Field(\hC1, 16) # 3
        BY <2>2, <3>2 DEF PopCodes, EverySixteenth, Field
      <4>2. WithPair(Field(\hC1, 16), WordAt(sp)) \in [RegisterNames -> Byte]
        BY <1>1, <2>4, <4>1, PairFacts
      <4> QED BY <1>1, <1>2, <2>4, <3>2, <4>2 DEF Pop, CpuTypeOK
    <3> QED BY <3>1, <3>2
  <2> QED BY <1>2, <2>1, <2>5, EndInstructionTyped DEF Pop
<1>3. CASE ExchangeTop
  <2>1. Fetch({\hE3})
    BY <1>3 DEF ExchangeTop
  <2>2. InBounds /\ Code \in Byte /\ Pops
    BY <1>1, <2>1, FetchFacts DEF Pops
  <2>3. Wide(WordAt(sp))
    BY <1>1, <2>2, ReachesTop, TopTyped
  <2>4. WithPair(2, WordAt(sp)) \in [RegisterNames -> Byte]
    BY <1>1, <2>3, PairFacts
  <2>5. registers["H"] \in Byte /\ registers["L"] \in Byte
    BY <1>1, RegistersTyped
  <2>6. CpuTypeOK'
    BY <1>1, <1>3, <2>4, <2>5 DEF ExchangeTop, CpuTypeOK
  <2> QED BY <1>3, <2>1, <2>6, EndInstructionTyped DEF ExchangeTop
<1> QED BY <1>2, <1>3

LEMMA StackPointerFromHLTyped ==
  ASSUME VmTypeOK, StackPointerFromHL PROVE VmTypeOK'
<1>1. CpuTypeOK /\ Fetch({\hF9})
  BY VmTypeParts DEF StackPointerFromHL
<1>2. Wrap(HL) \in Word
  BY <1>1, RegistersTyped, WordFacts DEF Wide
<1>3. CpuTypeOK'
  BY <1>1, <1>2 DEF StackPointerFromHL, CpuTypeOK
<1> QED BY <1>1, <1>3, EndInstructionTyped DEF StackPointerFromHL

LEMMA BranchTyped == ASSUME VmTypeOK, Branch PROVE VmTypeOK'
BY JumpTyped, CallTyped, ReturnTyped, RestartTyped, PushTyped, PopTyped,
   StackPointerFromHLTyped DEF Branch

-----------------------------------------------------------------------------
(* The whole turn.                                                          *)

LEMMA HaltTyped == ASSUME VmTypeOK, Halt PROVE VmTypeOK'
<1>1. TableTypeOK /\ CpuTypeOK /\ LoopTypeOK
  BY VmTypeParts
<1>2. pc + 1 \in Word
  BY WordFacts DEF Halt, Fetch
<1>3. TableTypeOK'
  BY <1>1 DEF Halt, tableVars, TableTypeOK
<1>4. CpuTypeOK'
  BY <1>1, CpuUnchanged DEF Halt
<1>5. LoopTypeOK'
  BY <1>1, <1>2 DEF Halt, LoopTypeOK
<1> QED BY <1>3, <1>4, <1>5, NextVmTypeParts

LEMMA LeaveMemoryTyped == ASSUME VmTypeOK, LeaveMemory PROVE VmTypeOK'
<1>1. TableTypeOK /\ CpuTypeOK /\ LoopTypeOK
  BY VmTypeParts
<1>2. TableTypeOK'
  BY <1>1 DEF LeaveMemory, tableVars, TableTypeOK
<1>3. CpuTypeOK'
  BY <1>1, CpuUnchanged DEF LeaveMemory
<1>4. LoopTypeOK'
  BY <1>1 DEF LeaveMemory, LoopTypeOK
<1> QED BY <1>2, <1>3, <1>4, NextVmTypeParts

\* Whatever the turn executes.
LEMMA TurnTyped == ASSUME VmTypeOK, Turn PROVE VmTypeOK'
BY TransferTyped, ComputeTyped, BranchTyped, HaltTyped, LeaveMemoryTyped DEF Turn

-----------------------------------------------------------------------------
(* Every instruction ends its turn, halts, or leaves the memory.            *)

\* The end of a turn, wherever the instruction goes on.
TurnEnds == \E next : EndTurn(next)

LEMMA EndInstructionEnds == ASSUME EndInstruction PROVE TurnEnds
BY DEF EndInstruction, TurnEnds

LEMMA TransferEnds == ASSUME Transfer PROVE Running /\ TurnEnds
<1>1. CASE Move \/ MoveImmediate \/ LoadPairImmediate
  BY <1>1, EndInstructionEnds DEF Move, MoveImmediate, LoadPairImmediate, Fetch
<1>2. CASE LoadAccumulator \/ LoadAccumulatorIndirect
  BY <1>2, EndInstructionEnds DEF LoadAccumulator, LoadAccumulatorIndirect, Fetch
<1>3. CASE StoreAccumulator \/ StoreAccumulatorIndirect
  BY <1>3, EndInstructionEnds DEF StoreAccumulator, StoreAccumulatorIndirect, Fetch
<1>4. CASE LoadHL \/ StoreHL \/ ExchangePairs
  BY <1>4, EndInstructionEnds DEF LoadHL, StoreHL, ExchangePairs, Fetch
<1>5. CASE Input \/ Output \/ NoEffect
  BY <1>5, EndInstructionEnds DEF Input, Output, NoEffect, Fetch
<1> QED BY <1>1, <1>2, <1>3, <1>4, <1>5 DEF Transfer

LEMMA ComputeEnds == ASSUME Compute PROVE Running /\ TurnEnds
<1>1. CASE OperateRegister \/ OperateImmediate \/ CompareWithMemory
  BY <1>1, EndInstructionEnds
     DEF OperateRegister, OperateImmediate, CompareWithMemory, Fetch
<1>2. CASE IncrementOperand \/ DecrementOperand
  BY <1>2, EndInstructionEnds DEF IncrementOperand, DecrementOperand, Count, Fetch
<1>3. CASE IncrementPair \/ DecrementPair \/ AddPair
  BY <1>3, EndInstructionEnds
     DEF IncrementPair, DecrementPair, CountPair, AddPair, Fetch
<1>4. CASE RotateAccumulator \/ AdjustAccumulator
  BY <1>4, EndInstructionEnds DEF RotateAccumulator, AdjustAccumulator, Fetch
<1>5. CASE ComplementAccumulator \/ ChangeCarry
  BY <1>5, EndInstructionEnds DEF ComplementAccumulator, ChangeCarry, Fetch
<1> QED BY <1>1, <1>2, <1>3, <1>4, <1>5 DEF Compute

LEMMA BranchEnds == ASSUME Branch PROVE Running /\ TurnEnds
<1>1. CASE Jump \/ JumpToHL
  BY <1>1 DEF Jump, JumpToHL, Fetch, TurnEnds
<1>2. CASE CallTaken \/ CallNotTaken
  BY <1>2, EndInstructionEnds DEF CallTaken, CallNotTaken, Fetch, TurnEnds
<1>3. CASE ReturnTaken \/ ReturnNotTaken
  BY <1>3, EndInstructionEnds DEF ReturnTaken, ReturnNotTaken, Fetch, TurnEnds
<1>4. CASE Restart \/ Push
  BY <1>4, EndInstructionEnds DEF Restart, Push, Fetch, TurnEnds
<1>5. CASE Pop \/ ExchangeTop \/ StackPointerFromHL
  BY <1>5, EndInstructionEnds DEF Pop, ExchangeTop, StackPointerFromHL, Fetch
<1> QED BY <1>1, <1>2, <1>3, <1>4, <1>5 DEF Branch

LEMMA TurnCases ==
  ASSUME Turn PROVE Running /\ (TurnEnds \/ Halt \/ LeaveMemory)
BY TransferEnds, ComputeEnds, BranchEnds DEF Turn, Halt, LeaveMemory, Fetch

-----------------------------------------------------------------------------
(* Breakpoints are not run over.                                            *)

LEMMA EndTurnOffBreakpoints ==
  ASSUME NEW next, EndTurn(next) PROVE OffBreakpoints'
<1>1. pc' = next /\ step' = step /\ Attached' = Attached
  BY DEF EndTurn, tableVars, Attached, Used
<1>2. CASE step \/ next \in Attached
  BY <1>2 DEF EndTurn, OffBreakpoints
<1>3. CASE ~step /\ next \notin Attached
  BY <1>1, <1>3 DEF OffBreakpoints
<1> QED BY <1>2, <1>3

LEMMA CommandOffBreakpoints ==
  ASSUME Command PROVE OffBreakpoints'
<1>1. control' # "loop"
  <2>1. CASE (\E addr \in ExecAddresses : Exec(addr)) \/ Continue \/ StepOnce
    BY <2>1 DEF Exec, Continue, StepOnce, Run
  <2>2. CASE \E addr \in BreakAddresses : BreakAdd(addr) \/ BreakRemove(addr)
    BY <2>2 DEF BreakAdd, BreakRemove, AtPrompt, vmVars
  <2>3. CASE (\E e \in Edits : SetMemory(e)) \/ (\E i \in Images : Load(i)) \/ Exit
    BY <2>3 DEF SetMemory, Load, Exit, AtPrompt
  <2> QED BY <2>1, <2>2, <2>3 DEF Command
<1> QED BY <1>1 DEF OffBreakpoints

LEMMA OffBreakpointsInductive ==
  ASSUME OffBreakpoints, [Next]_vars PROVE OffBreakpoints'
<1>1. CASE Command
  BY <1>1, CommandOffBreakpoints
<1>2. CASE Turn
  <2>1. CASE TurnEnds
    BY <2>1, EndTurnOffBreakpoints DEF TurnEnds
  <2>2. CASE Halt \/ LeaveMemory
    BY <2>2 DEF Halt, LeaveMemory, OffBreakpoints
  <2> QED BY <1>2, <2>1, <2>2, TurnCases
<1>3. CASE UNCHANGED vars
  BY <1>3 DEF vars, vmVars, tableVars, OffBreakpoints, Attached, Used
<1> QED BY <1>1, <1>2, <1>3 DEF Next

(***************************************************************************)
(* Whatever program is loaded, edited and run, and whatever breakpoints    *)
(* are set between the runs: from its second instruction on run() is never *)
(* about to execute an instruction at a breakpoint, nor, single-stepping,  *)
(* a second instruction at all.                                            *)
(***************************************************************************)
THEOREM DebuggerOffBreakpoints == Spec => []OffBreakpoints
<1>1. Init => OffBreakpoints
  BY DEF Init, VmInit, OffBreakpoints
<1> QED BY <1>1, OffBreakpointsInductive, PTL DEF Spec

-----------------------------------------------------------------------------
(* Registers stay bytes and addresses stay addresses.                       *)

LEMMA InitTyped == ASSUME Init PROVE VmTypeOK
<1>1. TableTypeOK
  BY TableInitInv DEF Init, TableInv
<1>2. /\ registers = [r \in RegisterNames |-> 0] /\ flags = [k \in 0 .. 7 |-> 0]
      /\ memory = [a \in Cells |-> 0]
      /\ pc = 0 /\ sp = AddrMod - 1
      /\ isbroken = FALSE /\ step = FALSE /\ tstates = 0 /\ control = "repl"
  BY DEF Init, VmInit
<1>3. 0 \in Word /\ AddrMod - 1 \in Word
  BY AddrModAssumption DEF Word
<1>4. 0 \in Byte /\ 0 \in Bit /\ 0 \in 0 .. 18
  BY DEF Byte, Bit
<1>5. CpuTypeOK
  BY <1>2, <1>3, <1>4 DEF CpuTypeOK, Flags
<1>6. LoopTypeOK
  BY <1>2, <1>3, <1>4 DEF LoopTypeOK
<1> QED BY <1>1, <1>5, <1>6, VmTypeParts

LEMMA RunTyped ==
  ASSUME VmTypeOK, NEW from \in Word, NEW once \in BOOLEAN, Run(from, once),
         isbroken' \in BOOLEAN
  PROVE  VmTypeOK'
<1>1. TableTypeOK /\ CpuTypeOK /\ LoopTypeOK
  BY VmTypeParts
<1>2. TableTypeOK'
  BY <1>1 DEF Run, tableVars, TableTypeOK
<1>3. CpuTypeOK'
  BY <1>1, CpuUnchanged DEF Run
<1>4. LoopTypeOK'
  BY <1>1 DEF Run, LoopTypeOK
<1> QED BY <1>2, <1>3, <1>4, NextVmTypeParts

LEMMA StoredTyped ==
  ASSUME CpuTypeOK, NEW i \in Images \cup Edits, NEW n \in i.stored
  PROVE  Stored(i.at, i.code, n) \in [Cells -> Byte]
<1>1. i.at \in Word /\ i.code \in Seq(Byte) /\ n \in 0 .. Len(i.code)
  BY DebuggerAssumption
<1>2. i.at \in Int /\ Len(i.code) \in Nat
  BY <1>1, WordFacts, LenProperties
<1>3. ASSUME NEW c \in Cells, c \in i.at .. i.at + n - 1
      PROVE  i.code[c - i.at + 1] \in Byte
  <2>1. c - i.at + 1 \in 1 .. Len(i.code)
    BY <1>1, <1>2, <1>3 DEF Cells
  <2> QED BY <1>1, <2>1, ElementOfSeq
<1>4. \A c \in Cells : memory[c] \in Byte
  BY DEF CpuTypeOK
<1> QED BY <1>3, <1>4 DEF Stored

LEMMA StoreCommandTyped ==
  ASSUME VmTypeOK, (\E e \in Edits : SetMemory(e)) \/ (\E i \in Images : Load(i))
  PROVE  VmTypeOK'
<1>1. TableTypeOK /\ CpuTypeOK /\ LoopTypeOK
  BY VmTypeParts
<1>2. UNCHANGED <<registers, flags, sp, pc, isbroken, step, tstates, tableVars>>
  BY DEF SetMemory, Load
<1>3. TableTypeOK'
  BY <1>1, <1>2 DEF tableVars, TableTypeOK
<1>4. memory' \in [Cells -> Byte] /\ control' \in {control, "undefined"}
  <2>1. CASE \E e \in Edits : SetMemory(e)
    <3>1. PICK e \in Edits : SetMemory(e)
      BY <2>1
    <3>2. PICK n \in e.stored :
            \/ memory' = Stored(e.at, e.code, n) /\ UNCHANGED control
            \/ control' = "undefined" /\ UNCHANGED memory
      BY <3>1 DEF SetMemory
    <3> QED BY <1>1, <3>2, StoredTyped DEF CpuTypeOK
  <2>2. CASE \E i \in Images : Load(i)
    BY <1>1, <2>2, StoredTyped DEF Load
  <2> QED BY <2>1, <2>2
<1>5. CpuTypeOK'
  BY <1>1, <1>2, <1>4 DEF CpuTypeOK
<1>6. LoopTypeOK'
  BY <1>1, <1>2, <1>4 DEF LoopTypeOK
<1> QED BY <1>3, <1>5, <1>6, NextVmTypeParts

LEMMA BreakTyped ==
  ASSUME VmTypeOK, NEW addr \in BreakAddresses, BreakAdd(addr) \/ BreakRemove(addr)
  PROVE  VmTypeOK'
<1>1. TableTypeOK /\ CpuTypeOK /\ LoopTypeOK
  BY VmTypeParts
<1>2. addr \in Word
  BY DebuggerAssumption
<1>3. TableTypeOK'
  BY <1>1, <1>2, TableStepTypeOK DEF BreakAdd, BreakRemove
<1>4. UNCHANGED vmVars
  BY DEF BreakAdd, BreakRemove
<1>5. CpuTypeOK' /\ LoopTypeOK'
  BY <1>1, <1>4 DEF vmVars, cpuVars, CpuTypeOK, LoopTypeOK
<1> QED BY <1>3, <1>5, NextVmTypeParts

LEMMA CommandTyped == ASSUME VmTypeOK, Command PROVE VmTypeOK'
<1>1. pc \in Word /\ isbroken \in BOOLEAN
  BY DEF VmTypeOK
<1>2. CASE (\E addr \in ExecAddresses : Exec(addr)) \/ Continue \/ StepOnce
  <2>1. PICK from \in Word, once \in BOOLEAN :
          Run(from, once) /\ isbroken' \in BOOLEAN
    BY <1>1, <1>2, DebuggerAssumption DEF Exec, Continue, StepOnce
  <2> QED BY <2>1, RunTyped
<1>3. CASE \E addr \in BreakAddresses : BreakAdd(addr) \/ BreakRemove(addr)
  BY <1>3, BreakTyped
<1>4. CASE (\E e \in Edits : SetMemory(e)) \/ (\E i \in Images : Load(i))
  BY <1>4, StoreCommandTyped
<1>5. CASE Exit
  <2>1. TableTypeOK /\ CpuTypeOK /\ LoopTypeOK
    BY VmTypeParts
  <2>2. TableTypeOK'
    BY <1>5, <2>1 DEF Exit, tableVars, TableTypeOK
  <2>3. CpuTypeOK'
    BY <1>5, <2>1, CpuUnchanged DEF Exit
  <2>4. LoopTypeOK'
    BY <1>5, <2>1 DEF Exit, LoopTypeOK
  <2> QED BY <2>2, <2>3, <2>4, NextVmTypeParts
<1> QED BY <1>2, <1>3, <1>4, <1>5 DEF Command

LEMMA VmTypeStutter == ASSUME VmTypeOK, UNCHANGED vars PROVE VmTypeOK'
BY DEF vars, vmVars, cpuVars, tableVars, VmTypeOK, TableTypeOK

(***************************************************************************)
(* Whatever is loaded, edited and run, over any address space and any size *)
(* of the breakpoint table: registers and memory hold bytes, the program   *)
(* counter and the stack pointer stay addresses, and the breakpoint table  *)
(* stays within its array.  No instruction puts a value in a register that *)
(* the next one could not use.                                             *)
(***************************************************************************)
THEOREM DebuggerTypeCorrect == Spec => []VmTypeOK
<1>1. Init => VmTypeOK
  BY InitTyped
<1>2. VmTypeOK /\ [Next]_vars => VmTypeOK'
  BY CommandTyped, TurnTyped, VmTypeStutter DEF Next
<1> QED BY <1>1, <1>2, PTL DEF Spec

-----------------------------------------------------------------------------
(* What a turn does to the memory.                                          *)

\* An operand in the memory is the cell HL points to.
LEMMA OperandReached ==
  ASSUME CpuTypeOK, InBounds, Code \in Byte, Code # HLT, NEW o, NEW v, PutOperand(o, v),
         o = "M" => UsesM(Code)
  PROVE  \A a \in Cells \ Reached : memory'[a] = memory[a]
<1>1. CASE o = "M"
  <2>1. Reached = {Wrap(HL)}
    BY <1>1, ReachedWays
  <2> QED BY <1>1, <2>1 DEF PutOperand, CpuTypeOK
<1>2. CASE o # "M"
  BY <1>2 DEF PutOperand
<1> QED BY <1>1, <1>2

\* A word that is pushed goes to the two cells below the top.
LEMMA PushReached ==
  ASSUME CpuTypeOK, InBounds, Code \in Byte, Pushes, NEW high, NEW low, PushWord(high, low)
  PROVE  /\ \A a \in Cells \ Reached : memory'[a] = memory[a]
         /\ memory'[sp' + 1] = high /\ memory'[sp'] = low
<1>1. Reached = {sp - 1, sp - 2} /\ sp - 1 \in Cells /\ sp - 2 \in Cells
  BY ReachedWays, ReachesBelowTop
<1>2. memory' = [memory EXCEPT ![sp - 1] = high, ![sp - 2] = low] /\ sp' = sp - 2
  BY DEF PushWord
<1>3. sp \in Int /\ sp' + 1 = sp - 1 /\ sp - 1 # sp - 2
  BY <1>2 DEF CpuTypeOK, Word
<1> QED BY <1>1, <1>2, <1>3 DEF CpuTypeOK

\* Instructions that move data,
LEMMA TransferReached ==
  ASSUME VmTypeOK, Transfer PROVE \A a \in Cells \ Reached : memory'[a] = memory[a]
<1>0. CpuTypeOK
  BY VmTypeParts
<1>1. CASE Move
  <2>1. Fetch(MoveCodes)
    BY <1>1 DEF Move
  <2>2. InBounds /\ Code \in Byte /\ Code \in MoveCodes
    BY <1>0, <2>1, FetchFacts
  <2>3. Code # HLT /\ Code \in \h40 .. \hBF
    BY <2>2 DEF MoveCodes
  <2>4. Field(\h40, 8) \in 0 .. 7
    BY <2>2 DEF MoveCodes, Field
  <2>5. Operand(Field(\h40, 8)) = "M" => Field(\h40, 8) = 6
    BY <2>4, OperandNames
  <2>6. Field(\h40, 8) = 6 => UsesM(Code)
    BY <2>2, <2>3 DEF Field, UsesM, MoveCodes
  <2> QED BY <1>1, <2>2, <2>3, <2>5, <2>6, <1>0, OperandReached DEF Move
<1>2. CASE MoveImmediate
  <2>1. Fetch(MoveImmediateCodes)
    BY <1>2 DEF MoveImmediate
  <2>2. InBounds /\ Code \in Byte /\ Code \in MoveImmediateCodes
    BY <1>0, <2>1, FetchFacts
  <2>3. Code # HLT /\ Field(\h06, 8) \in 0 .. 7
    BY <2>2 DEF MoveImmediateCodes, EveryEighth, Field, HLT
  <2>5. Operand(Field(\h06, 8)) = "M" => Field(\h06, 8) = 6
    BY <2>3, OperandNames
  <2>6. Field(\h06, 8) = 6 => UsesM(Code)
    BY <2>2, <2>3 DEF Field, UsesM, MoveImmediateCodes, EveryEighth
  <2> QED BY <1>2, <2>2, <2>3, <2>5, <2>6, <1>0, OperandReached DEF MoveImmediate
<1>3. CASE StoreAccumulator
  <2>1. Fetch({\h32})
    BY <1>3 DEF StoreAccumulator
  <2>2. Code \in Byte /\ Code = \h32
    BY <1>0, <2>1, FetchFacts
  <2>3. Reached = {Wrap(WordOperand)}
    BY <2>2, ReachedWays
  <2> QED BY <1>0, <1>3, <2>3 DEF StoreAccumulator, PutMemory, CpuTypeOK
<1>4. CASE StoreAccumulatorIndirect
  <2>1. Fetch({\h02, \h12})
    BY <1>4 DEF StoreAccumulatorIndirect
  <2>2. Code \in Byte /\ Code \in {\h02, \h12}
    BY <1>0, <2>1, FetchFacts
  <2>3. Reached = {Wrap(PairValue(Code \div 16))}
    BY <2>2, ReachedWays
  <2>4. Code \div 16 = Field(\h02, 16)
    BY <2>2 DEF Field
  <2> QED BY <1>0, <1>4, <2>3, <2>4 DEF StoreAccumulatorIndirect, PutMemory, CpuTypeOK
<1>5. CASE StoreHL
  <2>1. Fetch({\h22})
    BY <1>5 DEF StoreHL
  <2>2. Code \in Byte /\ Code = \h22
    BY <1>0, <2>1, FetchFacts
  <2>3. Reached = {Wrap(WordOperand), Wrap(WordOperand) + 1}
    BY <2>2, ReachedWays
  <2> QED BY <1>0, <1>5, <2>3 DEF StoreHL, PutMemory, CpuTypeOK
<1>6. CASE LoadPairImmediate \/ LoadAccumulator \/ LoadAccumulatorIndirect \/ LoadHL
             \/ ExchangePairs \/ Input \/ Output \/ NoEffect
  BY <1>6 DEF LoadPairImmediate, LoadAccumulator, LoadAccumulatorIndirect, LoadHL,
              ExchangePairs, Input, Output, NoEffect, PutAccumulator, cpuVars
<1> QED BY <1>1, <1>2, <1>3, <1>4, <1>5, <1>6 DEF Transfer

\* that compute,
LEMMA ComputeReached ==
  ASSUME VmTypeOK, Compute PROVE \A a \in Cells \ Reached : memory'[a] = memory[a]
<1>0. CpuTypeOK
  BY VmTypeParts
<1>1. CASE IncrementOperand \/ DecrementOperand
  <2>1. Fetch(IncrementCodes) \/ Fetch(DecrementCodes)
    BY <1>1 DEF IncrementOperand, DecrementOperand
  <2>2. InBounds /\ Code \in Byte /\ Code \in IncrementCodes \cup DecrementCodes
    BY <1>0, <2>1, FetchFacts
  <2>3. Code # HLT /\ Code \div 8 \in 0 .. 7
    BY <2>2 DEF IncrementCodes, DecrementCodes, EveryEighth, HLT
  <2>4. Operand(Code \div 8) = "M" => Code \div 8 = 6
    BY <2>3, OperandNames
  <2>5. Code \div 8 = 6 => UsesM(Code)
    BY <2>2 DEF UsesM, IncrementCodes, DecrementCodes, EveryEighth
  <2>6. \E v : PutOperand(Operand(Code \div 8), v)
    BY <1>1 DEF IncrementOperand, DecrementOperand, Count
  <2> QED BY <2>2, <2>3, <2>4, <2>5, <2>6, <1>0, OperandReached
<1>2. CASE ~(IncrementOperand \/ DecrementOperand)
  BY <1>2 DEF Compute, OperateRegister, OperateImmediate, CompareWithMemory, IncrementPair,
              DecrementPair, CountPair, AddPair, RotateAccumulator, AdjustAccumulator,
              ComplementAccumulator, ChangeCarry, PutResult, PutAccumulator
<1> QED BY <1>1, <1>2

\* A restart is one byte long.
LEMMA RestartLength == ASSUME Code \in RestartCodes PROVE Length(Code) = 1
<1> USE DEF RestartCodes, EveryEighth
<1>1. Code \notin LoadPairCodes \cup {\h22, \h2A, \h32, \h3A, \hC3, \hCD}
  BY DEF LoadPairCodes, EverySixteenth
<1>2. Code \notin JumpCodes \cup CallCodes
  BY DEF JumpCodes, CallCodes
<1>3. Code \notin MoveImmediateCodes \cup ImmediateCodes \cup {\hD3, \hDB}
  BY DEF MoveImmediateCodes, ImmediateCodes
<1> QED BY <1>1, <1>2, <1>3 DEF Length, TwoByteCodes, ThreeByteCodes

\* Calls and restarts leave the address behind them.
LEMMA CallReached ==
  ASSUME VmTypeOK, CallTaken \/ Restart
  PROVE  /\ \A a \in Cells \ Reached : memory'[a] = memory[a]
         /\ WordAt(sp)' = pc + Length(Code)
<1>0. CpuTypeOK
  BY VmTypeParts
<1> DEFINE next == pc + Length(Code)
<1>1. InBounds /\ Code \in Byte /\ Pushes /\ PushWord(High(next), Low(next)) /\ next \in Word
  <2>1. CASE CallTaken
    <3>1. Fetch(CallCodes \cup {\hCD}) /\ Taken(\hCD, \hC4)
      BY <2>1 DEF CallTaken
    <3>2. /\ InBounds /\ Code \in Byte /\ Pushes /\ Code \in ThreeByteCodes
          /\ pc + Length(Code) \in Word
      BY <1>0, <3>1, FetchFacts DEF Pushes, ThreeByteCodes
    <3>3. Length(Code) = 3
      BY <3>2, LengthFacts
    <3> QED BY <2>1, <3>2, <3>3 DEF CallTaken
  <2>2. CASE Restart
    <3>1. Fetch(RestartCodes)
      BY <2>2 DEF Restart
    <3>2. /\ InBounds /\ Code \in Byte /\ Pushes /\ Code \in RestartCodes
          /\ pc + Length(Code) \in Word
      BY <1>0, <3>1, FetchFacts DEF Pushes
    <3>3. Length(Code) = 1
      BY <3>2, RestartLength
    <3> QED BY <2>2, <3>2, <3>3 DEF Restart
  <2> QED BY <2>1, <2>2
<1> HIDE DEF next
<1>2. /\ \A a \in Cells \ Reached : memory'[a] = memory[a]
      /\ memory'[sp' + 1] = High(next) /\ memory'[sp'] = Low(next)
  BY <1>0, <1>1, PushReached
<1>3. AsWord(High(next), Low(next)) = next
  BY <1>1, WordFacts DEF AsWord, High, Low, Wide
<1> QED BY <1>2, <1>3 DEF next, WordAt

\* The flags come back from the byte they are saved as.
LEMMA BitsOfFlags == ASSUME NEW f \in Flags PROVE ToBits(FromBits(f)) = f
<1>1. \A k \in 0 .. 7 : f[k] \in {0, 1}
  BY DEF Flags, Bit
<1> DEFINE b == FromBits(f)
<1>2. /\ b % 2 = f[0] /\ (b \div 2) % 2 = f[1] /\ (b \div 4) % 2 = f[2]
      /\ (b \div 8) % 2 = f[3] /\ (b \div 16) % 2 = f[4] /\ (b \div 32) % 2 = f[5]
      /\ (b \div 64) % 2 = f[6] /\ (b \div 128) % 2 = f[7]
  BY <1>1 DEF FromBits
<1>3. b \in Int
  BY <1>1 DEF FromBits
<1> HIDE DEF b
<1>4. ASSUME NEW k \in 0 .. 7 PROVE ToBits(b)[k] = f[k]
  <2>1. ToBits(b)[k] = (b \div Weight[k + 1]) % 2
    BY DEF ToBits
  <2>2. b \div 1 = b
    BY <1>3
  <2> QED BY <1>2, <1>3, <2>1, <2>2 DEF Weight
<1>5. ToBits(b) \in [0 .. 7 -> Int] /\ f \in [0 .. 7 -> Int]
  BY <1>1, <1>3 DEF ToBits, Weight, Flags, Bit
<1> QED BY <1>4, <1>5 DEF b, ToBits, Flags

\* A push leaves the pair, or the accumulator above the flags.
LEMMA PushKeeps ==
  ASSUME VmTypeOK, Push
  PROVE  /\ \A a \in Cells \ Reached : memory'[a] = memory[a]
         /\ Code # \hF5 => WordAt(sp)' = PairValue(Field(\hC5, 16))
         /\ Code = \hF5 => /\ memory'[sp' + 1] = registers["A"]
                          /\ ToBits(memory'[sp']) = flags
<1>1. CpuTypeOK /\ Fetch(PushCodes)
  BY VmTypeParts DEF Push
<1>2. InBounds /\ Code \in Byte /\ Pushes /\ Code \in PushCodes
  BY <1>1, FetchFacts DEF Pushes
<1> DEFINE p == Field(\hC5, 16)
<1>3. p \in 0 .. 3 /\ (p = 3 <=> Code = \hF5)
  BY <1>2 DEF PushCodes, EverySixteenth, Field
<1> HIDE DEF p
<1>4. CASE p = 3
  <2>1. PushWord(registers["A"], FromBits(flags))
    BY <1>4 DEF Push, p
  <2>2. /\ \A a \in Cells \ Reached : memory'[a] = memory[a]
        /\ memory'[sp' + 1] = registers["A"] /\ memory'[sp'] = FromBits(flags)
    BY <1>1, <1>2, <2>1, PushReached
  <2>3. ToBits(FromBits(flags)) = flags
    BY <1>1, BitsOfFlags DEF CpuTypeOK
  <2> QED BY <1>3, <1>4, <2>2, <2>3
<1>5. CASE p # 3
  <2>1. PushWord(registers[PairHigh(p)], registers[PairLow(p)])
    BY <1>5 DEF Push, p
  <2>2. /\ \A a \in Cells \ Reached : memory'[a] = memory[a]
        /\ memory'[sp' + 1] = registers[PairHigh(p)] /\ memory'[sp'] = registers[PairLow(p)]
    BY <1>1, <1>2, <2>1, PushReached
  <2>3. WordAt(sp)' = PairValue(p)
    BY <1>5, <2>2 DEF WordAt, PairValue
  <2> QED BY <1>3, <1>5, <2>2, <2>3 DEF p
<1> QED BY <1>4, <1>5

\* XTHL leaves what HL was.
LEMMA ExchangeTopKeeps ==
  ASSUME VmTypeOK, ExchangeTop
  PROVE  /\ \A a \in Cells \ Reached : memory'[a] = memory[a]
         /\ WordAt(sp)' = HL
<1>1. CpuTypeOK /\ Fetch({\hE3})
  BY VmTypeParts DEF ExchangeTop
<1>2. InBounds /\ Code \in Byte /\ Pops
  BY <1>1, FetchFacts DEF Pops
<1>3. Reached = {sp, sp + 1} /\ sp \in Cells /\ sp + 1 \in Cells /\ sp # sp + 1
  BY <1>1, <1>2, ReachedWays, ReachesTop DEF CpuTypeOK, Word
<1>4. /\ memory' = [memory EXCEPT ![sp + 1] = registers["H"], ![sp] = registers["L"]]
      /\ sp' = sp
  BY DEF ExchangeTop
<1>5. memory'[sp' + 1] = registers["H"] /\ memory'[sp'] = registers["L"]
  BY <1>1, <1>3, <1>4 DEF CpuTypeOK
<1> QED BY <1>1, <1>3, <1>4, <1>5 DEF WordAt, HL, CpuTypeOK

\* Instructions that branch or use the stack,
LEMMA BranchReached ==
  ASSUME VmTypeOK, Branch PROVE \A a \in Cells \ Reached : memory'[a] = memory[a]
<1>1. CASE CallTaken \/ Restart \/ Push \/ ExchangeTop
  BY <1>1, CallReached, PushKeeps, ExchangeTopKeeps
<1>2. CASE ~(CallTaken \/ Restart \/ Push \/ ExchangeTop)
  BY <1>2 DEF Branch, Jump, JumpToHL, CallNotTaken, ReturnTaken, ReturnNotTaken, Pop,
              StackPointerFromHL, cpuVars
<1> QED BY <1>1, <1>2

\* and the whole turn.
LEMMA TurnReached ==
  ASSUME VmTypeOK, Turn PROVE \A a \in Cells \ Reached : memory'[a] = memory[a]
<1>1. Halt \/ LeaveMemory => UNCHANGED memory
  BY DEF Halt, LeaveMemory, cpuVars
<1> QED BY <1>1, TransferReached, ComputeReached, BranchReached DEF Turn

(***************************************************************************)
(* For every program and every memory, the cells that an instruction may   *)
(* change are those whose place in the array the machine is checked for:   *)
(* no instruction of run() writes anywhere else.                           *)
(***************************************************************************)
THEOREM DebuggerKeepsOtherCells == Spec => KeepsOtherCells
<1>1. VmTypeOK /\ [Next]_vars =>
        [Turn => \A a \in Cells \ Reached : memory'[a] = memory[a]]_vmVars
  BY TurnReached
<1> QED BY <1>1, DebuggerTypeCorrect, PTL DEF Spec, KeepsOtherCells

(***************************************************************************)
(* For every program, every memory, all registers and all flags: what      *)
(* CALL, RST, PUSH and XTHL leave on the stack is what RET, POP and XTHL   *)
(* read there, in the order of the bytes in which they read it.            *)
(***************************************************************************)
THEOREM DebuggerStackKeepsWords == Spec => StackKeepsWords
<1> DEFINE Keeps ==
      /\ CallTaken \/ Restart => WordAt(sp)' = pc + Length(Code)
      /\ Push /\ Code # \hF5 => WordAt(sp)' = PairValue(Field(\hC5, 16))
      /\ Push /\ Code = \hF5 => /\ memory'[sp' + 1] = registers["A"]
                                /\ ToBits(memory'[sp']) = flags
      /\ ExchangeTop => WordAt(sp)' = HL
<1>1. VmTypeOK => Keeps
  BY CallReached, PushKeeps, ExchangeTopKeeps
<1>2. VmTypeOK /\ [Next]_vars => [Keeps]_vmVars
  BY <1>1
<1> QED BY <1>2, DebuggerTypeCorrect, PTL DEF Spec, StackKeepsWords

-----------------------------------------------------------------------------
(* The breakpoint table inside the machine.                                 *)

LEMMA TurnKeepsTable == ASSUME Turn PROVE UNCHANGED tableVars
BY TurnCases DEF TurnEnds, EndTurn, Halt, LeaveMemory

LEMMA CommandTableStep == ASSUME Command PROVE TableNext \/ UNCHANGED tableVars
<1>1. CASE (\E addr \in ExecAddresses : Exec(addr)) \/ Continue \/ StepOnce
  BY <1>1 DEF Exec, Continue, StepOnce, Run
<1>2. CASE \E addr \in BreakAddresses : BreakAdd(addr) \/ BreakRemove(addr)
  BY <1>2, DebuggerAssumption DEF BreakAdd, BreakRemove, TableNext
<1>3. CASE (\E e \in Edits : SetMemory(e)) \/ (\E i \in Images : Load(i)) \/ Exit
  BY <1>3 DEF SetMemory, Load, Exit
<1> QED BY <1>1, <1>2, <1>3 DEF Command

(***************************************************************************)
(* The machine and its REPL use the table only through 'break add' and     *)
(* 'break remove': no instruction, load or exec touches it, so whatever is *)
(* proved of the table alone holds of the table in the machine.            *)
(***************************************************************************)
THEOREM DebuggerKeepsTable == Spec => TableSpec
<1>1. Init => TableInit
  BY DEF Init
<1>2. [Next]_vars => [TableNext]_tableVars
  BY TurnKeepsTable, CommandTableStep DEF Next, vars
<1> QED BY <1>1, <1>2, PTL DEF Spec, TableSpec

\* In particular it behaves as the list of 'break view', between and during runs.
THEOREM DebuggerRefinesList == Spec => IsList
BY DebuggerKeepsTable, TableRefinesList, PTL

\* What the refinement of the session needs: types, and no address twice.
DebuggerInv == VmTypeOK /\ NoDuplicates

LEMMA DebuggerInvariant == Spec => []DebuggerInv
BY DebuggerTypeCorrect, DebuggerKeepsTable, TableHasNoDuplicates, PTL DEF DebuggerInv

-----------------------------------------------------------------------------
(* The refinement of the session.                                           *)

\* The step of the session the user sees, or no step of it.
SessionStep == [Session!SessionNext]_<<Mode, pc, Running /\ step, Attached>>

LEMMA AttachedAfterAdd ==
  ASSUME TableTypeOK, NEW addr, AddBreakpoint(addr)
  PROVE  Attached' \in {Attached, Attached \cup {addr}}
<1> USE MaxBreakpointsAssumption DEF TableTypeOK, Slots, Used, Attached
<1>1. CASE AddRefused \/ AddDuplicate(addr)
  BY <1>1 DEF AddRefused, AddDuplicate
<1>2. CASE AddNew(addr)
  <2>1. /\ breakpoint_pointer \in Slots
        /\ breakpoints' = [breakpoints EXCEPT ![breakpoint_pointer] = addr]
        /\ breakpoint_pointer' = breakpoint_pointer + 1
    BY <1>2 DEF AddNew
  <2>2. Used' = Used \cup {breakpoint_pointer} /\ breakpoint_pointer \notin Used
    BY <2>1
  <2>3. \A i \in Used : breakpoints'[i] = breakpoints[i]
    BY <2>1
  <2>4. breakpoints'[breakpoint_pointer] = addr
    BY <2>1
  <2>5. Attached' = {breakpoints'[i] : i \in Used'}
    OBVIOUS
  <2> HIDE DEF TableTypeOK, Slots, Used
  <2> QED BY <2>2, <2>3, <2>4, <2>5
<1> QED BY <1>1, <1>2 DEF AddBreakpoint

\* Without duplicates the address is gone once its first cell is.
LEMMA AttachedAfterRemove ==
  ASSUME TableTypeOK, NoDuplicates, NEW addr, RemoveBreakpoint(addr)
  PROVE  Attached' \in {Attached, Attached \ {addr}}
<1>1. CASE RemoveMissing(addr)
  BY <1>1 DEF RemoveMissing, Attached, Used
<1>2. CASE RemoveFound(addr)
  <2>1. PICK k \in Used : /\ breakpoints[k] = addr
                          /\ breakpoints' = ShiftDown(k)
                          /\ breakpoint_pointer' = breakpoint_pointer - 1
    BY <1>2 DEF RemoveFound
  <2>2. breakpoint_pointer \in Nat /\ breakpoint_pointer <= MaxBreakpoints
    BY MaxBreakpointsAssumption DEF TableTypeOK
  <2>3. \A i \in Used' : i \in Slots /\ breakpoints'[i] =
                           IF i < k THEN breakpoints[i] ELSE breakpoints[i + 1]
    BY <2>1, <2>2, MaxBreakpointsAssumption DEF ShiftDown, Slots, Used
  <2>4. \A i \in Used' : \/ i \in Used /\ i # k /\ i < k
                         \/ i + 1 \in Used /\ i + 1 # k /\ ~(i < k)
    BY <2>1, <2>2 DEF Used
  <2>5. \A i \in Used \ {k} : \/ i \in Used' /\ i < k
                              \/ i - 1 \in Used' /\ ~(i - 1 < k) /\ i - 1 + 1 = i
    BY <2>1, <2>2 DEF Used
  <2>6. \A i \in Used \ {k} : breakpoints[i] # addr
    BY <2>1 DEF NoDuplicates
  <2>7. ASSUME NEW a \in Attached' PROVE a \in Attached \ {addr}
    <3>1. PICK i \in Used' : breakpoints'[i] = a
      BY <2>7 DEF Attached
    <3>2. PICK j \in Used \ {k} : breakpoints[j] = a
      BY <2>3, <2>4, <3>1
    <3> QED BY <2>6, <3>2 DEF Attached
  <2>8. ASSUME NEW a \in Attached \ {addr} PROVE a \in Attached'
    <3>1. PICK i \in Used : breakpoints[i] = a
      BY <2>8 DEF Attached
    <3>2. i \in Used \ {k}
      BY <2>1, <2>8, <3>1
    <3>3. PICK j \in Used' : breakpoints'[j] = a
      BY <2>3, <2>5, <3>1, <3>2
    <3> QED BY <3>3 DEF Attached
  <2> QED BY <2>7, <2>8
<1> QED BY <1>1, <1>2 DEF RemoveBreakpoint

\* The mode of the session, read off the processor.
ModeDescribed ==
  /\ Running => Mode = "running" /\ ~Session!AtPrompt
  /\ AtPrompt => Mode = (IF isbroken THEN "paused" ELSE "idle") /\ Session!AtPrompt
  /\ control = "undefined" => Mode = "lost"
  /\ control = "exited" => Mode = "left"

LEMMA ModeFacts == VmTypeOK => ModeDescribed
<1> SUFFICES ASSUME VmTypeOK PROVE ModeDescribed
  OBVIOUS
<1> USE DEF ModeDescribed, Mode, Running, AtPrompt, Session!AtPrompt
<1>1. CASE Running
  BY <1>1
<1>2. CASE control = "repl"
  BY <1>2
<1>3. CASE control = "undefined" \/ control = "exited"
  BY <1>3
<1> QED BY <1>1, <1>2, <1>3 DEF VmTypeOK

LEMMA NextModeFacts == VmTypeOK' => ModeDescribed'
BY ModeFacts, PTL

-----------------------------------------------------------------------------
(* Every command and every turn is a step of the session.                   *)

LEMMA RunIsStart ==
  ASSUME VmTypeOK, VmTypeOK', NEW addr \in ExecAddresses, Exec(addr)
  PROVE  Session!Start(addr)
<1>1. ModeDescribed /\ ModeDescribed'
  BY ModeFacts, NextModeFacts
<1>2. AtPrompt /\ Running' /\ pc' = addr /\ step' = FALSE /\ UNCHANGED tableVars
  BY DEF Exec, Run, Running
<1>3. UNCHANGED Attached
  BY <1>2 DEF tableVars, Attached, Used
<1> QED BY <1>1, <1>2, <1>3 DEF ModeDescribed, Session!Start

LEMMA RunIsResume ==
  ASSUME VmTypeOK, VmTypeOK', Continue \/ StepOnce
  PROVE  Session!Resume
<1>1. ModeDescribed /\ ModeDescribed'
  BY ModeFacts, NextModeFacts
<1>2. /\ AtPrompt /\ isbroken /\ Running' /\ pc' = pc /\ UNCHANGED tableVars
      /\ step' \in BOOLEAN
  BY DEF Continue, StepOnce, Run, Running
<1>3. UNCHANGED Attached
  BY <1>2 DEF tableVars, Attached, Used
<1> QED BY <1>1, <1>2, <1>3 DEF ModeDescribed, Session!Resume

LEMMA BreakIsMark ==
  ASSUME VmTypeOK, NoDuplicates, VmTypeOK',
         NEW addr \in BreakAddresses, BreakAdd(addr) \/ BreakRemove(addr)
  PROVE  Session!Mark(addr) \/ UNCHANGED <<Mode, pc, Running /\ step, Attached>>
<1>1. ModeDescribed
  BY ModeFacts
<1>2. AtPrompt /\ UNCHANGED vmVars
  BY DEF BreakAdd, BreakRemove
<1>3. UNCHANGED <<Mode, pc, Running /\ step>>
  BY <1>2 DEF vmVars, Mode, AtPrompt, Running
<1>4. Attached' \in {Attached, Attached \cup {addr}, Attached \ {addr}}
  BY AttachedAfterAdd, AttachedAfterRemove DEF BreakAdd, BreakRemove, VmTypeOK
<1> QED BY <1>1, <1>2, <1>3, <1>4 DEF ModeDescribed, Session!Mark

LEMMA StoreIsHiddenOrLoses ==
  ASSUME VmTypeOK, VmTypeOK',
         (\E e \in Edits : SetMemory(e)) \/ (\E i \in Images : Load(i))
  PROVE  Session!Lose \/ UNCHANGED <<Mode, pc, Running /\ step, Attached>>
<1>1. ModeDescribed /\ ModeDescribed'
  BY ModeFacts, NextModeFacts
<1>2. /\ AtPrompt /\ UNCHANGED <<pc, isbroken, step, tableVars>>
      /\ control' \in {control, "undefined"}
  BY DEF SetMemory, Load
<1>3. UNCHANGED Attached
  BY <1>2 DEF tableVars, Attached, Used
<1>4. CASE control' = control
  BY <1>2, <1>3, <1>4 DEF Mode, AtPrompt, Running
<1>5. CASE control' = "undefined"
  BY <1>1, <1>2, <1>3, <1>5 DEF ModeDescribed, Session!Lose, Running
<1> QED BY <1>2, <1>4, <1>5

LEMMA ExitIsLeave ==
  ASSUME VmTypeOK, VmTypeOK', Exit PROVE Session!Leave
<1>1. ModeDescribed /\ ModeDescribed'
  BY ModeFacts, NextModeFacts
<1>2. AtPrompt /\ control' = "exited" /\ UNCHANGED <<pc, tableVars>>
  BY DEF Exit
<1>3. UNCHANGED Attached
  BY <1>2 DEF tableVars, Attached, Used
<1>4. ~Running /\ ~Running'
  BY <1>2 DEF AtPrompt, Running
<1> QED BY <1>1, <1>2, <1>3, <1>4 DEF ModeDescribed, Session!Leave

LEMMA CommandRefines ==
  ASSUME VmTypeOK, NoDuplicates, VmTypeOK', Command PROVE SessionStep
<1> USE DebuggerAssumption DEF SessionStep, Session!SessionNext
<1>1. CASE \E addr \in ExecAddresses : Exec(addr)
  BY <1>1, RunIsStart
<1>2. CASE Continue \/ StepOnce
  BY <1>2, RunIsResume
<1>3. CASE \E addr \in BreakAddresses : BreakAdd(addr) \/ BreakRemove(addr)
  BY <1>3, BreakIsMark
<1>4. CASE (\E e \in Edits : SetMemory(e)) \/ (\E i \in Images : Load(i))
  BY <1>4, StoreIsHiddenOrLoses
<1>5. CASE Exit
  BY <1>5, ExitIsLeave
<1> QED BY <1>1, <1>2, <1>3, <1>4, <1>5 DEF Command

LEMMA EndTurnRefines ==
  ASSUME VmTypeOK, VmTypeOK', Running, TurnEnds
  PROVE  Session!RunOn(pc') \/ Session!Pause(pc')
<1>1. ModeDescribed /\ ModeDescribed'
  BY ModeFacts, NextModeFacts
<1>2. UNCHANGED <<step, tableVars>>
  BY DEF TurnEnds, EndTurn
<1>3. UNCHANGED Attached
  BY <1>2 DEF tableVars, Attached, Used
<1>4. CASE step \/ pc' \in Attached
  <2>1. isbroken' = TRUE /\ control' = "repl"
    BY <1>4 DEF TurnEnds, EndTurn
  <2>2. AtPrompt' /\ ~Running'
    BY <2>1 DEF AtPrompt, Running
  <2> QED BY <1>1, <1>3, <1>4, <2>1, <2>2 DEF ModeDescribed, Session!Pause
<1>5. CASE ~step /\ pc' \notin Attached
  <2>1. Running'
    BY <1>5 DEF TurnEnds, EndTurn, Running
  <2> QED BY <1>1, <1>2, <1>3, <1>5, <2>1 DEF ModeDescribed, Session!RunOn
<1> QED BY <1>4, <1>5

LEMMA TurnRefines == ASSUME VmTypeOK, VmTypeOK', Turn PROVE SessionStep
<1>1. ModeDescribed /\ ModeDescribed'
  BY ModeFacts, NextModeFacts
<1>2. Running /\ (TurnEnds \/ Halt \/ LeaveMemory) /\ UNCHANGED Attached
  BY TurnCases, TurnKeepsTable DEF tableVars, Attached, Used
<1>3. pc' \in Word
  BY DEF VmTypeOK
<1>4. CASE TurnEnds
  BY <1>2, <1>3, <1>4, EndTurnRefines DEF SessionStep, Session!SessionNext
<1>5. CASE Halt
  <2>1. AtPrompt' /\ ~Running' /\ isbroken' = FALSE
    BY <1>5 DEF Halt, AtPrompt, Running
  <2>2. Session!Finish(pc')
    BY <1>1, <1>2, <2>1 DEF ModeDescribed, Session!Finish
  <2> QED BY <1>3, <2>2 DEF SessionStep, Session!SessionNext
<1>6. CASE LeaveMemory
  <2>1. control' = "undefined" /\ ~Running' /\ pc' = pc
    BY <1>6 DEF LeaveMemory, Running
  <2>2. Session!Lose
    BY <1>1, <1>2, <2>1 DEF ModeDescribed, Session!Lose
  <2> QED BY <2>2 DEF SessionStep, Session!SessionNext
<1> QED BY <1>2, <1>4, <1>5, <1>6

(***************************************************************************)
(* The debugger keeps the promise of DebugSession for every program, every *)
(* input, every size of memory and of the breakpoint table: a run goes on  *)
(* until it halts, leaves the memory or comes to a marked address, one     *)
(* instruction if stepped; a paused program is resumed where it paused;    *)
(* no other command moves it, and what it pauses at is what is attached.   *)
(***************************************************************************)
THEOREM DebuggerRefinesSession == Spec => KeepsSession
<1>1. Init => Session!SessionInit
  <2> SUFFICES ASSUME Init PROVE Session!SessionInit
    OBVIOUS
  <2>1. /\ control = "repl" /\ isbroken = FALSE /\ pc = 0
        /\ breakpoint_pointer = 0
    BY DEF Init, VmInit, TableInit
  <2>2. Mode = "idle" /\ ~Running
    BY <2>1 DEF Mode, AtPrompt, Running
  <2>3. Attached = {}
    BY <2>1 DEF Attached, Used
  <2> QED BY <2>1, <2>2, <2>3 DEF Session!SessionInit
<1>2. ASSUME DebuggerInv, DebuggerInv', [Next]_vars PROVE SessionStep
  <2>1. CASE Command
    BY <1>2, <2>1, CommandRefines DEF DebuggerInv
  <2>2. CASE Turn
    BY <1>2, <2>2, TurnRefines DEF DebuggerInv
  <2>3. CASE UNCHANGED vars
    BY <2>3 DEF vars, vmVars, tableVars, SessionStep, Mode, AtPrompt, Running,
                Attached, Used
  <2> QED BY <1>2, <2>1, <2>2, <2>3 DEF Next
<1> QED BY <1>1, <1>2, DebuggerInvariant, PTL
        DEF Spec, KeepsSession, Session!SessionSpec, SessionStep,
            Session!sessionVars
===============================================================================
