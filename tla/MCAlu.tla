-------------------------------- MODULE MCAlu --------------------------------
(***************************************************************************)
(* Every accumulator and operand a program can hand to the ALU, with each  *)
(* of a set of flag registers: the operand counts from 0 to 255 and round  *)
(* again.                                                                  *)
(***************************************************************************)
EXTENDS AluLaws

CONSTANT FlagRegisters

ASSUME FlagRegistersAssumption == FlagRegisters \subseteq Flags

VARIABLES accumulator, operand, flags
aluVars == <<accumulator, operand, flags>>

AluInit ==
  /\ accumulator \in Byte
  /\ operand = 0
  /\ flags \in FlagRegisters

NextOperand ==
  /\ operand' = (operand + 1) % 256
  /\ UNCHANGED <<accumulator, flags>>

AluSpec == AluInit /\ [][NextOperand]_aluVars

\* All flags clear but for the carry, and all eight bits set.
ThreeRegisters == {FlagsWith(0), FlagsWith(1), [k \in 0 .. 7 |-> 1]}

\* See SumsAndDifferences in AluLaws: no sum or difference loses a carry.
AllSumsAndDifferences ==
  SumsAndDifferences(accumulator, operand, flags)

\* See ComparisonOrders in AluLaws: CMP r and CPI order all bytes.
AllComparisonsOrder ==
  ComparisonOrders(accumulator, operand, flags)

\* See FlagsDescribeResult in AluLaws: the trick of INIT_FLG_P is a parity.
AllFlagsDescribeResult ==
  FlagsDescribeResult(accumulator, operand, flags)

\* See RotationsComeRound in AluLaws: no rotation loses a bit.
AllRotationsComeRound ==
  operand = 0 => RotationsComeRound(accumulator, flags)

\* See MemoryComparisonOrders in AluLaws (src/asm.c:29): refuted.
AllMemoryComparisonsOrder ==
  MemoryComparisonOrders(accumulator, operand, flags)

\* See DecimalSums in AluLaws (src/asm.c:37): refuted.
AllDecimalSums == DecimalSums(accumulator, operand, flags)
===============================================================================
