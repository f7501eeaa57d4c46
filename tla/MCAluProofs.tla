------------------------------ MODULE MCAluProofs ------------------------------
(***************************************************************************)
(* The laws of AluLaws as invariants of the enumeration of MCAlu, for      *)
(* every set of flag registers.                                            *)
(***************************************************************************)
EXTENDS MCAlu, AluProofs

AluTypeOK == accumulator \in Byte /\ operand \in Byte /\ flags \in Flags

LEMMA AluTypeCorrect == AluSpec => []AluTypeOK
<1>1. AluInit => AluTypeOK
  BY FlagRegistersAssumption DEF AluInit, AluTypeOK, Byte
<1>2. AluTypeOK /\ [NextOperand]_aluVars => AluTypeOK'
  <2>1. ASSUME NEW x \in Byte PROVE (x + 1) % 256 \in Byte
    BY DEF Byte
  <2> QED BY <2>1 DEF AluTypeOK, NextOperand, aluVars
<1> QED BY <1>1, <1>2, PTL DEF AluSpec

(***************************************************************************)
(* ADD, ADC, SUB and SBB of src/neovm.c lose no carry: together with it    *)
(* their result is exact, whatever the flag register was.                  *)
(***************************************************************************)
THEOREM SumsAndDifferencesExact == AluSpec => []AllSumsAndDifferences
<1>1. AluTypeOK => AllSumsAndDifferences
  BY ArithmeticIsExact DEF AluTypeOK, AllSumsAndDifferences
<1> QED BY <1>1, AluTypeCorrect, PTL

(***************************************************************************)
(* The conditional jumps after CMP r and CPI of src/neovm.c tell the order *)
(* of all bytes, whatever the flag register was.                           *)
(***************************************************************************)
THEOREM ComparisonsOrder == AluSpec => []AllComparisonsOrder
<1>1. AluTypeOK => AllComparisonsOrder
  BY CompareOrders DEF AluTypeOK, AllComparisonsOrder
<1> QED BY <1>1, AluTypeCorrect, PTL

(***************************************************************************)
(* Sign, zero and parity as src/neovm.c sets them describe the result of   *)
(* every operation, whatever the flag register was.                        *)
(***************************************************************************)
THEOREM FlagsDescribeAll == AluSpec => []AllFlagsDescribeResult
<1>1. AluTypeOK => AllFlagsDescribeResult
  BY FlagsDescribe DEF AluTypeOK, AllFlagsDescribeResult
<1> QED BY <1>1, AluTypeCorrect, PTL

(***************************************************************************)
(* The four rotations of src/neovm.c are undone by one another and come    *)
(* round, whatever the flag register was.                                  *)
(***************************************************************************)
THEOREM RotationsComeRoundAll == AluSpec => []AllRotationsComeRound
<1>1. AluTypeOK => AllRotationsComeRound
  BY RotationsRound DEF AluTypeOK, AllRotationsComeRound
<1> QED BY <1>1, AluTypeCorrect, PTL
================================================================================
