--------------------------------- MODULE Opcodes ---------------------------------
(***************************************************************************)
(* The opcodes as run() of src/neovm.c decodes them, family by family, and *)
(* the length of an instruction: its opcode and what NEXT_BYTE and         *)
(* NEXT_DWORD fetch after it.                                              *)
(***************************************************************************)
EXTENDS Integers

HLT == \h76
CMP_M == \hBE

EveryEighth(first) == {first + 8 * n : n \in 0 .. 7}
EverySixteenth(first) == {first + 16 * n : n \in 0 .. 3}

MoveCodes == \h40 .. \h7F \ {HLT}
OperateCodes == \h80 .. \hBF \ {CMP_M}
LoadPairCodes == EverySixteenth(\h01)
PushCodes == EverySixteenth(\hC5)
PopCodes == EverySixteenth(\hC1)
JumpCodes == EveryEighth(\hC2)
CallCodes == EveryEighth(\hC4)
ReturnCodes == EveryEighth(\hC0)
RestartCodes == EveryEighth(\hC7)
MoveImmediateCodes == EveryEighth(\h06)
ImmediateCodes == EveryEighth(\hC6)
IncrementCodes == EveryEighth(\h04)
DecrementCodes == EveryEighth(\h05)
IncrementPairCodes == EverySixteenth(\h03)
DecrementPairCodes == EverySixteenth(\h0B)
AddPairCodes == EverySixteenth(\h09)

\* NOP, RIM, SIM, DI and EI do nothing, nor does an opcode without a case.
NoEffectCodes ==
  {\h00, \h20, \h30, \hF3, \hFB}
    \cup {\h08, \h10, \h18, \h28, \h38, \hCB, \hD9, \hDD, \hED, \hFD}

\* One opcode byte, and what NEXT_BYTE and NEXT_DWORD fetch after it.
TwoByteCodes == MoveImmediateCodes \cup ImmediateCodes \cup {\hD3, \hDB}
ThreeByteCodes ==
  LoadPairCodes \cup JumpCodes \cup CallCodes
    \cup {\h22, \h2A, \h32, \h3A, \hC3, \hCD}

Length(code) ==
  IF code \in ThreeByteCodes THEN 3 ELSE IF code \in TwoByteCodes THEN 2 ELSE 1
================================================================================
