CONSTANT
  FlagRegisters <- ThreeRegisters
SPECIFICATION AluSpec
INVARIANT AllDecimalSums
