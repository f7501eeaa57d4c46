CONSTANT
  FlagRegisters <- ThreeRegisters
SPECIFICATION AluSpec
INVARIANT AllMemoryComparisonsOrder
