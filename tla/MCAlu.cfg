CONSTANT
  FlagRegisters <- ThreeRegisters
SPECIFICATION AluSpec
INVARIANTS
  AllSumsAndDifferences
  AllComparisonsOrder
  AllFlagsDescribeResult
  AllRotationsComeRound
