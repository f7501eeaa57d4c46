SPECIFICATION ProgramSpec
CONSTANTS
  AddrMod = 300
  MaxBreakpoints = 1
  InputBytes = {7}
  ExecAddresses = {}
  BreakAddresses = {}
  Images = {}
  Edits = {}
INVARIANTS
  VmTypeOK
  ContextRestored
PROPERTIES HelpDescribes StackKeepsWords KeepsOtherCells
CHECK_DEADLOCK FALSE
