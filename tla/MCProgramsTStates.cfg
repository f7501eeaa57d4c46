SPECIFICATION ProgramSpec
CONSTANTS
  AddrMod = 300
  MaxBreakpoints = 1
  InputBytes = {7}
  ExecAddresses = {}
  BreakAddresses = {}
  Images = {}
  Edits = {}
PROPERTY TakesAsTold
CHECK_DEADLOCK FALSE
