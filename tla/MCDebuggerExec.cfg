SPECIFICATION MCSpec
CONSTANTS
  AddrMod = 268
  MaxBreakpoints = 1
  InputBytes = {200}
  ExecAddresses = {248}
  BreakAddresses = {248, 257}
  Images <- MCImages
  Edits <- MCEdits
CHECK_DEADLOCK FALSE
PROPERTY PausesAtBreakpoints
