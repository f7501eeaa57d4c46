SPECIFICATION MCSpec
CONSTANTS
  AddrMod = 268
  MaxBreakpoints = 2
  InputBytes = {200}
  ExecAddresses = {248}
  BreakAddresses = {248, 257}
  Images <- MCImages
  Edits <- MCEdits
INVARIANT OffBreakpoints
PROPERTIES
  KeepsSession
  RunsEnd
CHECK_DEADLOCK FALSE
