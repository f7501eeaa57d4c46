SPECIFICATION MCSpec
CONSTANTS
  AddrMod = 262
  Labels = {a}
  NUM_LABELS = 2
  NUM_PENDING_LABELS = 2
  MaxStatements = 3
  MaxCalls = 4
  Origins = {254, 258}
  Statements <- MCStatements
  UsingCodes <- MCUsingCodes
  Misspelled <- MCMisspelled
CHECK_DEADLOCK FALSE
PROPERTY RefusedForRoom
