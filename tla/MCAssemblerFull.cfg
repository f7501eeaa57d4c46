SPECIFICATION MCSpec
CONSTANTS
  AddrMod = 268
  Labels = {a, b}
  NUM_LABELS = 2
  NUM_PENDING_LABELS = 2
  MaxStatements = 4
  MaxCalls = 3
  Origins = {256}
  Statements <- MCStatements
  UsingCodes <- MCUsingCodes
  Misspelled <- MCMisspelled
CHECK_DEADLOCK FALSE
INVARIANT RefusedForTooMany
