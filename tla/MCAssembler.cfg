SPECIFICATION MCSpec
CONSTANTS
  AddrMod = 265
  Labels = {a, b, c}
  NUM_LABELS = 3
  NUM_PENDING_LABELS = 2
  MaxStatements = 5
  MaxCalls = 3
  Origins = {256}
  Statements <- MCStatements
  UsingCodes <- MCUsingCodes
  Misspelled <- MCMisspelled
CHECK_DEADLOCK FALSE
INVARIANTS
  TypeOK
  TablesAgree
  AssembledExactly
  VerdictDescribesFile
  PatchesFit
SYMMETRY Symmetry
