SPECIFICATION MCSpec
CONSTANTS
  AddrMod = 264
  NUM_LABELS = 4
  NUM_PENDING_LABELS = 3
  Labels = {}
  Statements = {}
  UsingCodes = {}
  Misspelled = {}
  Origins = {}
  Texts <- MCTexts
  Arguments <- MCArguments
  ByteLists <- MCByteLists
  OutsideBytes = {0, 1, 62}
  ShiftWraps = TRUE
  MaxLines = 2
INVARIANTS ConsoleTypeOK ListsWhatWasTyped StepsLikeMachine LinesCanBeTyped WordsAreFound LinesAreCounted ExamplesTeach
PROPERTIES Approaches ListingsEnd
CHECK_DEADLOCK FALSE
