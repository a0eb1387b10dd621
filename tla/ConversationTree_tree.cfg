CONSTANTS
  Compactors = {manual}
  SystemPrompt = TRUE
  MaxRecords = 7
SPECIFICATION Spec
INVARIANTS TypeOK NoMessageLost NoDoubleCount PathIsSuffix
CHECK_DEADLOCK FALSE
