CONSTANTS
  NumSubs = 2
  Calls = {c1, c2}
  Schema = {1}
  MaxAttempts = 1
  ResultRetries = 1
  OverflowRetries = 1
SPECIFICATION FairSpec
INVARIANTS TypeOK FirstPromptAnswered SynthesizedInOrder
PROPERTIES  ParkedHasChild DrivesEnd
CHECK_DEADLOCK FALSE
