CONSTANTS
  KeepLast = 2
  Threshold = 3
  PartLimit = 2
  MaxRounds = 2
  MaxRetries = 1
  Oversized = {2}
  MaxTurns = 3
  MaxMessages = 6
  MaxFaults = 1
SPECIFICATION Spec
INVARIANTS TypeOK LossBounded StaysCleared PromptWellFormed AnsweredByOne
CHECK_DEADLOCK FALSE
