SPECIFICATION LSpec
CONSTANTS
  c1 = c1
  c2 = c2
  Caller = {c1, c2}
  MaxProvider = 2
  MaxProc = 3
  Polls = 1
INVARIANTS
  TypeOK
  OrphanHasCause
  AnswerIsOwn
PROPERTIES
  EnsureReturns
  CloseReturns
CHECK_DEADLOCK FALSE
