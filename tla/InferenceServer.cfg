CONSTANTS
  a = a
  b = b
  c = c
  Request = {a, b}
  NChildren <- MCNChildren
  Wants <- MCWants
  Streams = {b}
  Endless = {b}
  NSlots = 2
  Lora <- MCLora
  ContBatching = FALSE
  NBatch = 2
  MaxSteps = 1
  IdleSleep = TRUE
SPECIFICATION Spec
INVARIANTS TypeOK OnePlace AnsweredOnce NoneLost NoResidue ChildHasParent AbortHasCause
PROPERTIES Answered SlotsFreed
CHECK_DEADLOCK FALSE
