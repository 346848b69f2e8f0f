CONSTANTS
  a = a
  b = b
  c = c
  Request = {a, b, c}
  NChildren <- MCNone
  Wants <- MCApart
  Lora <- MCLora
  Streams = {}
  Endless = {b, c}
  NSlots = 2
  ContBatching = TRUE
  NBatch = 1
  MaxSteps = 1
  IdleSleep = FALSE
SPECIFICATION Spec
INVARIANTS OneBatch
PROPERTIES Answered
CHECK_DEADLOCK FALSE
