CONSTANTS
  a = a
  b = b
  c = c
  Request = {a, b, c}
  NChildren <- MCNone
  Wants <- MCNone
  Streams = {}
  Endless = {}
  NSlots = 1
  Lora <- MCLora
  ContBatching = TRUE
  NBatch = 2
  MaxSteps = 1
  IdleSleep = FALSE
SPECIFICATION Spec
INVARIANTS DeferredServed
CHECK_DEADLOCK FALSE
