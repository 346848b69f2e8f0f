SPECIFICATION MSpec
CONSTANTS
  Channel = {"c"}
  Kind = {"text"}
  Msg <- MCMsg
  To <- MCTo
  KindOf <- MCKindOf
  PartsOf <- MCPartsOf
  MediaSender = {"c"}
  AgentMsg = {2, 3}
  SyncMsg = {2}
  Starts <- MCStarts
  BusCap = 1
  QueueCap = 1
  MaxRetries = 1
  MaxGen = 2
INVARIANTS
  TypeOK
  NoResend
  OneWorkerAlive
  PanicNeedsStop
PROPERTIES
  ArrivalOrder
CHECK_DEADLOCK FALSE
