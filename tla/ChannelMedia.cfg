SPECIFICATION MSpec
CONSTANTS
  Channel = {"c", "d"}
  Kind = {"media"}
  Msg <- MCMsg
  To <- MCTo
  KindOf <- MCKindOf
  PartsOf <- MCPartsOf
  MediaSender = {"c"}
  AgentMsg = {1, 2, 3}
  SyncMsg = {}
  Starts <- MCStarts
  BusCap = 1
  QueueCap = 1
  MaxRetries = 1
  MaxGen = 1
PROPERTIES
  LossHasCause
  Settles
  StopAllEnds
CHECK_DEADLOCK FALSE
