SPECIFICATION FairSpec
CONSTANTS
  SeqMod = 8
  Half = 4
  MaxWindow = 2
  Window = 2
  MaxRetries = 1
  SyncCopies = 1
  Epochs = {1}
  MaxLead = 3
  MaxAckLag = 2
  MaxMsgs = 3
  MaxQueue = 1
  MaxAir = 2
  MaxSacks = 1
  MaxLives = 1
PROPERTIES
  ServiceKept
  EverythingSettles
  GapsClose
CHECK_DEADLOCK FALSE
