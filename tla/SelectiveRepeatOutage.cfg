SPECIFICATION MCSpec
CONSTANTS
  SeqMod = 8
  Half = 4
  MaxWindow = 2
  Window = 1
  MaxRetries = 0
  SyncCopies = 1
  Epochs = {1}
  MaxLead = 16
  MaxAckLag = 2
  Starts = {0}
  MaxMsgs = 10
  MaxQueue = 2
  MaxAir = 2
  MaxSacks = 1
  MaxLives = 1
VIEW View
INVARIANT OldIsReceived
CHECK_DEADLOCK FALSE
