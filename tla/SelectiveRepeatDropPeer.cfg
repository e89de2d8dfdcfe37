SPECIFICATION MCDropSpec
CONSTANTS
  SeqMod = 8
  Half = 4
  MaxWindow = 2
  Window = 2
  MaxRetries = 0
  SyncCopies = 1
  Epochs = {1}
  MaxLead = 3
  MaxAckLag = 2
  Starts = {0}
  MaxMsgs = 4
  MaxQueue = 2
  MaxAir = 2
  MaxSacks = 1
  MaxLives = 2
VIEW View
INVARIANT AckedIsReceived
CHECK_DEADLOCK FALSE
