SPECIFICATION MCRestartSpec
CONSTANTS
  SeqMod = 8
  Half = 4
  MaxWindow = 2
  Window = 2
  MaxRetries = 1
  SyncCopies = 2
  Epochs = {1, 2}
  MaxLead = 3
  MaxAckLag = 2
  Starts = {0, 6}
  MaxMsgs = 4
  MaxQueue = 2
  MaxAir = 2
  MaxSacks = 1
  MaxLives = 2
VIEW View
INVARIANTS
  TypeOK
  AckedIsReceived
  HandedUpInOrder
  OnlyGivenUpIsSkipped
  OldIsReceived
CHECK_DEADLOCK FALSE
