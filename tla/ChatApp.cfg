SPECIFICATION FairSpec
CONSTANTS
  Peers <- MCPeers
  Addrs <- MCAddrs
  Reach <- MCReach
  Texts <- MCTexts
  Files <- MCFiles
  To <- MCTo
  Frames <- MCFrames
  Offers <- MCOffers
  MaxMoves = 3
INVARIANTS
  TypeOK
  DeliveredIsComplete
  OpenHasCause
  NothingForOthers
  ActiveIsSending
PROPERTIES
  VerdictsFinal
  VerdictsCome
