SPECIFICATION MCFairSpec
CONSTANTS
  Nodes <- MCNodes
  Files <- MCFiles
  Origin <- MCOrigin
  Size <- MCSize
  Content <- MCContent
  Offers <- AllOffers
  MaxRounds = 2
  MaxNack = 1
  Window = 3
  MaxLost = 2
  MaxOutages = 1
  MaxLives = 2
INVARIANTS TypeOK OkIsComplete WrittenOnce NoLeftovers
PROPERTIES VerdictsKept TransferEnds
CHECK_DEADLOCK FALSE
