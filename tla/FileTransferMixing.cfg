SPECIFICATION Spec
CONSTANTS
  Nodes <- MCNodes
  Files <- MCFiles
  Origin <- MCOrigin
  Size <- MCSize
  Content <- MCContent
  Offers <- OneAfterTheOther
  MaxRounds = 1
  MaxNack = 1
  Window = 3
  MaxLost = 2
  MaxOutages = 0
  MaxLives = 1
INVARIANT FragmentsBelong
CHECK_DEADLOCK FALSE
