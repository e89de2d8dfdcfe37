SPECIFICATION Spec
CONSTANTS
  Code <- MCCode
  Parts <- MCParts
  Threshold = 2
  LenBits = 2
  Byte = 1
  MinLen = 1
  MaxLen = 2
  Pre <- MCPre
  Post <- MCPost
  Filler <- MCFiller
  MaxBits = 23
  Payloads <- MCPayloads
  Pull = 6
  Chunks = {4, 7}
  Spots = {1, 4}
  MaxPush = 2
  MaxOff = 1
  MaxFlips = 1
  MaxWire = 9
  MaxStream = 24
INVARIANTS
  TypeOK
  ChunksDoNotMatter
  GoodFrameIsFound
CHECK_DEADLOCK FALSE
