SPECIFICATION FairSpec
CONSTANTS
  Stations <- MCStations
  Loads <- MCLoads
  Sifs = 1
  Difs = 2
  AckAir = 1
  DataAir = 2
  CwMin = 2
  CwMax = 4
  StrobeMax = 2
  MaxRetries = 1
  MaxLoss = 1
INVARIANTS
  TypeOK
  InOrderOnce
  OverlapsAreTies
PROPERTIES
  EverythingSettles
