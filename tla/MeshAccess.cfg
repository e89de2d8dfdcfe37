SPECIFICATION FairSpec
CONSTANTS
  N = 3
  K = 2
  MaxFaults = 1
  Derive <- MCDerive
INVARIANTS TypeOK BookConsistent KeepsByRight
PROPERTIES Separates AddressesSettle
