SPECIFICATION FairSpec
CONSTANTS
  Resync = 2
  MaxFaults = 2
  MaxStamp = 8
INVARIANTS TypeOK ConfirmedByInitiator OpensKnownLife BootMatches
PROPERTIES ResetOnlyOnRestart Converges
CHECK_DEADLOCK FALSE
