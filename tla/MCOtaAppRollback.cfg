SPECIFICATION FairSpec
CONSTANTS
  MaxCuts = 3
  MaxFaults = 5
  MaxUpdates = 2
  NewApps <- AnyApp
  AppBacksUp = FALSE
INVARIANTS
  TypeOK
  FlagGuardsDisk
  RollbackDurable
  NoCopyWhileRunning
PROPERTIES
  AcceptedStays
  WorksAgain
CHECK_DEADLOCK FALSE
