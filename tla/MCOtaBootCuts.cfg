SPECIFICATION FairSpec
CONSTANTS
  MaxCuts = 2
  MaxOtas = 1
  TornSaves = TRUE
  AppResets = FALSE
  FallbackKernels <- OkOrMissing
  Dtbs <- BothDtbs
INVARIANTS
  TypeOK
  AtMostThreeTrials
  AltbootcmdReady
  UnconfirmedOnlyOnTrial
  RollbackRestores
PROPERTIES
  QuietBoot
  Recovers
