SPECIFICATION Spec
CONSTANTS
  MaxCuts = 1
  MaxOtas = 2
  TornSaves = FALSE
  AppResets = TRUE
  FallbackKernels <- OnlyOk
  Dtbs <- OnlyEvk
PROPERTIES
  ImplementsUpdate
  NoEarlyGiveUp
