SPECIFICATION Spec
CONSTANTS
  MaxCuts = 0
  MaxOtas = 1
  TornSaves = FALSE
  AppResets = FALSE
  FallbackKernels <- OnlyOk
  Dtbs <- BothDtbs
INVARIANTS
  ReportedKernelRuns
