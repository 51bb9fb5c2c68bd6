SPECIFICATION FairSpec
CONSTANTS
  Modulus = 16
  Window = 3
  MaxFrame = 2
  Lag = 2
  Peer = {"bar", "early", "delba"}
  MaxAddba = 2
  Smp = TRUE
INVARIANTS
  NoStuckFrame
PROPERTIES
  QueueDrains
  RxReturns
CHECK_DEADLOCK FALSE
