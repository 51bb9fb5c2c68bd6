SPECIFICATION Spec
CONSTANTS
  Modulus = 16
  Window = 3
  MaxFrame = 6
  Lag = 2
  Peer = {"bar", "behind"}
  MaxAddba = 1
  Smp = FALSE
INVARIANTS
  InOrder
CHECK_DEADLOCK FALSE
