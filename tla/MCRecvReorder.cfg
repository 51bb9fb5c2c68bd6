SPECIFICATION Spec
CONSTANTS
  Modulus = 16
  Window = 4
  MaxFrame = 19
  Lag = 2
  Peer = {"bar"}
  MaxAddba = 1
  Smp = FALSE
INVARIANTS
  TypeOK
  QueueInOrder
  InOrder
  FreeIsQuiet
CHECK_DEADLOCK FALSE
