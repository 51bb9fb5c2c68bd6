SPECIFICATION FairSpec
CONSTANTS
  Buffer = {b1, b2}
  Skb = {s1, s2, s3, s4}
  Prealloc = 2
  Stops = {"suspend"}
  Lossy = FALSE
  MaxIoErr = 1
  MaxStarts = 2
PROPERTIES
  PendingGetsSkb
CHECK_DEADLOCK FALSE
