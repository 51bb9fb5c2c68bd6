SPECIFICATION FairSpec
CONSTANTS
  Buffer = {b1, b2, b3}
  Skb = {s1, s2, s3, s4}
  Prealloc = 3
  Stops = {"ips", "suspend"}
  Lossy = TRUE
  MaxIoErr = 1
  MaxStarts = 2
INVARIANTS
  TypeOK
  SkbOwnedOnce
  FlightHasSkb
  NoStuckPacket
  NoBufferForgotten
PROPERTIES
  WaitEnds
CHECK_DEADLOCK FALSE
