SPECIFICATION FairSpec
CONSTANTS
  Req = {r, s}
  Channels = 2
  MaxOwn = 2
  MaxCloses = 1
  MaxSleeps = 1
  MaxOom = 1
INVARIANTS
  TypeOK
  QuietWhenDown
  FlagEnds
PROPERTIES
  RequestAnswered
CHECK_DEADLOCK FALSE
