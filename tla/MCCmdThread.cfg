SPECIFICATION FairSpec
CONSTANTS
  Cmd = {a, n}
  NoIO = {n}
  MaxSessions = 2
  MaxIps = 2
INVARIANTS
  TypeOK
  OneOwner
  AnswerOnLiveFrame
  ClearOnLiveCmd
  NoLostWakeup
PROPERTIES
  StopEnds
CHECK_DEADLOCK FALSE
