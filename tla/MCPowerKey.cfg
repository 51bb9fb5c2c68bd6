SPECIFICATION Spec
CONSTANTS
  Hold = 7
  Period = 1
  MaxPeriod = 2
  HwOff = 15
  TimerMod = 16
INVARIANTS
  NoShortPress
  AcceptedBeforeCut
CHECK_DEADLOCK FALSE
