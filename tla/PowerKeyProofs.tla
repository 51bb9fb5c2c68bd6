--------------------------- MODULE PowerKeyProofs ---------------------------
(***************************************************************************)
(* Theorems about PowerKey, for any hold time, length of a pass, time to   *)
(* the power-off and width of the counter that satisfy TicksAssumption.    *)
(***************************************************************************)
EXTENDS PowerKey, TLAPS

\* The constants, one by one.
LEMMA Ticks ==
  /\ Hold \in Nat /\ Period \in Nat /\ MaxPeriod \in Nat /\ HwOff \in Nat /\ TimerMod \in Nat
  /\ 0 < Period /\ Period <= MaxPeriod
  /\ Hold + 2 * MaxPeriod < TimerMod /\ Hold + 4 * MaxPeriod <= HwOff
BY TicksAssumption

\* A difference is a number below the width of the counter; it grows by one
\* with every tick, until it has gone round.
LEMMA Difference ==
  ASSUME Types
  PROVE  /\ GetTimer(start) \in 0..TimerMod - 1
         /\ GetTimer(now) = 0
BY Ticks DEF Types, GetTimer

LEMMA DifferenceTicks ==
  ASSUME Types, Tick, GetTimer(start) + 1 < TimerMod
  PROVE  GetTimer(start)' = GetTimer(start) + 1
<1>1. /\ start \in Nat /\ now \in Nat /\ start < TimerMod /\ now < TimerMod
      /\ start' = start /\ now' = IF now + 1 = TimerMod THEN 0 ELSE now + 1
  BY Ticks DEF Types, Tick
<1> QED BY <1>1, Ticks DEF GetTimer

LEMMA InvInit == Init => IInv
<1> SUFFICES ASSUME Init PROVE IInv
  OBVIOUS
<1>0. down \in Nat BY Ticks DEF Init
<1>1. Types
  <2>1. level \in BOOLEAN /\ early \in BOOLEAN BY DEF Init
  <2>2. start \in 0..TimerMod - 1 /\ now \in 0..TimerMod - 1 /\ pass \in 0..MaxPeriod
    BY Ticks DEF Init
  <2> QED BY <1>0, <2>1, <2>2 DEF Init, Types
<1>2. ReleaseSeen /\ MeasuresHold /\ NotYetAccepted
  BY Ticks DEF Init, ReleaseSeen, MeasuresHold, NotYetAccepted, Measuring
<1>3. PressSeen BY Ticks DEF Init, PressSeen
<1> QED BY <1>1, <1>2, <1>3 DEF Init, IInv, NoShortPress, AcceptedBeforeCut

LEMMA InvNext == IInv /\ [Next]_vars => IInv'
<1> SUFFICES ASSUME IInv, [Next]_vars PROVE IInv'
  OBVIOUS
<1>a. Types /\ ReleaseSeen /\ (pc = "test" => pressing)
  BY DEF IInv
<1>b. Waiting => MeasuresHold /\ NotYetAccepted /\ PressSeen
  BY DEF IInv
<1>c. GetTimer(start) \in Nat
  BY <1>a, Ticks, Difference
<1> USE DEF Step, Waiting
<1>1. ASSUME ReadButton PROVE IInv'
  <2>0. GetTimer(start)' = GetTimer(start) BY <1>1 DEF ReadButton, GetTimer, button
  <2>1. Types' BY <1>a, <1>1, Ticks DEF ReadButton, Types, button
  <2>2. ReleaseSeen'
    BY <1>a, <1>1 DEF ReadButton, button, ReleaseSeen, Types, Measuring, AboutToPress
  <2>3. MeasuresHold' BY <1>b, <1>1, <2>0 DEF ReadButton, button, MeasuresHold, Measuring
  <2>4. NotYetAccepted'
    BY <1>a, <1>b, <1>c, <1>1, <2>0, Ticks DEF ReadButton, button, Types, NotYetAccepted
  <2>5. PressSeen'
    BY <1>a, <1>b, <1>c, <1>1, <2>0, Ticks
    DEF ReadButton, button, Types, PressSeen, Measuring, AboutToPress
  <2> QED BY <1>1, <2>1, <2>2, <2>3, <2>4, <2>5
          DEF ReadButton, IInv, NoShortPress, AcceptedBeforeCut
<1>2. ASSUME FirstPress PROVE IInv'
  <2>0. GetTimer(start)' = IF pressing THEN GetTimer(start) ELSE 0
    BY <1>a, <1>2, Difference DEF FirstPress, GetTimer, button
  <2>1. Types' BY <1>a, <1>2 DEF FirstPress, Types, button
  <2>2. ReleaseSeen'
    BY <1>a, <1>2 DEF FirstPress, button, ReleaseSeen, Measuring, AboutToPress
  <2>3. MeasuresHold'
    BY <1>a, <1>b, <1>2, <2>0 DEF FirstPress, button, Types, MeasuresHold, Measuring
  <2>4. NotYetAccepted'
    BY <1>a, <1>b, <1>2, <2>0, Ticks DEF FirstPress, button, Types, NotYetAccepted
  <2>5. PressSeen'
    BY <1>a, <1>b, <1>c, <1>2, <2>0, Ticks
    DEF FirstPress, button, Types, PressSeen, Measuring, AboutToPress
  <2> QED BY <1>2, <2>1, <2>2, <2>3, <2>4, <2>5
          DEF FirstPress, IInv, NoShortPress, AcceptedBeforeCut
<1>3. ASSUME Released PROVE IInv'
  <2>0. GetTimer(start)' = GetTimer(start) BY <1>3 DEF Released, GetTimer, button
  <2>1. Types' BY <1>a, <1>3 DEF Released, Types, button
  <2>2. ReleaseSeen'
    BY <1>a, <1>3 DEF Released, button, ReleaseSeen, Measuring, AboutToPress
  <2>3. MeasuresHold' /\ NotYetAccepted'
    BY <1>3 DEF Released, MeasuresHold, Measuring, NotYetAccepted
  <2>5. PressSeen'
    BY <1>b, <1>3 DEF Released, button, PressSeen, Measuring, AboutToPress
  <2> QED BY <1>3, <2>1, <2>2, <2>3, <2>5
          DEF Released, IInv, NoShortPress, AcceptedBeforeCut
<1>4. ASSUME TestHold PROVE IInv'
  <2>0. GetTimer(start)' = GetTimer(start) BY <1>4 DEF TestHold, GetTimer, button
  <2>1. Types' BY <1>a, <1>4 DEF TestHold, Types, button
  <2>2. ReleaseSeen'
    BY <1>a, <1>4 DEF TestHold, button, ReleaseSeen, Measuring, AboutToPress
  <2>3. MeasuresHold' BY <1>b, <1>4, <2>0 DEF TestHold, button, MeasuresHold, Measuring
  <2>4. pc' = "poll" => NotYetAccepted'
    BY <1>a, <1>c, <1>4, <2>0, Ticks DEF TestHold, button, Types, NotYetAccepted
  <2>5. PressSeen'
    BY <1>b, <1>4, <2>0 DEF TestHold, button, PressSeen, Measuring, AboutToPress
  <2>6. NoShortPress'
    BY <1>a, <1>b, <1>c, <1>4, Ticks
    DEF TestHold, button, Types, NoShortPress, MeasuresHold, Measuring
  <2> QED BY <1>4, <2>1, <2>2, <2>3, <2>4, <2>5, <2>6
          DEF TestHold, IInv, AcceptedBeforeCut
<1>5. ASSUME PollCtrlC \/ DelayEnds PROVE IInv'
  <2>0. GetTimer(start)' = GetTimer(start)
    BY <1>5 DEF PollCtrlC, DelayEnds, GetTimer, button
  <2>1. Types' BY <1>a, <1>5 DEF PollCtrlC, DelayEnds, Types, button
  <2>2. ReleaseSeen'
    BY <1>a, <1>5 DEF PollCtrlC, DelayEnds, button, ReleaseSeen, Measuring, AboutToPress
  <2>3. MeasuresHold'
    BY <1>b, <1>5, <2>0 DEF PollCtrlC, DelayEnds, button, MeasuresHold, Measuring
  <2>4. NotYetAccepted'
    BY <1>b, <1>5, <2>0 DEF PollCtrlC, DelayEnds, button, NotYetAccepted
  <2>5. PressSeen'
    BY <1>b, <1>5, <2>0
    DEF PollCtrlC, DelayEnds, button, PressSeen, Measuring, AboutToPress
  <2> QED BY <1>5, <2>1, <2>2, <2>3, <2>4, <2>5
          DEF PollCtrlC, DelayEnds, IInv, NoShortPress, AcceptedBeforeCut
<1>6. ASSUME Tick PROVE IInv'
  <2>a. /\ pass < MaxPeriod /\ pass' = pass + 1 /\ pass \in Nat
        /\ pc' = pc \/ pc' = "cut"
        /\ pressed' = pressed /\ pressing' = pressing /\ start' = start
        /\ level' = level /\ early' = early
    BY <1>a, <1>6 DEF Tick, Types
  <2>b. /\ down' = (IF level THEN down + 1 ELSE 0)
        /\ pc' = (IF down' >= HwOff THEN "cut" ELSE pc)
        /\ up' = (IF level THEN 0 ELSE Capped(up, MaxPeriod + 1))
        /\ solid' = (IF up' > MaxPeriod THEN 0 ELSE Capped(solid, Hold))
        /\ down \in Nat /\ up \in Nat /\ solid \in Nat
    BY <1>a, <1>6 DEF Tick, Types
  <2>c. up' \in Nat /\ solid' \in Nat /\ down' \in Nat
    BY <2>b, Ticks DEF Capped
  <2>0. pressing => GetTimer(start)' = GetTimer(start) + 1
    <3>1. pressing => GetTimer(start) + 1 < TimerMod
      BY <1>a, <1>b, <1>c, <1>6, <2>a, Ticks DEF Tick, NotYetAccepted
    <3> QED BY <1>a, <1>6, <3>1, DifferenceTicks
  <2>1. Types'
    <3>1. now' \in 0..TimerMod - 1 BY <1>a, <1>6, Ticks DEF Tick, Types
    <3>2. pass' \in 0..MaxPeriod BY <2>a, Ticks
    <3> QED BY <1>a, <2>a, <2>c, <3>1, <3>2 DEF Types
  <2>2. ReleaseSeen'
    <3>1. ~level => up' <= up + 1 BY <2>b, Ticks DEF Capped
    <3> QED BY <1>a, <2>a, <2>b, <2>c, <3>1, Ticks
            DEF ReleaseSeen, Measuring, AboutToPress
  <2>3. pc' = pc => MeasuresHold'
    <3> SUFFICES ASSUME pc' = pc, Measuring'
                 PROVE  solid' >= Hold \/ GetTimer(start)' <= solid'
      BY DEF MeasuresHold
    <3>1. Measuring BY <2>a DEF Measuring
    <3>2. up' <= MaxPeriod
      <4>1. ~level => up' <= up + 1 BY <2>b, Ticks DEF Capped
      <4> QED BY <1>a, <2>a, <2>b, <3>1, <4>1, Ticks DEF ReleaseSeen
    <3>3. solid' = Capped(solid, Hold)
      BY <2>b, <2>c, <3>2, Ticks
    <3>4. pressing /\ (solid >= Hold \/ GetTimer(start) <= solid)
      BY <1>b, <1>6, <3>1 DEF Tick, MeasuresHold, Measuring
    <3> QED BY <1>c, <2>0, <2>b, <3>3, <3>4, Ticks DEF Capped
  <2>4. pc' = pc => NotYetAccepted'
    BY <1>b, <1>c, <1>6, <2>0, <2>a, Ticks DEF Tick, NotYetAccepted
  <2>5. pc' = pc => PressSeen'
    BY <1>b, <1>c, <1>6, <2>0, <2>a, <2>b, Ticks
    DEF Tick, PressSeen, Measuring, AboutToPress
  <2>6. NoShortPress' BY <1>6, <2>a DEF Tick, NoShortPress
  <2>7. AcceptedBeforeCut'
    <3> SUFFICES ASSUME pc' = "cut", ~early PROVE FALSE
      BY <2>a DEF AcceptedBeforeCut
    <3>1. level /\ down + 1 >= HwOff /\ PressSeen /\ NotYetAccepted
      BY <1>b, <1>6, <2>a, <2>b, Ticks DEF Tick
    <3> QED BY <1>a, <1>c, <2>a, <2>b, <3>1, Ticks
            DEF PressSeen, NotYetAccepted, Measuring, AboutToPress
  <2> QED BY <1>a, <1>6, <2>a, <2>b, <2>1, <2>2, <2>3, <2>4, <2>5, <2>6, <2>7 DEF IInv, Tick
<1>7. ASSUME Toggle PROVE IInv'
  <2>a. /\ pc' = pc /\ pressed' = pressed /\ pressing' = pressing /\ start' = start
        /\ now' = now /\ pass' = pass /\ solid' = solid
        /\ level' = ~level /\ down' = 0 /\ up' = 0 /\ early' = FALSE
    BY <1>7 DEF Toggle, code
  <2>0. GetTimer(start)' = GetTimer(start) BY <2>a DEF GetTimer
  <2>1. Types' BY <1>a, <2>a DEF Types
  <2>2. ReleaseSeen' BY <1>a, <2>a, Ticks DEF ReleaseSeen, Types
  <2>3. MeasuresHold' BY <1>b, <1>7, <2>0, <2>a DEF Toggle, MeasuresHold, Measuring
  <2>4. NotYetAccepted' BY <1>b, <1>7, <2>0, <2>a DEF Toggle, NotYetAccepted
  <2>5. PressSeen' BY <1>a, <2>a, Ticks DEF PressSeen, Types
  <2> QED BY <1>a, <1>7, <2>a, <2>1, <2>2, <2>3, <2>4, <2>5
          DEF Toggle, IInv, NoShortPress, AcceptedBeforeCut
<1>8. CASE UNCHANGED vars
  <2>a. /\ UNCHANGED <<pc, pressed, pressing, start, now, pass>>
        /\ UNCHANGED <<level, down, up, solid, early>>
    BY <1>8 DEF vars, code, button
  <2>0. GetTimer(start)' = GetTimer(start) BY <2>a DEF GetTimer
  <2>1. Types' BY <1>a, <2>a DEF Types
  <2>2. ReleaseSeen' BY <1>a, <2>a DEF ReleaseSeen, Measuring, AboutToPress
  <2>3. Waiting => (MeasuresHold /\ NotYetAccepted /\ PressSeen)'
    BY <1>b, <2>0, <2>a
    DEF MeasuresHold, NotYetAccepted, PressSeen, Measuring, AboutToPress
  <2> QED BY <1>a, <2>a, <2>1, <2>2, <2>3 DEF IInv, NoShortPress, AcceptedBeforeCut
<1> QED
  BY <1>1, <1>2, <1>3, <1>4, <1>5, <1>6, <1>7, <1>8 DEF Next

LEMMA Invariance == Spec => []IInv
<1>1. Init => IInv BY InvInit
<1>2. IInv /\ [Next]_vars => IInv' BY InvNext
<1> QED BY <1>1, <1>2, PTL DEF Spec

\* The command accepts only a button that was down for hold_ms, but for
\* releases shorter than a pass of the loop, however the counter wraps.
THEOREM NeverShort == Spec => []NoShortPress
<1>1. IInv => NoShortPress BY DEF IInv
<1> QED BY <1>1, Invariance, PTL

\* A press that begins while the command waits is accepted before ten seconds
\* of it cut the power, if four passes of the loop fit between the two times.
THEOREM AcceptedInTime == Spec => []AcceptedBeforeCut
<1>1. IInv => AcceptedBeforeCut BY DEF IInv
<1> QED BY <1>1, Invariance, PTL
=============================================================================
