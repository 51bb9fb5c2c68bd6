------------------------------ MODULE PowerKey ------------------------------
(***************************************************************************)
(* The U-Boot command waitpwrkey, which polls the ONOFF button until it    *)
(* was held for hold_ms, on hardware that cuts the power when the same     *)
(* button is held for ten seconds.  Time passes in ticks of 10 ms or more, *)
(* also between the steps of one pass of the loop.                         *)
(***************************************************************************)
EXTENDS Integers

CONSTANTS
  Hold,      \* hold_ms
  Period,    \* mdelay(20)
  MaxPeriod, \* the longest pass of the loop, its delay and its printing included
  HwOff,     \* BTN_PRESS_TIME
  TimerMod   \* where the counter behind get_timer wraps

ASSUME TicksAssumption ==
  /\ {Hold, Period, MaxPeriod, HwOff, TimerMod} \subseteq Nat
  /\ 0 < Period /\ Period <= MaxPeriod /\ Hold + 2 * MaxPeriod < TimerMod
  /\ Hold + 4 * MaxPeriod <= HwOff   \* 5000 ms and four passes fit in 10000 ms

VARIABLES
  pc,             \* where the loop is, or how it ended
  pressed, pressing, start,  \* the variables of do_waitpwrkey
  now,            \* the counter behind get_timer
  pass,           \* ticks since the button was last read
  level, down,    \* the button, and for how long the hardware has seen it down
  up, solid,      \* history: how long it has been up; ticks since it was last
                  \* up for longer than a pass
  early           \* history: the button is down since before the command

code == <<pc, pressed, pressing, start>>
button == <<level, down, up, solid, early>>
vars == <<code, now, pass, button>>

\* get_timer(base): an unsigned difference, of a counter that wraps.
GetTimer(base) == IF now >= base THEN now - base ELSE now - base + TimerMod
Capped(n, bound) == IF n < bound THEN n + 1 ELSE n

Step(label) == pc' = label /\ UNCHANGED <<now, button>>

ReadButton ==
  /\ pc = "read"
  /\ pressed' = level /\ pass' = 0
  /\ Step("judge") /\ UNCHANGED <<pressing, start>>

\* Mutant: every sample restarts the hold.
FirstPressAlways ==
  /\ pc = "judge" /\ pressed
  /\ start' = now /\ pressing' = TRUE
  /\ Step("test") /\ UNCHANGED <<pressed, pass>>

FirstPress ==
  /\ pc = "judge" /\ pressed
  /\ start' = IF pressing THEN start ELSE now
  /\ pressing' = TRUE
  /\ Step("test") /\ UNCHANGED <<pressed, pass>>

\* Mutant: a release does not restart the hold.
ReleasedForgotten ==
  /\ pc = "judge" /\ ~pressed
  /\ Step("poll") /\ UNCHANGED <<pressed, pressing, start, pass>>

Released ==
  /\ pc = "judge" /\ ~pressed
  /\ pressing' = FALSE
  /\ Step("poll") /\ UNCHANGED <<pressed, start, pass>>

TestHold ==
  /\ pc = "test"
  /\ Step(IF GetTimer(start) >= Hold THEN "accepted" ELSE "poll")
  /\ UNCHANGED <<pressed, pressing, start, pass>>

PollCtrlC ==
  /\ pc = "poll"
  /\ Step("delay") \/ Step("cancelled")
  /\ UNCHANGED <<pressed, pressing, start, pass>>

DelayEnds ==
  /\ pc = "delay" /\ pass >= Period
  /\ Step("read") /\ UNCHANGED <<pressed, pressing, start, pass>>

Waiting == pc \notin {"accepted", "cancelled", "cut"}

\* Ten seconds of the button cut the power whatever the software does.
Tick ==
  /\ Waiting /\ pass < MaxPeriod
  /\ now' = IF now + 1 = TimerMod THEN 0 ELSE now + 1
  /\ pass' = pass + 1
  /\ down' = IF level THEN down + 1 ELSE 0
  /\ up' = IF level THEN 0 ELSE Capped(up, MaxPeriod + 1)
  /\ solid' = IF up' > MaxPeriod THEN 0 ELSE Capped(solid, Hold)
  /\ pc' = IF down' >= HwOff THEN "cut" ELSE pc
  /\ UNCHANGED <<pressed, pressing, start, level, early>>

\* The finger.
Toggle ==
  /\ Waiting
  /\ level' = ~level /\ early' = FALSE
  /\ down' = 0 /\ up' = 0
  /\ UNCHANGED <<code, now, pass, solid>>

Init ==
  /\ pc = "read" /\ pressed = FALSE /\ pressing = FALSE /\ start = 0
  /\ now \in 0..(TimerMod - 1)
  /\ pass = 0 /\ up = 0 /\ solid = 0
  /\ level \in BOOLEAN /\ early = level
  /\ down \in IF level THEN 0..(HwOff - 1) ELSE {0}

Next ==
  \/ ReadButton \/ FirstPress \/ Released \/ TestHold \/ PollCtrlC \/ DelayEnds
  \/ Tick \/ Toggle

Spec == Init /\ [][Next]_vars

-----------------------------------------------------------------------------
\* The command accepts only after hold_ms in which the button was never up for
\* longer than one pass of the loop ("held continuously", lines 46-55, up to
\* what polling can see), also when the counter wraps in between.
NoShortPress == pc = "accepted" => solid >= Hold

\* A press made while the command waits is accepted before the hardware reads
\* it as a request to cut the power (the point of the 10-second patch).
AcceptedBeforeCut == pc = "cut" => early

-----------------------------------------------------------------------------
\* The inductive invariant behind both.

Types ==
  /\ pc \in {"read", "judge", "test", "poll", "delay", "accepted", "cancelled", "cut"}
  /\ pressed \in BOOLEAN /\ pressing \in BOOLEAN
  /\ level \in BOOLEAN /\ early \in BOOLEAN
  /\ start \in 0..TimerMod - 1 /\ now \in 0..TimerMod - 1
  /\ pass \in 0..MaxPeriod /\ down \in Nat /\ up \in Nat /\ solid \in Nat

\* A hold is being measured; the last sample may be about to end or to begin it.
Measuring == pressing /\ ~(pc = "judge" /\ ~pressed)
AboutToPress == pc = "judge" /\ pressed

\* A release is forgotten only while no sample has come since.
ReleaseSeen ==
  /\ level => up = 0
  /\ ~level => up <= pass \/ ~(Measuring \/ AboutToPress)

\* What is measured is not longer than what the button was held.
MeasuresHold == Measuring => solid >= Hold \/ GetTimer(start) <= solid

\* A hold that is measured was shorter than hold_ms when it was last tested.
NotYetAccepted ==
  pressing => GetTimer(start) <
    Hold + pass + (IF pc \in {"judge", "test"} THEN MaxPeriod ELSE 0)

\* A press is measured at most two passes after it began.
PressSeen ==
  level /\ ~early =>
    \/ Measuring /\ down <= GetTimer(start) + 2 * MaxPeriod
    \/ AboutToPress /\ down <= pass + MaxPeriod
    \/ down <= pass

IInv ==
  /\ Types /\ ReleaseSeen
  /\ pc = "test" => pressing
  /\ Waiting => MeasuresHold /\ NotYetAccepted /\ PressSeen
  /\ NoShortPress /\ AcceptedBeforeCut
=============================================================================
