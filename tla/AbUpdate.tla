------------------------------ MODULE AbUpdate ------------------------------
(***************************************************************************)
(* What the A/B boot logic promises: an update is tried a limited number   *)
(* of times and is then either confirmed or undone, and nothing but a      *)
(* confirmed pair of slots boots outside a trial.                          *)
(***************************************************************************)
EXTENDS Naturals

CONSTANTS Pairs,    \* the pairs of a kernel slot and a root file system slot
          MaxTries  \* how often an update is started before it is undone

VARIABLES active,   \* the pair the next reset boots
          good,     \* the pair last seen working
          onTrial,  \* an update is awaiting confirmation
          tries     \* how often it was started

vars == <<active, good, onTrial, tries>>

Init ==
  /\ active \in Pairs /\ good = active
  /\ onTrial = FALSE /\ tries = 0

\* First the trial is declared, then the pair is switched.
Begin ==
  /\ ~onTrial
  /\ onTrial' = TRUE
  /\ UNCHANGED <<active, good, tries>>

Switch ==
  /\ onTrial /\ tries = 0
  /\ active' \in Pairs
  /\ UNCHANGED <<good, onTrial, tries>>

Try ==
  /\ onTrial /\ tries < MaxTries
  /\ tries' = tries + 1
  /\ UNCHANGED <<active, good, onTrial>>

Finish == onTrial' = FALSE /\ tries' = 0

Confirm ==
  /\ onTrial
  /\ good' = active
  /\ Finish /\ UNCHANGED active

GiveUp ==
  /\ onTrial
  /\ active' = good
  /\ Finish /\ UNCHANGED good

Next == Begin \/ Switch \/ Try \/ Confirm \/ GiveUp

Spec == Init /\ [][Next]_vars

-----------------------------------------------------------------------------
\* Outside a trial the board boots the pair last seen working, and a trial
\* never exceeds its tries.
GoodUnlessOnTrial ==
  /\ ~onTrial => active = good /\ tries = 0
  /\ tries <= MaxTries

=============================================================================
