--------------------------- MODULE AbUpdateProofs ---------------------------
(* Theorems about the abstract update.                                     *)
EXTENDS AbUpdate, TLAPS

TypeOK ==
  /\ active \in Pairs /\ good \in Pairs
  /\ onTrial \in BOOLEAN /\ tries \in Nat

\* Outside a trial the board boots what was last seen working, and an update is
\* started at most MaxTries times, for any set of pairs.
THEOREM GoodOutsideTrials ==
  ASSUME MaxTries \in Nat
  PROVE  Spec => []GoodUnlessOnTrial
<1> DEFINE Calm == ~onTrial => active = good /\ tries = 0
           Inv == TypeOK /\ Calm /\ tries <= MaxTries
<1>1. Init => Inv
  <2> SUFFICES ASSUME Init PROVE Inv
    OBVIOUS
  <2>1. tries \in Nat /\ tries = 0 /\ tries <= MaxTries BY DEF Init
  <2>2. active \in Pairs /\ good \in Pairs /\ active = good /\ onTrial \in BOOLEAN
    BY Zenon DEF Init
  <2> QED BY <2>1, <2>2 DEF TypeOK
<1>2. Inv /\ [Next]_vars => Inv'
  <2> SUFFICES ASSUME Inv, [Next]_vars PROVE Inv'
    OBVIOUS
  <2>1. /\ active' \in Pairs /\ good' \in Pairs
        /\ tries' \in Nat /\ tries' <= MaxTries
    BY DEF TypeOK, Next, Begin, Switch, Try, Confirm, GiveUp, Finish, vars
  <2>3. onTrial' \in BOOLEAN
    BY Zenon DEF TypeOK, Next, Begin, Switch, Try, Confirm, GiveUp, Finish, vars
  <2>2. Calm'
    <3>1. CASE Begin BY <3>1 DEF Begin
    <3>2. CASE Switch BY <3>2 DEF Switch
    <3>3. CASE Try BY <3>3 DEF Try
    <3>4. CASE Confirm BY <3>4 DEF Confirm, Finish
    <3>5. CASE GiveUp BY <3>5 DEF GiveUp, Finish
    <3>6. CASE UNCHANGED vars BY <3>6 DEF vars
    <3> QED BY <3>1, <3>2, <3>3, <3>4, <3>5, <3>6 DEF Next
  <2> QED BY <2>1, <2>2, <2>3 DEF TypeOK
<1>3. Inv => GoodUnlessOnTrial BY DEF GoodUnlessOnTrial
<1> QED BY <1>1, <1>2, <1>3, PTL DEF Spec

=============================================================================
