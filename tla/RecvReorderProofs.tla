-------------------------- MODULE RecvReorderProofs --------------------------
(***************************************************************************)
(* Theorems about RecvReorder, for any window, modulus and peer; and that  *)
(* on one core a peer's frames go up in their order, for any window and    *)
(* lag that leave room to compare sequence numbers.                        *)
(***************************************************************************)
EXTENDS RecvReorder, SequenceTheorems, WellFoundedInduction, TLAPS

LEMMA InvInit == Init => IInv
BY DEF Init, IInv, NothingToCancelFor, NoStuckFrame, CancelledIsQuiet

LEMMA InvNext == IInv /\ [Next]_vars => IInv'
<1> SUFFICES ASSUME IInv, [Next]_vars PROVE IInv'
  OBVIOUS
<1>a. armed \in BOOLEAN /\ handler \in BOOLEAN /\ waiting \in BOOLEAN
  BY DEF IInv
<1>b. NothingToCancelFor /\ NoStuckFrame /\ CancelledIsQuiet
  BY DEF IInv
<1>c. Smp \in BOOLEAN BY ReorderAssumption
<1> USE DEF ctrl, timer, peer
<1>1. ASSUME NEW f \in 0..MaxFrame, NEW l \in 0..MaxFrame, Arrive(f, l) PROVE IInv'
  <2>0. handler' \in BOOLEAN /\ waiting' \in BOOLEAN /\ armed' \in BOOLEAN
    BY <1>a, <1>1 DEF Arrive
  <2>1. NothingToCancelFor' BY <1>b, <1>1 DEF Arrive, NothingToCancelFor, PeerSends
  <2>2. NoStuckFrame' BY <1>a, <1>b, <1>1 DEF Arrive, NoStuckFrame, NothingToCancelFor
  <2>3. CancelledIsQuiet' BY <1>b, <1>c, <1>1 DEF Arrive, CancelledIsQuiet, PeerSends
  <2> QED BY <2>0, <2>1, <2>2, <2>3 DEF IInv
<1>2. ASSUME NEW l \in 0..MaxFrame, Bar(l) PROVE IInv'
  <2>0. handler' \in BOOLEAN /\ waiting' \in BOOLEAN /\ armed' \in BOOLEAN
    BY <1>a, <1>2 DEF Bar
  <2>1. NothingToCancelFor' BY <1>b, <1>2 DEF Bar, NothingToCancelFor, PeerSends
  <2>2. NoStuckFrame' BY <1>a, <1>b, <1>2 DEF Bar, NoStuckFrame, NothingToCancelFor
  <2>3. CancelledIsQuiet' BY <1>b, <1>c, <1>2 DEF Bar, CancelledIsQuiet, PeerSends
  <2> QED BY <2>0, <2>1, <2>2, <2>3 DEF IInv
<1>3. ASSUME NEW l \in 0..MaxFrame, Respond(l) PROVE IInv'
  <2>0. handler' \in BOOLEAN /\ waiting' \in BOOLEAN /\ armed' \in BOOLEAN
    BY <1>a, <1>3 DEF Respond
  <2>1. NothingToCancelFor' BY <1>b, <1>3 DEF Respond, NothingToCancelFor, RxAlone
  <2>2. NoStuckFrame' BY <1>a, <1>b, <1>3 DEF Respond, NoStuckFrame, NothingToCancelFor
  <2>3. CancelledIsQuiet' BY <1>b, <1>c, <1>3 DEF Respond, CancelledIsQuiet, RxAlone
  <2> QED BY <2>0, <2>1, <2>2, <2>3 DEF IInv
<1>4. ASSUME Direct PROVE IInv'
  <2>0. handler' \in BOOLEAN /\ waiting' \in BOOLEAN /\ armed' \in BOOLEAN
    BY <1>a, <1>4 DEF Direct
  <2>1. NothingToCancelFor' BY <1>b, <1>4 DEF Direct, NothingToCancelFor
  <2>2. NoStuckFrame' BY <1>a, <1>b, <1>4 DEF Direct, NoStuckFrame, NothingToCancelFor
  <2>3. CancelledIsQuiet' BY <1>b, <1>c, <1>4 DEF Direct, CancelledIsQuiet
  <2> QED BY <2>0, <2>1, <2>2, <2>3 DEF IInv
<1>5. ASSUME AfterDirect PROVE IInv'
  <2>0. handler' \in BOOLEAN /\ waiting' \in BOOLEAN /\ armed' \in BOOLEAN
    BY <1>a, <1>5 DEF AfterDirect
  <2>1. NothingToCancelFor' BY <1>b, <1>5 DEF AfterDirect, NothingToCancelFor
  <2>2. NoStuckFrame' BY <1>a, <1>b, <1>5 DEF AfterDirect, NoStuckFrame, NothingToCancelFor
  <2>3. CancelledIsQuiet' BY <1>b, <1>c, <1>5 DEF AfterDirect, CancelledIsQuiet
  <2> QED BY <2>0, <2>1, <2>2, <2>3 DEF IInv
<1>6. ASSUME TakeLock PROVE IInv'
  <2>0. handler' \in BOOLEAN /\ waiting' \in BOOLEAN /\ armed' \in BOOLEAN
    BY <1>a, <1>6 DEF TakeLock
  <2>1. NothingToCancelFor' BY <1>b, <1>6 DEF TakeLock, NothingToCancelFor
  <2>2. NoStuckFrame' BY <1>a, <1>b, <1>6 DEF TakeLock, NoStuckFrame, NothingToCancelFor
  <2>3. CancelledIsQuiet' BY <1>b, <1>c, <1>6 DEF TakeLock, CancelledIsQuiet
  <2> QED BY <2>0, <2>1, <2>2, <2>3 DEF IInv
<1>7. ASSUME DropDuplicate PROVE IInv'
  <2>0. handler' \in BOOLEAN /\ waiting' \in BOOLEAN /\ armed' \in BOOLEAN
    BY <1>a, <1>7 DEF DropDuplicate
  <2>1. NothingToCancelFor' BY <1>b, <1>7 DEF DropDuplicate, NothingToCancelFor
  <2>2. NoStuckFrame' BY <1>a, <1>b, <1>7 DEF DropDuplicate, NoStuckFrame, NothingToCancelFor
  <2>3. CancelledIsQuiet' BY <1>b, <1>c, <1>7 DEF DropDuplicate, CancelledIsQuiet
  <2> QED BY <2>0, <2>1, <2>2, <2>3 DEF IInv
<1>8. ASSUME Enqueue PROVE IInv'
  <2>0. handler' \in BOOLEAN /\ waiting' \in BOOLEAN /\ armed' \in BOOLEAN
    BY <1>a, <1>8 DEF Enqueue
  <2>1. NothingToCancelFor' BY <1>b, <1>8 DEF Enqueue, NothingToCancelFor
  <2>2. NoStuckFrame' BY <1>a, <1>b, <1>8 DEF Enqueue, NoStuckFrame
  <2>3. CancelledIsQuiet' BY <1>b, <1>8 DEF Enqueue, CancelledIsQuiet
  <2> QED BY <2>0, <2>1, <2>2, <2>3 DEF IInv
<1>9. ASSUME Cancel PROVE IInv'
  <2>0. handler' \in BOOLEAN /\ waiting' \in BOOLEAN /\ armed' \in BOOLEAN
    BY <1>a, <1>9 DEF Cancel
  <2>1. NothingToCancelFor' BY <1>b, <1>9 DEF Cancel, NothingToCancelFor
  <2>2. NoStuckFrame' BY <1>a, <1>b, <1>9 DEF Cancel, NoStuckFrame, NothingToCancelFor
  <2>3. CancelledIsQuiet' BY <1>b, <1>c, <1>9 DEF Cancel, CancelledIsQuiet
  <2> QED BY <2>0, <2>1, <2>2, <2>3 DEF IInv
<1>10. ASSUME Fire PROVE IInv'
  <2>0. handler' \in BOOLEAN /\ waiting' \in BOOLEAN /\ armed' \in BOOLEAN
    BY <1>a, <1>10 DEF Fire
  <2>1. NothingToCancelFor' BY <1>b, <1>10 DEF Fire, NothingToCancelFor
  <2>2. NoStuckFrame' BY <1>a, <1>b, <1>10 DEF Fire, NoStuckFrame, NothingToCancelFor
  <2>3. CancelledIsQuiet' BY <1>b, <1>c, <1>10 DEF Fire, CancelledIsQuiet
  <2> QED BY <2>0, <2>1, <2>2, <2>3 DEF IInv
<1>11. ASSUME HandlerReturns PROVE IInv'
  <2>0. handler' \in BOOLEAN /\ waiting' \in BOOLEAN /\ armed' \in BOOLEAN
    BY <1>a, <1>11 DEF HandlerReturns
  <2>1. NothingToCancelFor' BY <1>b, <1>11 DEF HandlerReturns, NothingToCancelFor
  <2>2. NoStuckFrame' BY <1>a, <1>b, <1>11 DEF HandlerReturns, NoStuckFrame, NothingToCancelFor
  <2>3. CancelledIsQuiet' BY <1>b, <1>c, <1>11 DEF HandlerReturns, CancelledIsQuiet
  <2> QED BY <2>0, <2>1, <2>2, <2>3 DEF IInv
<1>12. ASSUME Handler PROVE IInv'
  <2>0. handler' \in BOOLEAN /\ waiting' \in BOOLEAN /\ armed' \in BOOLEAN
    BY <1>a, <1>12 DEF Handler
  <2>1. NothingToCancelFor' BY <1>b, <1>12 DEF Handler, NothingToCancelFor
  <2>2. NoStuckFrame' BY <1>a, <1>b, <1>12 DEF Handler, NoStuckFrame
  <2>3. CancelledIsQuiet' BY <1>b, <1>12 DEF Handler, CancelledIsQuiet
  <2> QED BY <2>0, <2>1, <2>2, <2>3 DEF IInv
<1>13. ASSUME Reset PROVE IInv'
  <2>0. handler' \in BOOLEAN /\ waiting' \in BOOLEAN /\ armed' \in BOOLEAN
    BY <1>a, <1>13 DEF Reset
  <2>1. NothingToCancelFor' BY <1>b, <1>13 DEF Reset, NothingToCancelFor, RxAlone
  <2>2. NoStuckFrame' BY <1>a, <1>b, <1>13 DEF Reset, NoStuckFrame, NothingToCancelFor
  <2>3. CancelledIsQuiet' BY <1>b, <1>c, <1>13 DEF Reset, CancelledIsQuiet, RxAlone
  <2> QED BY <2>0, <2>1, <2>2, <2>3 DEF IInv
<1>14. ASSUME NEW accept \in BOOLEAN, Enable(accept) PROVE IInv'
  <2>0. handler' \in BOOLEAN /\ waiting' \in BOOLEAN /\ armed' \in BOOLEAN
    BY <1>a, <1>14 DEF Enable
  <2>1. NothingToCancelFor' BY <1>b, <1>14 DEF Enable, NothingToCancelFor, RxAlone
  <2>2. NoStuckFrame' BY <1>a, <1>b, <1>14 DEF Enable, NoStuckFrame, NothingToCancelFor
  <2>3. CancelledIsQuiet' BY <1>b, <1>c, <1>14 DEF Enable, CancelledIsQuiet, RxAlone
  <2> QED BY <2>0, <2>1, <2>2, <2>3 DEF IInv
<1>15. ASSUME CancelTimer PROVE IInv'
  <2>0. handler' \in BOOLEAN /\ waiting' \in BOOLEAN /\ armed' \in BOOLEAN
    BY <1>a, <1>15 DEF CancelTimer
  <2>1. NothingToCancelFor' BY <1>b, <1>15 DEF CancelTimer, NothingToCancelFor, RxAlone
  <2>2. NoStuckFrame' BY <1>a, <1>b, <1>15 DEF CancelTimer, NoStuckFrame, NothingToCancelFor
  <2>3. CancelledIsQuiet' BY <1>b, <1>c, <1>15 DEF CancelTimer, CancelledIsQuiet, RxAlone
  <2> QED BY <2>0, <2>1, <2>2, <2>3 DEF IInv
<1>16. ASSUME Flush PROVE IInv'
  <2>0. handler' \in BOOLEAN /\ waiting' \in BOOLEAN /\ armed' \in BOOLEAN
    BY <1>a, <1>16 DEF Flush
  <2>1. NothingToCancelFor' BY <1>b, <1>16 DEF Flush, NothingToCancelFor, RxAlone
  <2>2. NoStuckFrame' BY <1>a, <1>b, <1>16 DEF Flush, NoStuckFrame, NothingToCancelFor
  <2>3. CancelledIsQuiet' BY <1>b, <1>c, <1>16 DEF Flush, CancelledIsQuiet, RxAlone
  <2> QED BY <2>0, <2>1, <2>2, <2>3 DEF IInv
<1>17. ASSUME Delba PROVE IInv'
  <2>0. handler' \in BOOLEAN /\ waiting' \in BOOLEAN /\ armed' \in BOOLEAN
    BY <1>a, <1>17 DEF Delba
  <2>1. NothingToCancelFor' BY <1>b, <1>17 DEF Delba, NothingToCancelFor
  <2>2. NoStuckFrame' BY <1>a, <1>b, <1>17 DEF Delba, NoStuckFrame, NothingToCancelFor
  <2>3. CancelledIsQuiet' BY <1>b, <1>c, <1>17 DEF Delba, CancelledIsQuiet
  <2> QED BY <2>0, <2>1, <2>2, <2>3 DEF IInv
<1>18. ASSUME Unhash PROVE IInv'
  <2>0. handler' \in BOOLEAN /\ waiting' \in BOOLEAN /\ armed' \in BOOLEAN
    BY <1>a, <1>18 DEF Unhash
  <2>1. NothingToCancelFor' BY <1>b, <1>18 DEF Unhash, NothingToCancelFor, RxAlone
  <2>2. NoStuckFrame' BY <1>a, <1>b, <1>18 DEF Unhash, NoStuckFrame, NothingToCancelFor
  <2>3. CancelledIsQuiet' BY <1>b, <1>c, <1>18 DEF Unhash, CancelledIsQuiet, RxAlone
  <2> QED BY <2>0, <2>1, <2>2, <2>3 DEF IInv
<1>19. ASSUME Stop PROVE IInv'
  <2>0. handler' \in BOOLEAN /\ waiting' \in BOOLEAN /\ armed' \in BOOLEAN
    BY <1>a, <1>19 DEF Stop
  <2>1. NothingToCancelFor' BY <1>b, <1>19 DEF Stop, NothingToCancelFor
  <2>2. NoStuckFrame' BY <1>a, <1>b, <1>19 DEF Stop, NoStuckFrame, NothingToCancelFor
  <2>3. CancelledIsQuiet' BY <1>b, <1>c, <1>19 DEF Stop, CancelledIsQuiet
  <2> QED BY <2>0, <2>1, <2>2, <2>3 DEF IInv
<1>20. CASE UNCHANGED vars
  <2>1. UNCHANGED <<armed, handler, waiting, queue, rx, sta, cannotRun>>
    BY <1>20 DEF vars
  <2> QED BY <1>a, <1>b, <2>1
          DEF IInv, NothingToCancelFor, NoStuckFrame, CancelledIsQuiet
<1> QED
  BY <1>1, <1>2, <1>3, <1>4, <1>5, <1>6, <1>7, <1>8, <1>9, <1>10,
     <1>11, <1>12, <1>13, <1>14, <1>15, <1>16, <1>17, <1>18, <1>19, <1>20
  DEF Next, RxStep, TimerStep, CmdStep, FreeStep

LEMMA Invariance == Spec => []IInv
<1>1. Init => IInv BY InvInit
<1>2. IInv /\ [Next]_vars => IInv' BY InvNext
<1> QED BY <1>1, <1>2, PTL DEF Spec

\* Frames that wait for a hole have a timer, and bReorderWaiting does not lie
\* about it, although recv_indicatepkt_reorder cancels the timer after it gave the
\* lock back: on any number of cores.
THEOREM FramesHaveTimer == Spec => []NoStuckFrame
<1>1. IInv => NoStuckFrame BY DEF IInv
<1> QED BY <1>1, Invariance, PTL

\* On one core a station that rtw_free_stainfo gave back has no timer and no
\* frame.
THEOREM FreedIsQuiet == ASSUME ~Smp PROVE Spec => []FreeIsQuiet
<1>1. IInv => FreeIsQuiet BY DEF IInv, CancelledIsQuiet, FreeIsQuiet
<1> QED BY <1>1, Invariance, PTL
-----------------------------------------------------------------------------
(* Numbers: the least number of a set, induction, and rests.               *)

LEMMA Least ==
  ASSUME NEW T \in SUBSET Nat, T # {}
  PROVE  \E m \in T : \A k \in T : m <= k
<1> DEFINE R == OpToRel(<, Nat)
<1>1. IsWellFoundedOn(R, Nat) BY NatLessThanWellFounded
<1>2. PICK m \in T : \A k \in T : ~ (<<k, m>> \in R)
  <2> HIDE DEF R
  <2> QED BY <1>1, WFMin
<1>3. \A k \in T : ~ (k < m) BY <1>2 DEF OpToRel
<1>4. m \in Nat /\ \A k \in T : k \in Nat OBVIOUS
<1>5. \A k \in T : m <= k BY <1>3, <1>4
<1> QED BY <1>5

\* Induction, for a set of numbers.
LEMMA Induct ==
  ASSUME NEW T, 0 \in T, \A n \in Nat : n \in T => n + 1 \in T
  PROVE  Nat \subseteq T
<1>1. CASE Nat \ T = {} BY <1>1
<1>2. CASE Nat \ T # {}
  <2>1. PICK m \in Nat \ T : \A k \in Nat \ T : m <= k BY <1>2, Least
  <2>2. m # 0 OBVIOUS
  <2>3. m - 1 \in Nat /\ m - 1 \in T BY <2>1, <2>2
  <2>4. (m - 1) + 1 \in T BY <2>3
  <2> QED BY <2>1, <2>4
<1> QED BY <1>1, <1>2

LEMMA ModulusIs == Modulus \in Nat \ {0} /\ Window \in Nat \ {0} /\ Lag \in Nat /\ MaxFrame \in Nat
BY ReorderAssumption

LEMMA RestIs ==
  ASSUME NEW x \in Int
  PROVE  x % Modulus \in 0..Modulus - 1
BY ModulusIs

LEMMA RestUnique ==
  ASSUME NEW k \in Int, NEW r \in 0..Modulus - 1
  PROVE  (Modulus * k + r) % Modulus = r
BY ModulusIs

LEMMA RestOf ==
  ASSUME NEW x \in Int
  PROVE  x = (Modulus * (x \div Modulus)) + (x % Modulus) /\ (x \div Modulus) \in Int
BY ModulusIs

\* Adding the modulus any number of times does not change the rest.
LEMMA RestShift ==
  ASSUME NEW x \in Int, NEW k \in Int
  PROVE  (x + Modulus * k) % Modulus = x % Modulus
<1> DEFINE n == x \div Modulus
           r == x % Modulus
<1>1. n \in Int /\ r \in 0..Modulus - 1 /\ x = Modulus * n + r BY RestOf, RestIs
<1> HIDE DEF n, r
<1>2. Modulus * (n + k) = Modulus * n + Modulus * k BY <1>1, ModulusIs
<1>3. x + Modulus * k = Modulus * (n + k) + r BY <1>1, <1>2, ModulusIs
<1>4. (Modulus * (n + k) + r) % Modulus = r BY <1>1, RestUnique
<1>5. (x + Modulus * k) % Modulus = r BY <1>3, <1>4
<1> QED BY <1>5 DEF r

LEMMA RestOfSum ==
  ASSUME NEW x \in Int, NEW y \in Int
  PROVE  (SN(x) + y) % Modulus = SN(x + y)
<1> DEFINE n == x \div Modulus
           r == x % Modulus
<1>1. n \in Int /\ r \in 0..Modulus - 1 /\ x = Modulus * n + r BY RestOf, RestIs
<1>2. SN(x) = r BY DEF SN
<1> HIDE DEF n, r
<1>3. x + y = (r + y) + Modulus * n BY <1>1, ModulusIs
<1>4. ((r + y) + Modulus * n) % Modulus = (r + y) % Modulus BY <1>1, RestShift
<1> QED BY <1>2, <1>3, <1>4 DEF SN

LEMMA RestOfDifference ==
  ASSUME NEW x \in Int, NEW y \in Int
  PROVE  (SN(x) - SN(y)) % Modulus = (x - y) % Modulus
<1> DEFINE n == y \div Modulus
           r == y % Modulus
<1>1. n \in Int /\ r \in 0..Modulus - 1 /\ y = Modulus * n + r BY RestOf, RestIs
<1>2. SN(y) = r BY DEF SN
<1> HIDE DEF n, r
<1>3. SN(x) - r = SN(x) + (0 - r) /\ SN(x) \in Int BY <1>1, RestIs DEF SN
<1>4. (SN(x) + (0 - r)) % Modulus = (x + (0 - r)) % Modulus BY <1>1, RestOfSum DEF SN
<1>5. x + (0 - r) = (x - y) + Modulus * n BY <1>1, ModulusIs
<1>6. ((x - y) + Modulus * n) % Modulus = (x - y) % Modulus BY <1>1, RestShift
<1> QED BY <1>2, <1>3, <1>4, <1>5, <1>6

LEMMA SmallRest ==
  ASSUME NEW M \in Nat \ {0}, NEW d \in Int, M > 1, d < M \div 2, 0 - d < M \div 2
  PROVE  (d % M >= M \div 2) <=> d < 0
OBVIOUS

\* Frames that are less than half of the modulus apart are told apart, and in
\* their order, by their numbers.
LEMMA NumbersCompare ==
  ASSUME RoomToCompare, NEW x \in Int, NEW y \in Int,
         x <= y + Window + Lag, y <= x + Window + Lag
  PROVE  /\ SnLess(SN(x), SN(y)) <=> x < y
         /\ SN(x) = SN(y) <=> x = y
<1>1. Modulus \div 2 \in Nat /\ Modulus > 1 /\ Window + Lag < Modulus \div 2
      /\ 2 * (Modulus \div 2) <= Modulus
  BY ModulusIs DEF RoomToCompare
<1>2. x - y < Modulus \div 2 /\ 0 - (x - y) < Modulus \div 2 /\ x - y \in Int
  BY <1>1, ModulusIs
<1>3. ((x - y) % Modulus >= Modulus \div 2) <=> x - y < 0
  <2> DEFINE d == x - y
  <2> HIDE DEF d
  <2>1. d \in Int /\ d < Modulus \div 2 /\ 0 - d < Modulus \div 2 BY <1>2 DEF d
  <2>2. (d % Modulus >= Modulus \div 2) <=> d < 0 BY <1>1, <2>1, ModulusIs, SmallRest
  <2> QED BY <2>2 DEF d
<1>4. SnLess(SN(x), SN(y)) <=> x - y < 0 BY <1>3, RestOfDifference DEF SnLess
<1>5. ASSUME SN(x) = SN(y) PROVE x = y
  <2>1. SN(x) \in Int /\ SN(x) - SN(y) = 0 BY <1>5, RestIs DEF SN
  <2>2. (x - y) % Modulus = 0 % Modulus BY <2>1, RestOfDifference
  <2>3. ~(x - y < 0)
    <3>1. 0 % Modulus = 0 BY ModulusIs
    <3> QED BY <1>1, <1>3, <2>2, <3>1, ModulusIs
  <2>4. (y - x) % Modulus = 0 % Modulus
    <3>1. SN(y) - SN(x) = 0 BY <2>1, <1>5
    <3> QED BY <3>1, RestOfDifference
  <2>5. ((y - x) % Modulus >= Modulus \div 2) <=> y - x < 0
    <3> DEFINE d == y - x
    <3> HIDE DEF d
    <3>1. d \in Int /\ d < Modulus \div 2 /\ 0 - d < Modulus \div 2 BY <1>2 DEF d
    <3>2. (d % Modulus >= Modulus \div 2) <=> d < 0 BY <1>1, <3>1, ModulusIs, SmallRest
    <3> QED BY <3>2 DEF d
  <2>6. ~(y - x < 0)
    <3>1. 0 % Modulus = 0 BY ModulusIs
    <3> QED BY <1>1, <2>4, <2>5, <3>1, ModulusIs
  <2> QED BY <2>3, <2>6
<1> QED BY <1>4, <1>5

-----------------------------------------------------------------------------
(* What the operators on the queue return.                                 *)

Frame == 0..MaxFrame
Number == (0..Modulus - 1) \union {Unset}

LEMMA SNType == \A f \in Int : SN(f) \in 0..Modulus - 1
BY RestIs DEF SN

\* The place of a frame is the first at which a frame is not less.
LEMMA BeforeIs ==
  ASSUME NEW q \in Seq(Frame), NEW f
  PROVE  LET k == Before(q, f) IN
         /\ k \in 0..Len(q)
         /\ \A i \in 1..k : SnLess(SN(q[i]), SN(f))
         /\ k < Len(q) => ~SnLess(SN(q[k + 1]), SN(f))
<1> DEFINE P(k) == /\ \A i \in 1..k : SnLess(SN(q[i]), SN(f))
                   /\ k < Len(q) => ~SnLess(SN(q[k + 1]), SN(f))
           T == {k \in 0..Len(q) : k < Len(q) => ~SnLess(SN(q[k + 1]), SN(f))}
<1>1. Len(q) \in Nat /\ Len(q) \in T BY LenProperties
<1>2. PICK m \in T : \A k \in T : m <= k
  <2>1. T \in SUBSET Nat /\ T # {} BY <1>1
  <2> HIDE DEF T
  <2> QED BY <2>1, Least
<1>3. \A i \in 1..m : SnLess(SN(q[i]), SN(f))
  <2> SUFFICES ASSUME NEW i \in 1..m PROVE SnLess(SN(q[i]), SN(f))
    OBVIOUS
  <2>1. m \in 0..Len(q) /\ i - 1 \in 0..Len(q) /\ i - 1 < Len(q) /\ ~(m <= i - 1) BY <1>1, <1>2
  <2>2. i - 1 \notin T BY <1>2, <2>1
  <2>3. SnLess(SN(q[(i - 1) + 1]), SN(f)) BY <2>1, <2>2
  <2>4. (i - 1) + 1 = i OBVIOUS
  <2> QED BY <2>3, <2>4
<1>4. m \in 0..Len(q) /\ P(m) BY <1>2, <1>3
<1>5. Before(q, f) = CHOOSE k \in 0..Len(q) : P(k) BY DEF Before
<1> HIDE DEF P
<1>6. Before(q, f) \in 0..Len(q) /\ P(Before(q, f)) BY <1>4, <1>5
<1> QED BY <1>6 DEF P

\* InsertAt, place by place.
LEMMA InsertAtIs ==
  ASSUME NEW q \in Seq(Frame), NEW k \in 0..Len(q), NEW f \in Frame
  PROVE  LET r == InsertAt(q, k, f) IN
         /\ r \in Seq(Frame) /\ Len(r) = Len(q) + 1
         /\ \A i \in 1..Len(r) :
              r[i] = IF i <= k THEN q[i] ELSE IF i = k + 1 THEN f ELSE q[i - 1]
<1> DEFINE a == SubSeq(q, 1, k)
           b == SubSeq(q, k + 1, Len(q))
           c == a \o <<f>>
<1>1. Len(q) \in Nat /\ k \in Nat /\ \A i \in 1..Len(q) : q[i] \in Frame
  BY LenProperties, ElementOfSeq
<1>2. a \in Seq(Frame) /\ Len(a) = k /\ \A i \in 1..k : a[i] = q[i]
  <2>1. \A i \in 1..k : q[i] \in Frame BY <1>1
  <2> QED BY <1>1, <2>1, SubSeqProperties
<1>3. b \in Seq(Frame) /\ Len(b) = Len(q) - k /\ \A i \in 1..Len(q) - k : b[i] = q[k + i]
  <2>1. \A i \in k + 1..Len(q) : q[i] \in Frame BY <1>1
  <2>2. /\ b \in Seq(Frame)
        /\ Len(b) = IF k + 1 <= Len(q) THEN Len(q) - (k + 1) + 1 ELSE 0
        /\ \A i \in 1..Len(q) - (k + 1) + 1 : b[i] = q[(k + 1) + i - 1]
    BY <1>1, <2>1, SubSeqProperties
  <2> QED BY <1>1, <2>2
<1> HIDE DEF a, b
<1>4. <<f>> \in Seq(Frame) /\ Len(<<f>>) = 1 /\ <<f>>[1] = f OBVIOUS
<1>5. /\ c \in Seq(Frame) /\ Len(c) = k + 1
      /\ \A i \in 1..k + 1 : c[i] = IF i <= k THEN q[i] ELSE f
  <2>1. /\ c \in Seq(Frame) /\ Len(c) = Len(a) + Len(<<f>>)
        /\ \A i \in 1..Len(a) + Len(<<f>>) : c[i] = IF i <= Len(a) THEN a[i] ELSE <<f>>[i - Len(a)]
    BY <1>2, <1>4, ConcatProperties
  <2> QED BY <1>1, <1>2, <1>4, <2>1
<1> HIDE DEF c
<1>6. InsertAt(q, k, f) = c \o b BY DEF InsertAt, a, b, c
<1>7. /\ c \o b \in Seq(Frame) /\ Len(c \o b) = Len(c) + Len(b)
      /\ \A i \in 1..Len(c) + Len(b) : (c \o b)[i] = IF i <= Len(c) THEN c[i] ELSE b[i - Len(c)]
  BY <1>3, <1>5, ConcatProperties
<1> DEFINE r == InsertAt(q, k, f)
<1>8. r \in Seq(Frame) /\ Len(r) = Len(q) + 1
  BY <1>1, <1>3, <1>5, <1>6, <1>7
<1>9. ASSUME NEW i \in 1..Len(r)
      PROVE  r[i] = IF i <= k THEN q[i] ELSE IF i = k + 1 THEN f ELSE q[i - 1]
  <2>0. i \in 1..Len(q) + 1 /\ i \in 1..Len(c) + Len(b) BY <1>1, <1>3, <1>5, <1>8
  <2>1. r[i] = IF i <= k + 1 THEN c[i] ELSE b[i - (k + 1)]
    BY <1>5, <1>6, <1>7, <2>0
  <2>2. CASE i <= k + 1 BY <1>1, <1>5, <2>0, <2>1, <2>2
  <2>3. CASE i > k + 1
    <3>1. i - (k + 1) \in 1..Len(q) - k BY <1>1, <2>0, <2>3
    <3>2. b[i - (k + 1)] = q[k + (i - (k + 1))] BY <1>3, <3>1
    <3>3. k + (i - (k + 1)) = i - 1 BY <1>1, <2>0
    <3> QED BY <1>1, <2>0, <2>1, <2>3, <3>2, <3>3
  <2> QED BY <1>1, <2>0, <2>2, <2>3
<1> QED BY <1>8, <1>9

\* The starts of the window that recv_indicatepkts_in_order goes through.
NextStart(s, n) == IF s = n THEN (s + 1) % Modulus ELSE s

LEMMA StartsIs ==
  ASSUME NEW q \in Seq(Frame), NEW w \in Number
  PROVE  LET s == Starts(q, w) IN
         /\ s[0] = w
         /\ \A k \in 1..Len(q) : s[k] = NextStart(s[k - 1], SN(q[k]))
         /\ \A k \in 0..Len(q) : s[k] \in Number
<1> DEFINE Runs(s, n) == s = [k \in 0..n |-> IF k = 0 THEN w ELSE NextStart(s[k - 1], SN(q[k]))]
           T == {n \in Nat : \E s : Runs(s, n)}
<1>1. Len(q) \in Nat BY LenProperties
<1>2. Nat \subseteq T
  <2>1. 0 \in T
    <3>1. Runs([k \in 0..0 |-> w], 0) OBVIOUS
    <3> QED BY <3>1
  <2>2. ASSUME NEW n \in Nat, n \in T PROVE n + 1 \in T
    <3>1. PICK s : Runs(s, n) BY <2>2
    <3> DEFINE t == [k \in 0..n + 1 |-> IF k = n + 1 THEN NextStart(s[n], SN(q[n + 1])) ELSE s[k]]
    <3>2. \A k \in 0..n : s[k] = IF k = 0 THEN w ELSE NextStart(s[k - 1], SN(q[k])) BY <3>1
    <3>3. \A k \in 0..n : t[k] = s[k] OBVIOUS
    <3>4. t[n + 1] = NextStart(s[n], SN(q[n + 1])) OBVIOUS
    <3>5. ASSUME NEW k \in 0..n + 1
          PROVE  t[k] = IF k = 0 THEN w ELSE NextStart(t[k - 1], SN(q[k]))
      <4> HIDE DEF t
      <4>1. CASE k = n + 1
        <5>1. n \in 0..n /\ k - 1 = n BY <4>1
        <5>2. t[k - 1] = s[n] BY <3>3, <5>1
        <5> QED BY <3>4, <4>1, <5>2
      <4>2. CASE k = 0
        <5>1. k \in 0..n BY <4>2
        <5> QED BY <3>2, <3>3, <4>2, <5>1
      <4>3. CASE k \in 1..n
        <5>1. k \in 0..n /\ k - 1 \in 0..n /\ k # 0 BY <4>3
        <5>2. t[k] = NextStart(s[k - 1], SN(q[k])) BY <3>2, <3>3, <5>1
        <5> QED BY <3>3, <5>1, <5>2
      <4> QED BY <4>1, <4>2, <4>3
    <3>6. Runs(t, n + 1)
      <4>1. t = [k \in 0..n + 1 |-> t[k]] OBVIOUS
      <4> HIDE DEF t
      <4> QED BY <3>5, <4>1
    <3> HIDE DEF Runs, t
    <3> QED BY <3>6
  <2> HIDE DEF T
  <2> QED BY <2>1, <2>2, Induct
<1> DEFINE s == Starts(q, w)
<1>3. Runs(s, Len(q))
  <2>1. \E f : Runs(f, Len(q))
    <3>1. Len(q) \in T BY <1>1, <1>2
    <3> QED BY <3>1
  <2>2. s = CHOOSE f : Runs(f, Len(q)) BY DEF Starts, NextStart
  <2> HIDE DEF Runs, s
  <2> QED BY <2>1, <2>2
<1> HIDE DEF s
<1>4. \A k \in 0..Len(q) : s[k] = IF k = 0 THEN w ELSE NextStart(s[k - 1], SN(q[k]))
  BY <1>3
<1>5. s[0] = w BY <1>1, <1>4
<1>6. \A k \in 1..Len(q) : s[k] = NextStart(s[k - 1], SN(q[k])) BY <1>4
<1>7. \A k \in 0..Len(q) : s[k] \in Number
  <2> DEFINE U == {n \in Nat : n <= Len(q) => s[n] \in Number}
  <2>1. 0 \in U BY <1>5
  <2>2. ASSUME NEW n \in Nat, n \in U PROVE n + 1 \in U
    <3> SUFFICES ASSUME n + 1 <= Len(q) PROVE s[n + 1] \in Number
      OBVIOUS
    <3>1. s[n] \in Number /\ s[n] \in Int BY <1>1, <2>2, ModulusIs DEF Number, Unset
    <3>2. s[n + 1] = NextStart(s[n], SN(q[n + 1]))
      <4>1. n + 1 \in 1..Len(q) /\ (n + 1) - 1 = n BY <1>1
      <4> QED BY <1>6, <4>1
    <3>3. (s[n] + 1) % Modulus \in Number
      <4> DEFINE x == s[n] + 1
      <4>1. x \in Int BY <3>1
      <4> HIDE DEF x
      <4>2. x % Modulus \in 0..Modulus - 1 BY <4>1, RestIs
      <4> QED BY <4>2 DEF x, Number
    <3> QED BY <3>1, <3>2, <3>3 DEF NextStart
  <2> HIDE DEF U
  <2>3. Nat \subseteq U BY <2>1, <2>2, Induct
  <2> QED BY <1>1, <2>3 DEF U
<1> QED BY <1>5, <1>6, <1>7 DEF s

\* Frames go up until one is ahead of the window.
LEMMA ReadyIs ==
  ASSUME NEW q \in Seq(Frame), NEW s
  PROVE  LET k == Ready(q, s) IN
         /\ k \in 0..Len(q)
         /\ \A i \in 1..k : ~SnLess(s[i - 1], SN(q[i]))
         /\ k < Len(q) => SnLess(s[k], SN(q[k + 1]))
<1> DEFINE P(k) == /\ \A i \in 1..k : ~SnLess(s[i - 1], SN(q[i]))
                   /\ k < Len(q) => SnLess(s[k], SN(q[k + 1]))
           T == {k \in 0..Len(q) : k < Len(q) => SnLess(s[k], SN(q[k + 1]))}
<1>1. Len(q) \in Nat /\ Len(q) \in T BY LenProperties
<1>2. PICK m \in T : \A k \in T : m <= k
  <2>1. T \in SUBSET Nat /\ T # {} BY <1>1
  <2> HIDE DEF T
  <2> QED BY <2>1, Least
<1>3. \A i \in 1..m : ~SnLess(s[i - 1], SN(q[i]))
  <2> SUFFICES ASSUME NEW i \in 1..m PROVE ~SnLess(s[i - 1], SN(q[i]))
    OBVIOUS
  <2>1. m \in 0..Len(q) /\ i - 1 \in 0..Len(q) /\ i - 1 < Len(q) /\ ~(m <= i - 1) BY <1>1, <1>2
  <2>2. i - 1 \notin T BY <1>2, <2>1
  <2>3. ~SnLess(s[i - 1], SN(q[(i - 1) + 1])) BY <2>1, <2>2
  <2>4. (i - 1) + 1 = i OBVIOUS
  <2> QED BY <2>3, <2>4
<1>4. m \in 0..Len(q) /\ P(m) BY <1>2, <1>3
<1>5. Ready(q, s) = CHOOSE k \in 0..Len(q) : P(k) BY DEF Ready
<1> HIDE DEF P
<1>6. Ready(q, s) \in 0..Len(q) /\ P(Ready(q, s)) BY <1>4, <1>5
<1> QED BY <1>6 DEF P


\* What recv_indicatepkts_in_order hands up and leaves.
LEMMA IndicateIs ==
  ASSUME NEW q \in Seq(Frame), NEW w \in Number, Indicate(q, w)
  PROVE  LET s == Starts(q, w)
             k == Ready(q, s)
         IN /\ iseq' = s[k]
            /\ queue' \in Seq(Frame) /\ Len(queue') = Len(q) - k
            /\ \A i \in 1..Len(q) - k : queue'[i] = q[k + i]
            /\ last' = IF k = 0 THEN last ELSE q[k]
            /\ again' = (again \/ \E i \in 1..k : q[i] <= IF i = 1 THEN last ELSE q[i - 1])
<1> DEFINE s == Starts(q, w)
           k == Ready(q, s)
           up == SubSeq(q, 1, k)
           left == SubSeq(q, k + 1, Len(q))
<1>1. iseq' = s[k] /\ queue' = left /\ HandUp(up) BY DEF Indicate
<1>2. k \in 0..Len(q) BY ReadyIs
<1> HIDE DEF s, k
<1>3. Len(q) \in Nat /\ k \in Nat /\ \A i \in 1..Len(q) : q[i] \in Frame
  BY <1>2, LenProperties, ElementOfSeq
<1>4. up \in Seq(Frame) /\ Len(up) = k /\ \A i \in 1..k : up[i] = q[i]
  <2>1. \A i \in 1..k : q[i] \in Frame BY <1>2, <1>3
  <2> QED BY <1>2, <1>3, <2>1, SubSeqProperties
<1>5. left \in Seq(Frame) /\ Len(left) = Len(q) - k /\ \A i \in 1..Len(q) - k : left[i] = q[k + i]
  <2>1. \A i \in k + 1..Len(q) : q[i] \in Frame BY <1>2, <1>3
  <2>2. /\ left \in Seq(Frame)
        /\ Len(left) = IF k + 1 <= Len(q) THEN Len(q) - (k + 1) + 1 ELSE 0
        /\ \A i \in 1..Len(q) - (k + 1) + 1 : left[i] = q[(k + 1) + i - 1]
    BY <1>2, <1>3, <2>1, SubSeqProperties
  <2> QED BY <1>2, <1>3, <2>2
<1> HIDE DEF up, left
<1>6. last' = IF k = 0 THEN last ELSE q[k]
  <2>1. up = <<>> <=> k = 0 BY <1>3, <1>4, EmptySeq
  <2>2. last' = IF up = <<>> THEN last ELSE up[Len(up)] BY <1>1 DEF HandUp
  <2>3. k # 0 => up[Len(up)] = q[k]
    <3>1. k # 0 => k \in 1..k BY <1>3
    <3> QED BY <1>4, <3>1
  <2> QED BY <2>1, <2>2, <2>3
<1>7. again' = (again \/ \E i \in 1..k : q[i] <= IF i = 1 THEN last ELSE q[i - 1])
  <2>1. again' = (again \/ \E i \in 1..Len(up) : up[i] <= IF i = 1 THEN last ELSE up[i - 1])
    BY <1>1 DEF HandUp
  <2>2. \A i \in 1..k : i # 1 => i - 1 \in 1..k BY <1>3
  <2>3. \A i \in 1..k : (up[i] <= IF i = 1 THEN last ELSE up[i - 1])
                    <=> (q[i] <= IF i = 1 THEN last ELSE q[i - 1])
    BY <1>4, <2>2
  <2>4. (\E i \in 1..Len(up) : up[i] <= IF i = 1 THEN last ELSE up[i - 1])
        <=> \E i \in 1..k : q[i] <= IF i = 1 THEN last ELSE q[i - 1]
    BY <1>4, <2>3
  <2> QED BY <2>1, <2>4
<1> QED BY <1>1, <1>5, <1>6, <1>7 DEF s, k

-----------------------------------------------------------------------------
(* Types.                                                                  *)

LEMMA IndicateType ==
  ASSUME NEW q \in Seq(Frame), NEW w \in Number, Indicate(q, w), last \in -1..MaxFrame
  PROVE  /\ iseq' \in Number /\ queue' \in Seq(Frame)
         /\ last' \in -1..MaxFrame /\ again' \in BOOLEAN
<1> DEFINE s == Starts(q, w)
           k == Ready(q, s)
<1>1. k \in 0..Len(q) BY ReadyIs
<1>2. \A i \in 0..Len(q) : s[i] \in Number BY StartsIs
<1>3. /\ iseq' = s[k] /\ queue' \in Seq(Frame)
      /\ last' = IF k = 0 THEN last ELSE q[k]
      /\ again' = (again \/ \E i \in 1..k : q[i] <= IF i = 1 THEN last ELSE q[i - 1])
  BY IndicateIs
<1> HIDE DEF s, k
<1>4. k # 0 => q[k] \in Frame
  <2>1. Len(q) \in Nat /\ \A i \in 1..Len(q) : q[i] \in Frame BY LenProperties, ElementOfSeq
  <2>2. k # 0 => k \in 1..Len(q) BY <1>1, <2>1
  <2> QED BY <2>1, <2>2
<1>5. iseq' \in Number BY <1>1, <1>2, <1>3
<1>6. last' \in -1..MaxFrame BY <1>3, <1>4, ModulusIs DEF Frame
<1>7. again' \in BOOLEAN BY <1>3
<1> QED BY <1>3, <1>5, <1>6, <1>7

LEMMA CheckType ==
  ASSUME NEW w \in Number, NEW n \in 0..Modulus - 1
  PROVE  Check(w, n).start \in Number /\ Check(w, n).ok \in BOOLEAN
<1> DEFINE start == IF w = Unset THEN n ELSE w
<1>1. start \in Number /\ start \in Int BY ModulusIs DEF Number, Unset
<1>2. (start + 1) % Modulus \in Number
  <2> DEFINE x == start + 1
  <2>1. x \in Int BY <1>1
  <2> HIDE DEF x
  <2>2. x % Modulus \in 0..Modulus - 1 BY <2>1, RestIs
  <2> QED BY <2>2 DEF x, Number
<1>3. (n + 1 - Window) % Modulus \in Number
  <2> DEFINE x == n + 1 - Window
  <2>1. x \in Int BY ModulusIs
  <2> HIDE DEF x
  <2>2. x % Modulus \in 0..Modulus - 1 BY <2>1, RestIs
  <2> QED BY <2>2 DEF x, Number
<1> QED BY <1>1, <1>2, <1>3 DEF Check

LEMMA TypeInit == Init => TypeOK
<1> SUFFICES ASSUME Init PROVE TypeOK
  OBVIOUS
<1>1. queue \in Seq(0..MaxFrame) BY DEF Init
<1>2. MaxAddba \in Nat BY ReorderAssumption
<1>3. cur \in 0..MaxFrame /\ low \in 0..MaxFrame + 1 /\ top \in 0..MaxFrame
      /\ last \in -1..MaxFrame /\ addbas \in 0..MaxAddba
  BY <1>2, ModulusIs DEF Init
<1>4. iseq \in (0..Modulus - 1) \union {Unset} /\ seen \in (0..Modulus - 1) \union {Unset}
  BY DEF Init
<1> QED BY <1>1, <1>3, <1>4 DEF Init, TypeOK

LEMMA TypeNext == TypeOK /\ [Next]_vars => TypeOK'
<1> SUFFICES ASSUME TypeOK, [Next]_vars PROVE TypeOK'
  OBVIOUS
<1> USE DEF ctrl, timer, peer
<1>a. \A f \in Frame : SN(f) \in Number /\ SN(f) \in 0..Modulus - 1
  <2>1. \A f \in Frame : f \in Int BY ModulusIs DEF Frame
  <2> QED BY <2>1, SNType DEF Number
<1>b. iseq \in Number /\ queue \in Seq(Frame) /\ cur \in Frame /\ last \in -1..MaxFrame
  BY DEF TypeOK, Number, Frame
<1>1. ASSUME NEW f \in 0..MaxFrame, NEW l \in 0..MaxFrame, Arrive(f, l) PROVE TypeOK'
  <2>1. SN(f) \in (0..Modulus - 1) \union {Unset} BY <1>a DEF Number, Frame
  <2>2. top' \in 0..MaxFrame /\ low' \in 0..MaxFrame + 1
    BY <1>1, ModulusIs DEF TypeOK, Arrive
  <2>3. rx' \in {"idle", "direct", "reorder"} BY <1>1 DEF Arrive
  <2> QED BY <1>1, <2>1, <2>2, <2>3 DEF TypeOK, Arrive
<1>2. ASSUME NEW l \in 0..MaxFrame, Bar(l) PROVE TypeOK'
  <2>1. SN(l) \in (0..Modulus - 1) \union {Unset} BY <1>a DEF Number, Frame
  <2>2. low' \in 0..MaxFrame + 1 BY <1>2, ModulusIs DEF Bar
  <2> QED BY <1>2, <2>1, <2>2 DEF TypeOK, Bar
<1>3. ASSUME NEW l \in 0..MaxFrame, Respond(l) PROVE TypeOK'
  <2>1. low' \in 0..MaxFrame + 1 BY <1>3, ModulusIs DEF Respond
  <2>2. addbas' \in 0..MaxAddba
    <3>1. MaxAddba \in Nat BY ReorderAssumption
    <3> QED BY <1>3, <3>1 DEF TypeOK, Respond
  <2> QED BY <1>3, <2>1, <2>2 DEF TypeOK, Respond
<1>4. ASSUME Direct PROVE TypeOK'
  <2>1. SN(cur) \in (0..Modulus - 1) \union {Unset} BY <1>a, <1>b DEF Number
  <2>2. again' \in BOOLEAN BY <1>4 DEF Direct, HandUp
  <2>3. last' \in -1..MaxFrame
    <3>1. last' = cur BY <1>4 DEF Direct, HandUp
    <3> QED BY <3>1, <1>b, ModulusIs DEF Frame
  <2> QED BY <1>4, <2>1, <2>2, <2>3 DEF TypeOK, Direct
<1>5. ASSUME AfterDirect PROVE TypeOK'
  <2>1. (iseq + 1) % Modulus \in (0..Modulus - 1) \union {Unset}
    <3> DEFINE x == iseq + 1
    <3>1. x \in Int BY <1>b, ModulusIs DEF Number, Unset
    <3> HIDE DEF x
    <3>2. x % Modulus \in 0..Modulus - 1 BY <3>1, RestIs
    <3> QED BY <3>2 DEF x
  <2> QED BY <1>5, <2>1 DEF TypeOK, AfterDirect
<1>6. ASSUME TakeLock PROVE TypeOK'
  <2>1. Check(iseq, SN(cur)).start \in (0..Modulus - 1) \union {Unset}
    <3>1. SN(cur) \in 0..Modulus - 1 BY <1>a, <1>b
    <3> QED BY <1>b, <3>1, CheckType DEF Number
  <2> QED BY <1>6, <2>1 DEF TypeOK, TakeLock
<1>7. ASSUME DropDuplicate PROVE TypeOK'
  BY <1>7 DEF TypeOK, DropDuplicate
<1>8. ASSUME Enqueue PROVE TypeOK'
  <2> DEFINE r == InsertAt(queue, Before(queue, cur), cur)
  <2>1. r \in Seq(Frame)
    <3>1. Before(queue, cur) \in 0..Len(queue) BY <1>b, BeforeIs
    <3> QED BY <1>b, <3>1, InsertAtIs
  <2>2. Indicate(r, iseq) BY <1>8 DEF Enqueue
  <2> HIDE DEF r
  <2>3. /\ iseq' \in Number /\ queue' \in Seq(Frame)
        /\ last' \in -1..MaxFrame /\ again' \in BOOLEAN
    BY <1>b, <2>1, <2>2, IndicateType
  <2>4. /\ UNCHANGED <<enable, handler, cur, seen, cmd, sta, cannotRun, peer>>
        /\ rx' \in {"cancel", "idle"} /\ waiting' \in BOOLEAN /\ armed' \in BOOLEAN
    BY <1>8 DEF Enqueue
  <2> QED BY <2>3, <2>4 DEF TypeOK, Number, Frame
<1>9. ASSUME Cancel PROVE TypeOK'
  BY ZenonT(60), <1>9 DEF TypeOK, Cancel
<1>10. ASSUME Fire PROVE TypeOK'
  <2>1. armed' \in BOOLEAN /\ handler' \in BOOLEAN BY <1>10 DEF Fire
  <2>2. UNCHANGED <<ctrl, rx, cur, seen, cmd, sta, cannotRun, peer, last, again>>
    BY <1>10 DEF Fire
  <2> QED BY <2>1, <2>2 DEF TypeOK
<1>11. ASSUME HandlerReturns PROVE TypeOK'
  <2>1. handler' \in BOOLEAN BY <1>11 DEF HandlerReturns
  <2>2. UNCHANGED <<ctrl, armed, rx, cur, seen, cmd, sta, cannotRun, peer, last, again>>
    BY <1>11 DEF HandlerReturns
  <2> QED BY <2>1, <2>2 DEF TypeOK
<1>12. ASSUME Handler PROVE TypeOK'
  <2>1. CASE queue = <<>> BY ZenonT(60), <1>12, <2>1 DEF TypeOK, Handler
  <2>2. CASE queue # <<>>
    <3>1. Indicate(queue, SN(Head(queue))) BY <1>12, <2>2 DEF Handler
    <3>2. SN(Head(queue)) \in Number
      <4>1. Head(queue) \in Frame BY <1>b, <2>2, HeadTailProperties
      <4> QED BY <1>a, <4>1
    <3>3. /\ iseq' \in Number /\ queue' \in Seq(Frame)
          /\ last' \in -1..MaxFrame /\ again' \in BOOLEAN
      BY <1>b, <3>1, <3>2, IndicateType
    <3>4. /\ UNCHANGED <<enable, rx, cur, seen, cmd, sta, cannotRun, peer>>
          /\ handler' = FALSE /\ waiting' = FALSE /\ armed' \in BOOLEAN
      BY <1>12 DEF Handler
    <3> QED BY <3>3, <3>4 DEF TypeOK, Number, Frame
  <2> QED BY <2>1, <2>2
<1>13. ASSUME Reset PROVE TypeOK'
  BY <1>13 DEF TypeOK, Reset
<1>14. ASSUME NEW accept \in BOOLEAN, Enable(accept) PROVE TypeOK'
  BY <1>14 DEF TypeOK, Enable
<1>15. ASSUME CancelTimer PROVE TypeOK'
  BY ZenonT(60), <1>15 DEF TypeOK, CancelTimer
<1>16. ASSUME Flush PROVE TypeOK'
  <2>1. queue' \in Seq(0..MaxFrame) BY <1>16 DEF Flush
  <2> QED BY <1>16, <2>1 DEF TypeOK, Flush
<1>17. ASSUME Delba PROVE TypeOK'
  <2>1. enable' \in BOOLEAN BY <1>17 DEF Delba
  <2>2. UNCHANGED <<iseq, waiting, queue, timer, rx, cur, seen, cmd, sta, cannotRun, peer,
                    last, again>>
    BY <1>17 DEF Delba
  <2> QED BY <2>1, <2>2 DEF TypeOK
<1>18. ASSUME Unhash PROVE TypeOK'
  BY <1>18 DEF TypeOK, Unhash
<1>19. ASSUME Stop PROVE TypeOK'
  BY <1>19 DEF TypeOK, Stop
<1>20. CASE UNCHANGED vars
  BY <1>20 DEF TypeOK, vars
<1> QED
  BY <1>1, <1>2, <1>3, <1>4, <1>5, <1>6, <1>7, <1>8, <1>9, <1>10,
     <1>11, <1>12, <1>13, <1>14, <1>15, <1>16, <1>17, <1>18, <1>19, <1>20
  DEF Next, RxStep, TimerStep, CmdStep, FreeStep

\* The variables keep their types: the queue holds frames, and the start of the
\* window is a sequence number or 0xFFFF, whatever modulus and window are.
THEOREM TypeCorrect == Spec => []TypeOK
<1>1. Init => TypeOK BY TypeInit
<1>2. TypeOK /\ [Next]_vars => TypeOK' BY TypeNext
<1> QED BY <1>1, <1>2, PTL DEF Spec

-----------------------------------------------------------------------------
(* What goes up in order.                                                  *)

Increasing(q) == \A i, j \in 1..Len(q) : i < j => q[i] < q[j]

\* Frames that increase from above a are as far above it as their place.
LEMMA IncreasingLength ==
  ASSUME NEW q \in Seq(Frame), Increasing(q), NEW a \in Int, NEW b \in Int, a <= b,
         \A i \in 1..Len(q) : a < q[i] /\ q[i] <= b
  PROVE  Len(q) <= b - a
<1>1. Len(q) \in Nat /\ \A i \in 1..Len(q) : q[i] \in Int
  BY LenProperties, ElementOfSeq, ModulusIs DEF Frame
<1> DEFINE T == {n \in Nat : 0 < n /\ n <= Len(q) => a + n <= q[n]}
<1>2. 0 \in T OBVIOUS
<1>3. ASSUME NEW n \in Nat, n \in T PROVE n + 1 \in T
  <2> SUFFICES ASSUME n + 1 <= Len(q) PROVE a + (n + 1) <= q[n + 1]
    OBVIOUS
  <2>1. n + 1 \in 1..Len(q) BY <1>1
  <2>2. CASE n = 0
    <3>1. a < q[n + 1] /\ q[n + 1] \in Int BY <1>1, <2>1
    <3> QED BY <2>2, <3>1
  <2>3. CASE n # 0
    <3>1. n \in 1..Len(q) BY <1>1, <2>1, <2>3
    <3>2. a + n <= q[n] BY <1>1, <1>3, <3>1
    <3>3. q[n] < q[n + 1] BY <2>1, <3>1 DEF Increasing
    <3>4. q[n] \in Int /\ q[n + 1] \in Int BY <1>1, <2>1, <3>1
    <3> QED BY <3>2, <3>3, <3>4
  <2> QED BY <2>2, <2>3
<1> HIDE DEF T
<1>4. Len(q) \in T BY <1>1, <1>2, <1>3, Induct
<1>5. CASE Len(q) = 0 BY <1>5
<1>6. CASE Len(q) # 0
  <2>1. Len(q) \in 1..Len(q) BY <1>1, <1>6
  <2>2. a + Len(q) <= q[Len(q)] BY <1>1, <1>4, <1>6 DEF T
  <2>3. q[Len(q)] <= b /\ q[Len(q)] \in Int BY <1>1, <2>1
  <2> QED BY <1>1, <2>2, <2>3
<1> QED BY <1>5, <1>6

\* The frames q can go up from a window that starts at w.
Fits(q, w) ==
  /\ Increasing(q) /\ w <= top + 1 /\ top < w + Window /\ last < w
  /\ \A i \in 1..Len(q) : last < q[i] /\ q[i] <= top /\ top < q[i] + Window + Lag

\* Where the window that starts at the frame w starts after k frames of q.
StartAfter(q, w, k) == IF k >= 1 /\ q[k] >= w THEN q[k] + 1 ELSE w

LEMMA StartAfterIs ==
  ASSUME RoomToCompare, top \in Frame, last \in -1..MaxFrame,
         NEW q \in Seq(Frame), NEW w \in 0..MaxFrame + 1, Fits(q, w),
         NEW k \in 0..Ready(q, Starts(q, SN(w)))
  PROVE  /\ Starts(q, SN(w))[k] = SN(StartAfter(q, w, k))
         /\ StartAfter(q, w, k) \in w..top + 1
<1> DEFINE s == Starts(q, SN(w))
           m == Ready(q, s)
           v(n) == StartAfter(q, w, n)
<1>0. SN(w) \in Number /\ w \in Int
  <2>1. w \in Int BY ModulusIs
  <2> QED BY <2>1, SNType DEF Number
<1>1. s[0] = SN(w) /\ \A i \in 1..Len(q) : s[i] = NextStart(s[i - 1], SN(q[i]))
  BY <1>0, StartsIs
<1>2. m \in 0..Len(q) /\ \A i \in 1..m : ~SnLess(s[i - 1], SN(q[i]))
  BY ReadyIs
<1>3. Len(q) \in Nat /\ \A i \in 1..Len(q) : q[i] \in Frame /\ q[i] \in Int
  BY LenProperties, ElementOfSeq, ModulusIs DEF Frame
<1>4. top \in Int /\ Window \in Nat /\ Lag \in Nat BY ModulusIs DEF Frame
<1>5. ASSUME NEW n \in 0..Len(q) PROVE v(n) \in w..top + 1
  <2>1. n >= 1 => n \in 1..Len(q) BY <1>3
  <2>2. n >= 1 => q[n] \in Int /\ q[n] <= top BY <1>3, <2>1 DEF Fits
  <2>3. w <= top + 1 BY DEF Fits
  <2> QED BY <1>0, <1>4, <2>2, <2>3 DEF StartAfter
<1> HIDE DEF s, m
<1> DEFINE T == {n \in Nat : n <= m => s[n] = SN(v(n))}
<1>6. 0 \in T BY <1>1 DEF StartAfter
<1>7. ASSUME NEW n \in Nat, n \in T PROVE n + 1 \in T
  <2> SUFFICES ASSUME n + 1 <= m PROVE s[n + 1] = SN(v(n + 1))
    OBVIOUS
  <2>1. n + 1 \in 1..Len(q) /\ n + 1 \in 1..m /\ (n + 1) - 1 = n /\ n \in 0..Len(q) /\ n <= m
    BY <1>2, <1>3
  <2> DEFINE x == v(n)
             y == q[n + 1]
  <2>2. s[n] = SN(x) BY <1>7, <2>1
  <2>3. x \in w..top + 1 /\ x \in Int BY <1>0, <1>4, <1>5, <2>1
  <2>4. y \in Int /\ y <= top /\ top < y + Window + Lag BY <1>3, <2>1 DEF Fits
  <2>5. x = IF n >= 1 /\ q[n] >= w THEN q[n] + 1 ELSE w BY DEF StartAfter
  <2>6. v(n + 1) = IF y >= w THEN y + 1 ELSE w BY DEF StartAfter
  <2>7. n >= 1 => q[n] < y /\ q[n] \in Int
    <3>1. n >= 1 => n \in 1..Len(q) BY <1>3, <2>1
    <3> QED BY <1>3, <2>1, <3>1 DEF Fits, Increasing
  <2>8. ~SnLess(s[n], SN(y)) /\ s[n + 1] = NextStart(s[n], SN(y)) BY <1>1, <1>2, <2>1
  <2>9. top < w + Window BY DEF Fits
  <2> HIDE DEF x, y, v
  <2>10. x <= y + Window + Lag /\ y <= x + Window + Lag
    BY <1>0, <1>4, <2>3, <2>4, <2>9
  <2>11. /\ SnLess(SN(x), SN(y)) <=> x < y
         /\ SN(x) = SN(y) <=> x = y
    BY <2>3, <2>4, <2>10, NumbersCompare
  <2>12. y <= x BY <2>2, <2>3, <2>4, <2>8, <2>11
  <2>13. (SN(x) + 1) % Modulus = SN(x + 1) BY <2>3, RestOfSum
  <2>14. s[n + 1] = IF x = y THEN SN(x + 1) ELSE SN(x)
    BY <2>2, <2>8, <2>11, <2>13 DEF NextStart
  <2>15. v(n + 1) = IF x = y THEN x + 1 ELSE x
    BY SMTT(30), <1>0, <2>3, <2>4, <2>5, <2>6, <2>7, <2>12
  <2> QED BY <2>14, <2>15
<1> HIDE DEF T
<1>8. m \in Nat /\ k \in Nat /\ k <= m BY <1>2, <1>3 DEF m, s
<1>9. k \in T BY <1>6, <1>7, <1>8, Induct
<1>10. s[k] = SN(v(k)) BY <1>8, <1>9 DEF T
<1>11. k \in 0..Len(q) BY <1>2, <1>3, <1>8
<1> QED BY <1>5, <1>10, <1>11 DEF s

\* What recv_indicatepkts_in_order does to frames in order: they go up in order, up
\* to a hole, after which the window starts at v.
LEMMA IndicateKeeps ==
  ASSUME RoomToCompare, top \in Frame, last \in -1..MaxFrame, last <= top, ~again,
         NEW q \in Seq(Frame), NEW w \in 0..MaxFrame + 1, Fits(q, w), Indicate(q, SN(w))
  PROVE  \E v \in 0..MaxFrame + 1 :
           /\ iseq' = SN(v) /\ last' < v /\ v <= top + 1 /\ top < v + Window
           /\ \A i \in 1..Len(queue') : v < queue'[i] /\ queue'[i] <= top
           /\ Increasing(queue') /\ Len(queue') < Window
           /\ ~again' /\ last <= last' /\ last' <= top
<1> DEFINE s == Starts(q, SN(w))
           k == Ready(q, s)
           v == StartAfter(q, w, k)
<1>0. SN(w) \in Number /\ w \in Int
  <2>1. w \in Int BY ModulusIs
  <2> QED BY <2>1, SNType DEF Number
<1>1. /\ iseq' = s[k]
      /\ queue' \in Seq(Frame) /\ Len(queue') = Len(q) - k
      /\ \A i \in 1..Len(q) - k : queue'[i] = q[k + i]
      /\ last' = IF k = 0 THEN last ELSE q[k]
      /\ again' = (again \/ \E i \in 1..k : q[i] <= IF i = 1 THEN last ELSE q[i - 1])
  BY <1>0, IndicateIs
<1>2. k \in 0..Len(q) /\ (k < Len(q) => SnLess(s[k], SN(q[k + 1])))
  BY ReadyIs
<1>3. Len(q) \in Nat /\ \A i \in 1..Len(q) : q[i] \in Frame /\ q[i] \in Int
  BY LenProperties, ElementOfSeq, ModulusIs DEF Frame
<1>4. top \in Int /\ Window \in Nat \ {0} /\ Lag \in Nat /\ last \in Int /\ k \in Nat /\ MaxFrame \in Nat
      /\ top <= MaxFrame
  BY <1>2, <1>3, ModulusIs DEF Frame
<1>5. s[k] = SN(v) /\ v \in w..top + 1
  <2>1. k \in 0..k BY <1>4
  <2> QED BY <2>1, StartAfterIs
<1>6. v = IF k >= 1 /\ q[k] >= w THEN q[k] + 1 ELSE w BY DEF StartAfter
<1> HIDE DEF v, k, s
<1>7. v \in Int /\ v \in 0..MaxFrame + 1 /\ w <= v /\ v <= top + 1 BY <1>0, <1>4, <1>5
<1>8. top < v + Window BY <1>0, <1>4, <1>7 DEF Fits
<1>9. k >= 1 => k \in 1..Len(q) /\ q[k] \in Int /\ q[k] <= top /\ last < q[k]
  <2>1. k >= 1 => k \in 1..Len(q) BY <1>2, <1>3
  <2> QED BY <1>3, <2>1 DEF Fits
<1>10. last' \in Int /\ last' < v /\ last <= last' /\ last' <= top
  BY SMTT(30), <1>0, <1>1, <1>4, <1>6, <1>9 DEF Fits
<1>11. ASSUME NEW i \in 1..Len(queue')
       PROVE  v < queue'[i] /\ queue'[i] <= top
  <2>1. i \in Int /\ k + i \in 1..Len(q) /\ k + 1 \in 1..Len(q) /\ k < Len(q) /\ i \in 1..Len(q) - k
    BY <1>1, <1>3, <1>4
  <2>2. queue'[i] = q[k + i] BY <1>1, <2>1
  <2>3. /\ q[k + 1] \in Int /\ q[k + 1] <= top /\ top < q[k + 1] + Window + Lag
        /\ q[k + i] \in Int /\ q[k + i] <= top
    BY <1>3, <2>1 DEF Fits
  <2>4. v < q[k + 1]
    <3> DEFINE y == q[k + 1]
    <3>1. y \in Int /\ y <= top /\ top < y + Window + Lag BY <2>3
    <3>2. SnLess(SN(v), SN(y)) BY <1>2, <1>5, <2>1
    <3> HIDE DEF y
    <3>3. v <= y + Window + Lag /\ y <= v + Window + Lag BY <1>4, <1>7, <1>8, <3>1
    <3>4. SnLess(SN(v), SN(y)) <=> v < y BY <1>7, <3>1, <3>3, NumbersCompare
    <3>5. v < y BY <3>2, <3>4
    <3> QED BY <3>5 DEF y
  <2>5. i = 1 \/ q[k + 1] < q[k + i]
    <3>1. i # 1 => k + 1 < k + i BY <1>4, <2>1
    <3> QED BY <2>1, <3>1 DEF Fits, Increasing
  <2>6. v < q[k + i] BY <1>7, <2>3, <2>4, <2>5
  <2> QED BY <2>2, <2>3, <2>6
<1>12. Increasing(queue')
  <2> SUFFICES ASSUME NEW i \in 1..Len(queue'), NEW j \in 1..Len(queue'), i < j
               PROVE  queue'[i] < queue'[j]
    BY DEF Increasing
  <2>1. k + i \in 1..Len(q) /\ k + j \in 1..Len(q) /\ k + i < k + j
        /\ i \in 1..Len(q) - k /\ j \in 1..Len(q) - k
    BY <1>1, <1>3, <1>4
  <2>2. queue'[i] = q[k + i] /\ queue'[j] = q[k + j] BY <1>1, <2>1
  <2> QED BY <2>1, <2>2 DEF Fits, Increasing
<1>13. Len(queue') < Window
  <2>0. Len(queue') \in Nat BY <1>1, LenProperties
  <2>1. CASE Len(queue') = 0 BY <1>4, <2>1
  <2>2. CASE Len(queue') # 0
    <3>1. v <= top
      <4>1. 1 \in 1..Len(queue') BY <2>0, <2>2
      <4>2. v < queue'[1] /\ queue'[1] <= top BY <1>11, <4>1
      <4>3. queue'[1] \in Int BY <1>1, <4>1, ElementOfSeq, ModulusIs DEF Frame
      <4> QED BY <1>4, <1>7, <4>2, <4>3
    <3> DEFINE r == queue'
    <3>2. r \in Seq(Frame) /\ Increasing(r) /\ \A i \in 1..Len(r) : v < r[i] /\ r[i] <= top
      BY <1>1, <1>11, <1>12
    <3> HIDE DEF r
    <3>3. Len(r) <= top - v BY <1>4, <1>7, <3>1, <3>2, IncreasingLength
    <3> QED BY <1>4, <1>7, <1>8, <2>0, <3>3 DEF r
  <2> QED BY <2>1, <2>2
<1>14. ~again'
  <2> SUFFICES ASSUME NEW i \in 1..k, q[i] <= IF i = 1 THEN last ELSE q[i - 1]
               PROVE  FALSE
    BY <1>1
  <2>1. i \in 1..Len(q) /\ i \in Int BY <1>2, <1>3
  <2>2. last < q[i] /\ q[i] \in Int BY <1>3, <2>1 DEF Fits
  <2>3. CASE i = 1 BY <1>4, <2>2, <2>3
  <2>4. CASE i # 1
    <3>1. i - 1 \in 1..Len(q) /\ i - 1 < i BY <1>3, <2>1, <2>4
    <3>2. q[i - 1] < q[i] /\ q[i - 1] \in Int BY <1>3, <2>1, <3>1 DEF Fits, Increasing
    <3> QED BY <2>2, <2>4, <3>2
  <2> QED BY <2>3, <2>4
<1>15. iseq' = SN(v) BY <1>1, <1>5
<1> QED BY <1>7, <1>8, <1>10, <1>11, <1>12, <1>13, <1>14, <1>15

-----------------------------------------------------------------------------
(* The order of the frames, on one core and with one agreement.            *)

LEMMA NumberIsSet ==
  ASSUME RoomToCompare, NEW f \in Int
  PROVE  SN(f) # Unset
BY SNType, ModulusIs DEF RoomToCompare, Unset

LEMMA OrderTypes ==
  ASSUME TypeOK
  PROVE  /\ iseq \in Number /\ queue \in Seq(Frame) /\ cur \in Frame /\ top \in Frame
         /\ cur \in Int /\ top \in Int /\ low \in Int /\ last \in Int /\ last \in -1..MaxFrame
         /\ Len(queue) \in Nat
         /\ \A i \in 1..Len(queue) : queue[i] \in Frame /\ queue[i] \in Int
<1>1. iseq \in Number /\ queue \in Seq(Frame) /\ cur \in Frame /\ top \in Frame
  BY DEF TypeOK, Number, Frame
<1>2. cur \in Int /\ top \in Int /\ low \in Int /\ last \in Int /\ last \in -1..MaxFrame
  BY ModulusIs DEF TypeOK
<1>3. Len(queue) \in Nat /\ \A i \in 1..Len(queue) : queue[i] \in Frame
  BY <1>1, LenProperties, ElementOfSeq
<1>4. \A i \in 1..Len(queue) : queue[i] \in Int BY <1>3, ModulusIs DEF Frame
<1> QED BY <1>1, <1>2, <1>3, <1>4

LEMMA OrderInit == Init => OrderInv
<1> SUFFICES ASSUME Init PROVE OrderInv
  OBVIOUS
<1>1. TypeOK BY TypeInit
<1>2. Sent BY ModulusIs DEF Init, Sent
<1>3. Plain BY DEF Init, Plain
<1>4. QueueInOrder /\ NotOvertaken BY ModulusIs DEF Init, QueueInOrder, NotOvertaken
<1> QED BY <1>1, <1>2, <1>3, <1>4
        DEF Init, OrderInv, OneAtATime, NoWindow, InWindow, InOrder

\* Steps of the timer, of rtw_free_stainfo and of rtw_drv_stop that touch nothing
\* of the order.
LEMMA OrderAside ==
  ASSUME OrderInv, TypeOK', handler' => rx = "idle",
         UNCHANGED <<iseq, enable, queue, rx, cur, seen, cmd, low, top, addbas, last, again>>
  PROVE  OrderInv'
<1>1. Sent' BY DEF OrderInv, Sent
<1>2. OneAtATime' BY DEF OrderInv, OneAtATime
<1>3. Plain' BY DEF OrderInv, Plain
<1>4. NoWindow' BY DEF OrderInv, NoWindow
<1>5. InWindow'
  <2>1. ASSUME NEW w \in 0..MaxFrame + 1, WindowAt(w) PROVE WindowAt(w)'
    BY <2>1 DEF WindowAt, Recent, Ahead
  <2>2. InWindow BY DEF OrderInv
  <2> QED BY <2>1, <2>2 DEF InWindow
<1>6. QueueInOrder' /\ NotOvertaken' /\ InOrder'
  BY DEF OrderInv, QueueInOrder, NotOvertaken, InOrder
<1> QED BY <1>1, <1>2, <1>3, <1>4, <1>5, <1>6 DEF OrderInv

\* Frames in order go up.
LEMMA OrderIndicate ==
  ASSUME RoomToCompare, OrderInv, TypeOK', enable, cmd = "idle",
         NEW q \in Seq(Frame), NEW w \in 0..MaxFrame + 1, Fits(q, w), Indicate(q, SN(w)),
         rx' \in {"idle", "cancel"}, handler' => rx' = "idle",
         UNCHANGED <<enable, cur, seen, cmd, low, top, addbas>>
  PROVE  OrderInv'
<1>0. TypeOK BY DEF OrderInv
<1>1. top \in Frame /\ top \in Int /\ last \in -1..MaxFrame /\ last \in Int /\ last <= top /\ ~again
  BY <1>0, OrderTypes DEF OrderInv, Sent, InOrder
<1>2. PICK v \in 0..MaxFrame + 1 :
        /\ iseq' = SN(v) /\ last' < v /\ v <= top + 1 /\ top < v + Window
        /\ \A i \in 1..Len(queue') : v < queue'[i] /\ queue'[i] <= top
        /\ Increasing(queue') /\ Len(queue') < Window
        /\ ~again' /\ last <= last' /\ last' <= top
  BY <1>1, IndicateKeeps
<1>3. v \in Int /\ Window \in Nat /\ iseq' # Unset
  <2>1. v \in Int /\ Window \in Nat BY ModulusIs
  <2> QED BY <1>2, <2>1, NumberIsSet
<1>4. last' \in Int /\ \A i \in 1..Len(queue') : queue'[i] \in Int
  <2>1. last' \in -1..MaxFrame /\ queue' \in Seq(Frame) BY DEF TypeOK, Frame
  <2>2. \A i \in 1..Len(queue') : queue'[i] \in Frame BY <2>1, ElementOfSeq
  <2> QED BY <2>1, <2>2, ModulusIs DEF Frame
<1>5. Sent' BY <1>2 DEF OrderInv, Sent
<1>6. OneAtATime' BY DEF OrderInv, OneAtATime
<1>7. Plain' BY DEF Plain
<1>8. NoWindow' BY <1>3 DEF NoWindow
<1>9. InWindow'
  <2>1. Recent' BY <1>1, <1>2, <1>3, <1>4 DEF Recent
  <2>2. WindowAt(v)' BY <1>2, <2>1 DEF WindowAt
  <2> QED BY <2>2 DEF InWindow
<1>10. QueueInOrder' BY <1>2 DEF QueueInOrder, Increasing
<1>11. NotOvertaken' BY <1>1, <1>2, <1>3, <1>4 DEF NotOvertaken
<1>12. InOrder' BY <1>2 DEF InOrder
<1> QED BY <1>5, <1>6, <1>7, <1>8, <1>9, <1>10, <1>11, <1>12 DEF OrderInv

LEMMA OrderArrive ==
  ASSUME OnOneCore, RoomToCompare, OrderInv, TypeOK',
         NEW f \in 0..MaxFrame, NEW l \in 0..MaxFrame, Arrive(f, l)
  PROVE  OrderInv'
<1> USE DEF ctrl, timer, peer
<1>0. TypeOK BY DEF OrderInv
<1>1. /\ cur \in Int /\ top \in Int /\ low \in Int /\ last \in Int /\ f \in Int /\ l \in Int
      /\ Window \in Nat /\ Lag \in Nat
      /\ \A i \in 1..Len(queue) : queue[i] \in Int
  BY <1>0, OrderTypes, ModulusIs
<1>2. rx = "idle" /\ ~handler /\ cmd = "idle" BY DEF Arrive, PeerSends, OnOneCore
<1>3. /\ low <= l /\ l <= f /\ f < l + Window /\ f <= top + Lag /\ (~enable => l = f)
      /\ low' = l /\ top' = (IF f > top THEN f ELSE top) /\ cur' = f /\ seen' = SN(f)
      /\ rx' = IF SN(f) = seen THEN "idle" ELSE IF enable THEN "reorder" ELSE "direct"
      /\ UNCHANGED <<iseq, enable, queue, handler, cmd, addbas, last, again>>
  <2>1. l \in low..f BY DEF Arrive
  <2>2. low <= l /\ l <= f BY <1>1, <2>1
  <2> QED BY <1>2, <2>2 DEF Arrive
<1>4. /\ low <= top + 1 /\ top < low + Window /\ cur <= top /\ top < cur + Window
      /\ seen \in {Unset, SN(cur)} /\ last <= top
  BY DEF OrderInv, Sent
<1>5. top' \in Int /\ top <= top' /\ f <= top' BY <1>1, <1>3
<1>6. SN(f) = seen => f = cur
  <2>1. SN(f) # Unset BY <1>1, NumberIsSet
  <2>2. f <= cur + Window + Lag /\ cur <= f + Window + Lag BY <1>1, <1>3, <1>4
  <2>3. SN(f) = SN(cur) <=> f = cur BY <1>1, <2>2, NumbersCompare
  <2> QED BY <1>4, <2>1, <2>3
<1>7. Sent' BY <1>1, <1>3, <1>4, <1>5 DEF Sent
<1>8. OneAtATime' BY <1>2, <1>3 DEF OrderInv, OneAtATime
<1>9. Plain'
  <2> SUFFICES ASSUME ~enable PROVE Plain'
    BY <1>3 DEF Plain
  <2>1. queue = <<>> /\ top <= low /\ (last < low \/ (last = low /\ cur = low /\ seen = SN(cur)))
    BY DEF OrderInv, Plain
  <2>2. l = f /\ top' = f /\ last <= f BY <1>1, <1>3, <1>4, <1>5, <2>1
  <2>3. rx' = "direct" => last < f
    <3>1. last = f => seen = SN(f) BY <1>1, <1>3, <2>1, <2>2
    <3> QED BY <1>1, <1>3, <2>2, <3>1
  <2>4. last < f \/ last = f BY <1>1, <2>2
  <2> QED BY <1>1, <1>3, <2>1, <2>2, <2>3, <2>4 DEF Plain
<1>10. NoWindow'
  <2> SUFFICES ASSUME enable, iseq = Unset PROVE NoWindow'
    BY <1>3 DEF NoWindow
  <2>1. queue = <<>> /\ last < low /\ top <= low BY <1>2 DEF OrderInv, NoWindow
  <2>2. top' = f BY <1>1, <1>3, <2>1
  <2>3. rx' = "idle" => f <= l
    <3>1. rx' = "idle" => f = cur BY <1>3, <1>6
    <3> QED BY <1>1, <1>3, <1>4, <2>1, <3>1
  <2>4. last < l BY <1>1, <1>3, <2>1
  <2> QED BY <1>3, <2>1, <2>2, <2>3, <2>4 DEF NoWindow
<1>11. InWindow'
  <2> SUFFICES ASSUME enable, iseq # Unset PROVE InWindow'
    BY <1>3 DEF InWindow
  <2>1. PICK w \in 0..MaxFrame + 1 : WindowAt(w) BY DEF OrderInv, InWindow
  <2>2. w \in Int BY ModulusIs
  <2>3. iseq = SN(w) /\ last < w /\ w <= top + 1 /\ top < w + Window /\ Recent
    BY <1>2, <2>1 DEF WindowAt
  <2>4. w <= top' + 1
    <3> DEFINE t == top'
    <3>1. w <= top + 1 BY <2>3
    <3>2. top \in Int /\ t \in Int /\ top <= t BY <1>1, <1>5
    <3> HIDE DEF t
    <3>3. w <= t + 1 BY <2>2, <3>1, <3>2
    <3> QED BY <3>3 DEF t
  <2>5. \A i \in 1..Len(queue) : top < queue[i] + Window /\ queue[i] <= top
    BY <2>3 DEF Recent, OrderInv, NotOvertaken
  <2>6. rx' \in {"idle", "reorder"} BY <1>3
  <2>7. CASE f <= top
    <3>1. top' = top BY <1>1, <1>3, <2>7
    <3>2. Recent' BY <1>3, <2>5, <3>1 DEF Recent
    <3>3. WindowAt(w)' BY <1>3, <2>3, <2>6, <3>1, <3>2 DEF WindowAt
    <3> QED BY <3>3 DEF InWindow
  <2>8. CASE f > top
    <3>1. top' = f /\ w <= f /\ f < w + Window + Lag BY <1>1, <1>3, <2>2, <2>3, <2>8
    <3>2. rx' = "reorder" BY <1>1, <1>3, <1>4, <1>6, <2>8
    <3>3. Ahead' BY <1>1, <1>3, <2>5, <2>8, <3>1 DEF Ahead
    <3>4. WindowAt(w)' BY <1>3, <2>3, <2>4, <3>1, <3>2, <3>3 DEF WindowAt
    <3> QED BY <3>4 DEF InWindow
  <2> QED BY <1>1, <2>7, <2>8
<1>12. NotOvertaken' BY <1>1, <1>3, <1>5 DEF OrderInv, NotOvertaken
<1>13. QueueInOrder' /\ InOrder' BY <1>3 DEF OrderInv, QueueInOrder, InOrder
<1> QED BY <1>7, <1>8, <1>9, <1>10, <1>11, <1>12, <1>13 DEF OrderInv

LEMMA OrderBar ==
  ASSUME OnOneCore, RoomToCompare, OrderInv, TypeOK', NEW l \in 0..MaxFrame, Bar(l)
  PROVE  OrderInv'
<1> USE DEF ctrl, timer, peer
<1>0. TypeOK BY DEF OrderInv
<1>1. top \in Int /\ low \in Int /\ last \in Int /\ l \in Int /\ Window \in Nat
  BY <1>0, OrderTypes, ModulusIs
<1>2. rx = "idle" /\ ~handler /\ cmd = "idle" BY DEF Bar, PeerSends, OnOneCore
<1>3. /\ low <= l /\ l <= top + 1 /\ last < l /\ low' = l /\ iseq' = SN(l)
      /\ UNCHANGED <<enable, queue, handler, rx, cur, seen, cmd, top, addbas, last, again>>
  <2>1. l \in low..top + 1 /\ l > last BY DEF Bar, PeerStart, OnOneCore
  <2> QED BY <1>1, <2>1 DEF Bar
<1>4. iseq' # Unset BY <1>1, <1>3, NumberIsSet
<1>5. Sent' BY <1>1, <1>3 DEF OrderInv, Sent
<1>6. OneAtATime' BY <1>2, <1>3 DEF OrderInv, OneAtATime
<1>7. Plain' BY <1>1, <1>2, <1>3 DEF OrderInv, Plain
<1>8. NoWindow' BY <1>4 DEF NoWindow
<1>9. InWindow'
  <2> SUFFICES ASSUME enable PROVE InWindow'
    BY <1>3 DEF InWindow
  <2>1. Recent
    <3>1. CASE iseq = Unset BY <3>1 DEF OrderInv, NoWindow, Recent
    <3>2. CASE iseq # Unset BY <1>2, <3>2 DEF OrderInv, InWindow, WindowAt
    <3> QED BY <3>1, <3>2
  <2>2. Recent' BY <1>3, <2>1 DEF Recent
  <2>3. top < l + Window BY <1>1, <1>3 DEF OrderInv, Sent
  <2>4. WindowAt(l)' BY <1>2, <1>3, <2>2, <2>3 DEF WindowAt
  <2>5. l \in 0..MaxFrame + 1 BY ModulusIs
  <2> QED BY <2>4, <2>5 DEF InWindow
<1>10. QueueInOrder' /\ NotOvertaken' /\ InOrder'
  BY <1>3 DEF OrderInv, QueueInOrder, NotOvertaken, InOrder
<1> QED BY <1>5, <1>6, <1>7, <1>8, <1>9, <1>10 DEF OrderInv

LEMMA OrderRespond ==
  ASSUME OnOneCore, OrderInv, TypeOK', NEW l \in 0..MaxFrame, Respond(l)
  PROVE  OrderInv'
<1> USE DEF ctrl, timer, peer
<1>0. TypeOK BY DEF OrderInv
<1>1. top \in Int /\ low \in Int /\ last \in Int /\ l \in Int /\ Window \in Nat
  BY <1>0, OrderTypes, ModulusIs
<1>2. rx = "idle" /\ ~handler BY DEF Respond, RxAlone, OnOneCore
<1>3. /\ low <= l /\ l <= top + 1 /\ last < l /\ low' = l /\ cmd' = "reset" /\ addbas' = addbas + 1
      /\ UNCHANGED <<iseq, enable, queue, handler, rx, cur, seen, top, last, again>>
  <2>1. l \in low..top + 1 /\ l > last BY DEF Respond, PeerStart, OnOneCore
  <2> QED BY <1>1, <2>1 DEF Respond
<1>4. ~enable /\ addbas' > 0
  <2>1. MaxAddba \in Nat /\ addbas \in Nat /\ addbas < MaxAddba /\ MaxAddba <= 1
    BY <1>0, ReorderAssumption DEF TypeOK, Respond, OnOneCore
  <2>2. addbas = 0 BY <2>1
  <2> QED BY <1>3, <2>2 DEF OrderInv, OneAtATime
<1>5. Sent' BY <1>1, <1>3 DEF OrderInv, Sent
<1>6. OneAtATime' BY <1>2, <1>3, <1>4 DEF OrderInv, OneAtATime
<1>7. Plain' BY <1>1, <1>2, <1>3 DEF OrderInv, Plain
<1>8. NoWindow' /\ InWindow' BY <1>3, <1>4 DEF NoWindow, InWindow
<1>10. QueueInOrder' /\ NotOvertaken' /\ InOrder'
  BY <1>3 DEF OrderInv, QueueInOrder, NotOvertaken, InOrder
<1> QED BY <1>5, <1>6, <1>7, <1>8, <1>10 DEF OrderInv

LEMMA OrderDirect ==
  ASSUME OrderInv, TypeOK', Direct \/ AfterDirect
  PROVE  OrderInv'
<1> USE DEF ctrl, timer, peer
<1>0. TypeOK BY DEF OrderInv
<1>1. cur \in Int /\ top \in Int /\ low \in Int /\ last \in Int
  BY <1>0, OrderTypes
<1>2. /\ rx \in {"direct", "after"} /\ rx' \in {"after", "idle"}
      /\ UNCHANGED <<enable, queue, handler, cur, seen, cmd, low, top, addbas>>
  BY DEF Direct, AfterDirect
<1>3. ~enable /\ ~handler /\ cmd = "idle" BY <1>2 DEF OrderInv, OneAtATime
<1>4. /\ queue = <<>> /\ top <= low
      /\ last < low \/ (last = low /\ cur = low /\ seen = SN(cur))
      /\ rx = "direct" => last < cur /\ cur = low /\ seen = SN(cur)
  BY <1>3 DEF OrderInv, Plain
<1>5. \/ last' = last /\ again' = again
      \/ rx = "direct" /\ last' = cur /\ again' = again
  <2>1. CASE AfterDirect BY <2>1 DEF AfterDirect
  <2>2. CASE Direct
    <3>1. rx = "direct" /\ HandUp(<<cur>>) BY <2>2 DEF Direct
    <3>2. last' = cur BY <3>1 DEF HandUp
    <3>3. again' = (again \/ cur <= last) BY <3>1 DEF HandUp
    <3>4. ~(cur <= last) BY <1>1, <1>4, <3>1
    <3>5. again \in BOOLEAN BY <1>0 DEF TypeOK
    <3> QED BY <3>1, <3>2, <3>3, <3>4, <3>5
  <2> QED BY <2>1, <2>2
<1>6. Sent' BY <1>1, <1>2, <1>5 DEF OrderInv, Sent
<1>7. OneAtATime' BY <1>2, <1>3 DEF OrderInv, OneAtATime
<1>8. Plain' BY <1>1, <1>2, <1>4, <1>5 DEF Plain
<1>9. NoWindow' /\ InWindow' BY <1>2, <1>3 DEF NoWindow, InWindow
<1>10. QueueInOrder' /\ InOrder' BY <1>2, <1>5 DEF OrderInv, QueueInOrder, InOrder
<1>11. NotOvertaken' BY <1>2, <1>4 DEF NotOvertaken
<1> QED BY <1>6, <1>7, <1>8, <1>9, <1>10, <1>11 DEF OrderInv

LEMMA OrderTakeLock ==
  ASSUME RoomToCompare, OrderInv, TypeOK', TakeLock
  PROVE  OrderInv'
<1> USE DEF ctrl, timer, peer
<1>0. TypeOK BY DEF OrderInv
<1>1. /\ cur \in Int /\ top \in Int /\ low \in Int /\ last \in Int
      /\ top <= MaxFrame /\ MaxFrame \in Nat /\ 0 <= low
      /\ Window \in Nat \ {0} /\ Lag \in Nat
  <2>1. 0 <= low BY <1>0, ModulusIs DEF TypeOK
  <2>2. top <= MaxFrame BY <1>0, ModulusIs DEF TypeOK
  <2> QED BY <1>0, <2>1, <2>2, OrderTypes, ModulusIs
<1>2. /\ rx = "reorder"
      /\ iseq' = Check(iseq, SN(cur)).start
      /\ rx' = IF Check(iseq, SN(cur)).ok THEN "checked" ELSE "idle"
      /\ UNCHANGED <<enable, queue, handler, cur, seen, cmd, low, top, addbas, last, again>>
  BY DEF TakeLock
<1>3. enable /\ ~handler /\ cmd = "idle" BY <1>2 DEF OrderInv, OneAtATime
<1>4. cur <= top /\ top < cur + Window BY DEF OrderInv, Sent
<1>5. PICK v \in 0..MaxFrame + 1 : WindowAt(v)'
  <2> DEFINE n == SN(cur)
             start == IF iseq = Unset THEN n ELSE iseq
             wend == (iseq + Window - 1) % Modulus
  <2>1. /\ Check(iseq, n).ok = ~SnLess(n, start)
        /\ Check(iseq, n).start =
             IF SnLess(n, start) THEN start
             ELSE IF n = start THEN (start + 1) % Modulus
             ELSE IF SnLess(wend, n) THEN (n + 1 - Window) % Modulus
             ELSE start
    BY DEF Check
  <2>2. (n + 1) % Modulus = SN(cur + 1) BY <1>1, RestOfSum
  <2>3. CASE iseq = Unset
    <3>1. queue = <<>> /\ last < low /\ cur = top /\ low <= cur
      BY <1>2, <1>3, <2>3 DEF OrderInv, NoWindow
    <3>2. ~SnLess(n, n)
      <4>1. SnLess(SN(cur), SN(cur)) <=> cur < cur BY <1>1, NumbersCompare
      <4> QED BY <1>1, <4>1
    <3>3. iseq' = SN(cur + 1) /\ rx' = "checked" BY <1>2, <2>1, <2>2, <2>3, <3>2
    <3>4. PICK u \in 0..MaxFrame + 1 : u = cur + 1
      <4>1. cur + 1 \in 0..MaxFrame + 1 BY <1>1, <3>1
      <4> QED BY <4>1
    <3>5. Recent' BY <1>2, <3>1 DEF Recent
    <3>6. last < u /\ u <= top + 1 /\ last < cur /\ top < u + Window
      BY <1>1, <3>1, <3>4
    <3>7. WindowAt(u)' BY <1>2, <3>3, <3>4, <3>5, <3>6 DEF WindowAt
    <3> QED BY <3>7
  <2>4. CASE iseq # Unset
    <3>1. PICK w \in 0..MaxFrame + 1 : WindowAt(w) BY <1>3, <2>4 DEF OrderInv, InWindow
    <3>2. w \in Int /\ 0 <= w BY ModulusIs
    <3>3. /\ iseq = SN(w) /\ last < w /\ w <= top + 1
          /\ \/ top < w + Window /\ Recent
             \/ w <= top /\ top < w + Window + Lag /\ Ahead
      BY <1>2, <3>1 DEF WindowAt
    <3>4. Ahead => cur = top BY DEF Ahead
    <3>5. start = SN(w) BY <2>4, <3>3
    <3>6. /\ SnLess(SN(cur), SN(w)) <=> cur < w
          /\ SN(cur) = SN(w) <=> cur = w
      <4>1. cur <= w + Window + Lag /\ w <= cur + Window + Lag
        BY <1>1, <1>4, <3>2, <3>3, <3>4
      <4> QED BY <1>1, <3>2, <4>1, NumbersCompare
    <3>7. (SN(w) + 1) % Modulus = SN(w + 1) BY <3>2, RestOfSum
    <3>8. cur >= w => (SnLess(wend, n) <=> w + Window - 1 < cur)
      <4> SUFFICES ASSUME cur >= w PROVE SnLess(wend, n) <=> w + Window - 1 < cur
        OBVIOUS
      <4> DEFINE y == Window - 1
                 e == w + y
      <4>1. y \in Int /\ e \in Int BY <1>1, <3>2
      <4>2. e <= cur + Window + Lag /\ cur <= e + Window + Lag
        BY <1>1, <1>4, <3>2, <3>3, <3>4
      <4>3. wend = (SN(w) + y) % Modulus
        <5>1. SN(w) \in Int BY <3>2, SNType
        <5>2. SN(w) + Window - 1 = SN(w) + y BY <1>1, <5>1
        <5> QED BY <3>3, <5>2
      <4>4. e = w + Window - 1 BY <1>1, <3>2
      <4> HIDE DEF y, wend
      <4>5. wend = SN(e) BY <3>2, <4>1, <4>3, RestOfSum
      <4> HIDE DEF e
      <4>6. SnLess(SN(e), SN(cur)) <=> e < cur BY <1>1, <4>1, <4>2, NumbersCompare
      <4> QED BY <4>4, <4>5, <4>6
    <3>9. (n + 1 - Window) % Modulus = SN(cur + 1 - Window)
      <4> DEFINE y == 1 - Window
      <4>1. y \in Int /\ SN(cur) \in Int BY <1>1, SNType
      <4>2. n + 1 - Window = SN(cur) + y /\ cur + 1 - Window = cur + y BY <1>1, <4>1
      <4> HIDE DEF y
      <4>3. (SN(cur) + y) % Modulus = SN(cur + y) BY <1>1, <4>1, RestOfSum
      <4> QED BY <4>2, <4>3
    <3>10. /\ rx' = IF cur < w THEN "idle" ELSE "checked"
           /\ iseq' = IF cur < w THEN SN(w)
                      ELSE IF cur = w THEN SN(w + 1)
                      ELSE IF w + Window - 1 < cur THEN SN(cur + 1 - Window)
                      ELSE SN(w)
      <4> HIDE DEF wend, start, n
      <4>1. n = SN(cur) BY DEF n
      <4>2. SnLess(n, start) <=> cur < w BY <3>5, <3>6, <4>1
      <4>3. n = start <=> cur = w BY <3>5, <3>6, <4>1
      <4>4. Check(iseq, n).ok <=> ~(cur < w) BY <2>1, <4>2
      <4>5. (start + 1) % Modulus = SN(w + 1) BY <3>5, <3>7
      <4>6. CASE cur < w BY <1>2, <2>1, <3>5, <4>1, <4>2, <4>4, <4>6
      <4>7. CASE cur = w
        <5>1. ~(cur < w) BY <1>1, <4>7
        <5> QED BY <1>2, <2>1, <4>1, <4>2, <4>3, <4>4, <4>5, <4>7, <5>1
      <4>8. CASE ~(cur < w) /\ cur # w
        <5>1. SnLess(wend, n) <=> w + Window - 1 < cur BY <1>1, <3>2, <3>8, <4>8
        <5> QED BY <1>2, <2>1, <3>5, <3>9, <4>1, <4>2, <4>3, <4>4, <4>8, <5>1
      <4> QED BY <4>6, <4>7, <4>8
    <3> HIDE DEF wend, start, n
    <3>11. (Recent \/ Ahead) => (Recent \/ Ahead)' BY <1>2 DEF Recent, Ahead
    <3>12. CASE cur < w
      <4>1. top < w + Window /\ Recent BY <1>1, <3>2, <3>3, <3>4, <3>12
      <4>2. Recent' BY <1>2, <4>1 DEF Recent
      <4>3. rx' = "idle" /\ iseq' = SN(w) BY <3>10, <3>12
      <4>4. WindowAt(w)' BY <1>2, <3>3, <4>1, <4>2, <4>3 DEF WindowAt
      <4> QED BY <4>4
    <3>13. CASE cur = w
      <4>1. rx' = "checked" /\ iseq' = SN(w + 1) BY <1>1, <3>2, <3>10, <3>13
      <4>2. /\ w + 1 \in 0..MaxFrame + 1 /\ last < w + 1 /\ w + 1 <= top + 1
            /\ top < (w + 1) + Window /\ last < cur
        BY <1>1, <1>4, <3>2, <3>3, <3>13
      <4>3. WindowAt(w + 1)' BY <1>2, <3>3, <3>11, <4>1, <4>2 DEF WindowAt
      <4> QED BY <4>2, <4>3
    <3>14. CASE cur > w /\ w + Window - 1 < cur
      <4>0. PICK u \in 0..MaxFrame + 1 : u = cur + 1 - Window
        <5>1. cur + 1 - Window \in 0..MaxFrame + 1 BY <1>1, <1>4, <3>2, <3>14
        <5> QED BY <5>1
      <4>1. rx' = "checked" /\ iseq' = SN(u) BY <1>1, <3>2, <3>10, <3>14, <4>0
      <4>2. last < u /\ u <= top + 1 /\ top < u + Window /\ last < cur
        BY <1>1, <1>4, <3>2, <3>3, <3>4, <3>14, <4>0
      <4>3. WindowAt(u)' BY <1>2, <3>3, <3>11, <4>1, <4>2 DEF WindowAt
      <4> QED BY <4>3
    <3>15. CASE cur > w /\ ~(w + Window - 1 < cur)
      <4>1. rx' = "checked" /\ iseq' = SN(w) BY <1>1, <3>2, <3>10, <3>15
      <4>2. top < w + Window /\ last < cur BY <1>1, <1>4, <3>2, <3>3, <3>4, <3>15
      <4>3. WindowAt(w)' BY <1>2, <3>3, <3>11, <4>1, <4>2 DEF WindowAt
      <4> QED BY <4>3
    <3> QED BY <1>1, <3>2, <3>12, <3>13, <3>14, <3>15
  <2> QED BY <2>3, <2>4
<1>6. iseq' # Unset
  <2>1. v \in Int /\ iseq' = SN(v) BY <1>5, ModulusIs DEF WindowAt
  <2> QED BY <2>1, NumberIsSet
<1>7. rx' \in {"checked", "idle"} BY <1>2
<1>8. Sent' BY <1>2 DEF OrderInv, Sent
<1>9. OneAtATime' BY <1>2, <1>3, <1>7 DEF OrderInv, OneAtATime
<1>10. Plain' BY <1>2, <1>3 DEF Plain
<1>11. NoWindow' BY <1>6 DEF NoWindow
<1>12. InWindow' BY <1>5 DEF InWindow
<1>13. QueueInOrder' /\ NotOvertaken' /\ InOrder'
  BY <1>2 DEF OrderInv, QueueInOrder, NotOvertaken, InOrder
<1> QED BY <1>8, <1>9, <1>10, <1>11, <1>12, <1>13 DEF OrderInv

\* Where the receive path finds the place of its frame.
LEMMA Place ==
  ASSUME RoomToCompare, OrderInv, rx = "checked"
  PROVE  LET k == Before(queue, cur) IN
         /\ k \in 0..Len(queue)
         /\ \A i \in 1..k : queue[i] < cur
         /\ k < Len(queue) => queue[k + 1] >= cur
         /\ Duplicate(queue, cur) <=> k < Len(queue) /\ queue[k + 1] = cur
         /\ Ahead => k = Len(queue)
<1> DEFINE k == Before(queue, cur)
<1>0. TypeOK BY DEF OrderInv
<1>1. /\ cur \in Int /\ top \in Int /\ queue \in Seq(Frame) /\ Window \in Nat /\ Lag \in Nat
      /\ Len(queue) \in Nat /\ \A i \in 1..Len(queue) : queue[i] \in Int
  BY <1>0, OrderTypes, ModulusIs
<1>2. /\ k \in 0..Len(queue)
      /\ \A i \in 1..k : SnLess(SN(queue[i]), SN(cur))
      /\ k < Len(queue) => ~SnLess(SN(queue[k + 1]), SN(cur))
  BY <1>1, BeforeIs
<1>3. cur <= top /\ top < cur + Window BY DEF OrderInv, Sent
<1>4. Recent \/ Ahead
  <2>1. enable BY DEF OrderInv, OneAtATime
  <2>2. iseq # Unset BY <2>1 DEF OrderInv, NoWindow
  <2>3. PICK w \in 0..MaxFrame + 1 : WindowAt(w) BY <2>1, <2>2 DEF OrderInv, InWindow
  <2> QED BY <2>3 DEF WindowAt
<1>5. ASSUME NEW i \in 1..Len(queue)
      PROVE  /\ SnLess(SN(queue[i]), SN(cur)) <=> queue[i] < cur
             /\ SN(queue[i]) = SN(cur) <=> queue[i] = cur
  <2> DEFINE x == queue[i]
  <2>1. x \in Int BY <1>1
  <2>2. x <= top BY DEF OrderInv, NotOvertaken
  <2>3. top < x + Window \/ (cur = top /\ cur < x + Window + Lag)
    BY <1>4 DEF Recent, Ahead
  <2> HIDE DEF x
  <2>4. x <= cur + Window + Lag /\ cur <= x + Window + Lag BY <1>1, <1>3, <2>1, <2>2, <2>3
  <2>5. /\ SnLess(SN(x), SN(cur)) <=> x < cur
        /\ SN(x) = SN(cur) <=> x = cur
    BY <1>1, <2>1, <2>4, NumbersCompare
  <2> QED BY <2>5 DEF x
<1>6. Duplicate(queue, cur) <=> k < Len(queue) /\ SN(queue[k + 1]) = SN(cur)
  BY DEF Duplicate
<1> HIDE DEF k
<1>7. \A i \in 1..k : queue[i] < cur
  <2>1. \A i \in 1..k : i \in 1..Len(queue) BY <1>1, <1>2
  <2> QED BY <1>2, <1>5, <2>1
<1>8. k < Len(queue) => k + 1 \in 1..Len(queue) BY <1>1, <1>2
<1>9. k < Len(queue) => queue[k + 1] >= cur BY <1>1, <1>2, <1>5, <1>8
<1>10. Duplicate(queue, cur) <=> k < Len(queue) /\ queue[k + 1] = cur
  BY <1>5, <1>6, <1>8
<1>11. Ahead => k = Len(queue)
  <2>1. Ahead => \A i \in 1..Len(queue) : queue[i] < cur BY DEF Ahead
  <2>2. ~(Ahead /\ k < Len(queue)) BY <1>1, <1>8, <1>9, <2>1
  <2> QED BY <1>1, <1>2, <2>2
<1> QED BY <1>2, <1>7, <1>9, <1>10, <1>11 DEF k

LEMMA OrderEnqueue ==
  ASSUME RoomToCompare, OrderInv, TypeOK', Enqueue
  PROVE  OrderInv'
<1> USE DEF ctrl, timer, peer
<1> DEFINE k == Before(queue, cur)
           r == InsertAt(queue, k, cur)
<1>0. TypeOK BY DEF OrderInv
<1>1. /\ cur \in Int /\ top \in Int /\ last \in Int /\ cur \in Frame /\ queue \in Seq(Frame)
      /\ Window \in Nat \ {0} /\ Lag \in Nat
      /\ Len(queue) \in Nat /\ \A i \in 1..Len(queue) : queue[i] \in Int
  BY <1>0, OrderTypes, ModulusIs
<1>2. /\ rx = "checked" /\ ~Duplicate(queue, cur) /\ Indicate(r, iseq)
      /\ rx' \in {"idle", "cancel"}
      /\ UNCHANGED <<enable, handler, cur, seen, cmd, low, top, addbas>>
  BY DEF Enqueue
<1>3. enable /\ ~handler /\ cmd = "idle" BY <1>2 DEF OrderInv, OneAtATime
<1>4. iseq # Unset BY <1>2, <1>3 DEF OrderInv, NoWindow
<1>5. PICK w \in 0..MaxFrame + 1 : WindowAt(w) BY <1>3, <1>4 DEF OrderInv, InWindow
<1>6. /\ iseq = SN(w) /\ last < w /\ w <= top + 1 /\ last < cur /\ top < w + Window
      /\ Recent \/ Ahead
  BY <1>2, <1>5 DEF WindowAt
<1>7. cur <= top /\ top < cur + Window BY DEF OrderInv, Sent
<1>8. /\ k \in 0..Len(queue)
      /\ \A i \in 1..k : queue[i] < cur
      /\ k < Len(queue) => queue[k + 1] > cur
  <2>1. /\ k \in 0..Len(queue)
        /\ \A i \in 1..k : queue[i] < cur
        /\ k < Len(queue) => queue[k + 1] >= cur
        /\ Duplicate(queue, cur) <=> k < Len(queue) /\ queue[k + 1] = cur
    BY <1>2, Place
  <2> HIDE DEF k
  <2>2. k < Len(queue) => k + 1 \in 1..Len(queue) BY <1>1, <2>1
  <2> QED BY <1>1, <1>2, <2>1, <2>2
<1>9. /\ r \in Seq(Frame) /\ Len(r) = Len(queue) + 1
      /\ \A i \in 1..Len(r) :
           r[i] = IF i <= k THEN queue[i] ELSE IF i = k + 1 THEN cur ELSE queue[i - 1]
  <2>1. k \in 0..Len(queue) BY <1>8
  <2> HIDE DEF k
  <2> QED BY <1>1, <2>1, InsertAtIs DEF r
<1> HIDE DEF k, r
<1>10. k \in Nat /\ k <= Len(queue) BY <1>1, <1>8
<1>11. \A i, j \in 1..Len(queue) : i < j => queue[i] < queue[j]
  BY DEF OrderInv, QueueInOrder
<1>12. \A i \in k + 1..Len(queue) : queue[i] > cur
  <2> SUFFICES ASSUME NEW i \in k + 1..Len(queue) PROVE queue[i] > cur
    OBVIOUS
  <2>1. i \in 1..Len(queue) /\ k + 1 \in 1..Len(queue) /\ k < Len(queue) BY <1>1, <1>10
  <2>2. CASE i = k + 1 BY <1>8, <2>1, <2>2
  <2>3. CASE i # k + 1
    <3>1. k + 1 < i BY <1>10, <2>3
    <3>2. queue[k + 1] < queue[i] BY <1>11, <2>1, <3>1
    <3> QED BY <1>1, <1>8, <2>1, <3>2
  <2> QED BY <2>2, <2>3
<1>13. Increasing(r)
  <2> SUFFICES ASSUME NEW i \in 1..Len(r), NEW j \in 1..Len(r), i < j
               PROVE  r[i] < r[j]
    BY DEF Increasing
  <2>1. /\ r[i] = IF i <= k THEN queue[i] ELSE IF i = k + 1 THEN cur ELSE queue[i - 1]
        /\ r[j] = IF j <= k THEN queue[j] ELSE IF j = k + 1 THEN cur ELSE queue[j - 1]
    BY <1>9
  <2>2. i \in Int /\ j \in Int /\ 1 <= i /\ j <= Len(queue) + 1 BY <1>1, <1>9
  <2>3. CASE j <= k
    <3>1. i <= k /\ i \in 1..Len(queue) /\ j \in 1..Len(queue) BY <1>1, <1>10, <2>2, <2>3
    <3> QED BY <1>11, <2>1, <2>3, <3>1
  <2>4. CASE j = k + 1
    <3>1. i <= k /\ i \in 1..k /\ ~(j <= k) BY <1>10, <2>2, <2>4
    <3> QED BY <1>8, <2>1, <2>4, <3>1
  <2>5. CASE j > k + 1 /\ i <= k
    <3>1. i \in 1..Len(queue) /\ j - 1 \in 1..Len(queue) /\ i < j - 1 /\ ~(j <= k) /\ j # k + 1
      BY <1>1, <1>10, <2>2, <2>5
    <3> QED BY <1>11, <2>1, <2>5, <3>1
  <2>6. CASE j > k + 1 /\ i = k + 1
    <3>1. j - 1 \in k + 1..Len(queue) /\ j - 1 \in 1..Len(queue) /\ ~(j <= k) /\ j # k + 1 /\ ~(i <= k)
      BY <1>1, <1>10, <2>2, <2>6
    <3>2. queue[j - 1] > cur /\ queue[j - 1] \in Int BY <1>1, <1>12, <3>1
    <3> QED BY <1>1, <2>1, <2>6, <3>1, <3>2
  <2>7. CASE j > k + 1 /\ i > k + 1
    <3>1. /\ i - 1 \in 1..Len(queue) /\ j - 1 \in 1..Len(queue) /\ i - 1 < j - 1
          /\ ~(j <= k) /\ j # k + 1 /\ ~(i <= k) /\ i # k + 1
      BY <1>1, <1>10, <2>2, <2>7
    <3> QED BY <1>11, <2>1, <3>1
  <2> QED BY <1>10, <2>2, <2>3, <2>4, <2>5, <2>6, <2>7
<1>14. \A i \in 1..Len(r) : last < r[i] /\ r[i] <= top /\ top < r[i] + Window + Lag
  <2>1. last < cur /\ cur <= top /\ top < cur + Window + Lag BY <1>1, <1>6, <1>7
  <2>2. ASSUME NEW i \in 1..Len(queue)
        PROVE  last < queue[i] /\ queue[i] <= top /\ top < queue[i] + Window + Lag
    <3>1. last < queue[i] /\ queue[i] <= top /\ queue[i] \in Int
      BY <1>1 DEF OrderInv, NotOvertaken
    <3>2. Recent => top < queue[i] + Window BY DEF Recent
    <3>3. Ahead => top < queue[i] + Window + Lag BY DEF Ahead
    <3>4. top < queue[i] + Window => top < queue[i] + Window + Lag BY <1>1, <3>1
    <3> QED BY <1>6, <3>1, <3>2, <3>3, <3>4
  <2> SUFFICES ASSUME NEW i \in 1..Len(r)
               PROVE  last < r[i] /\ r[i] <= top /\ top < r[i] + Window + Lag
    OBVIOUS
  <2>3. r[i] = IF i <= k THEN queue[i] ELSE IF i = k + 1 THEN cur ELSE queue[i - 1]
    BY <1>9
  <2>4. CASE i <= k
    <3>1. i \in 1..Len(queue) BY <1>1, <1>10, <2>4
    <3> QED BY <2>2, <2>3, <2>4, <3>1
  <2>5. CASE i = k + 1
    <3>1. ~(i <= k) BY <1>10, <2>5
    <3> QED BY <2>1, <2>3, <2>5, <3>1
  <2>6. CASE i > k + 1
    <3>1. i - 1 \in 1..Len(queue) /\ ~(i <= k) /\ i # k + 1 BY <1>1, <1>9, <1>10, <2>6
    <3> QED BY <2>2, <2>3, <3>1
  <2> QED BY <1>10, <2>4, <2>5, <2>6
<1>15. Fits(r, w) BY <1>6, <1>13, <1>14 DEF Fits
<1>16. Indicate(r, SN(w)) BY <1>2, <1>6
<1>17. handler' => rx' = "idle" BY <1>2, <1>3
<1> QED BY <1>2, <1>3, <1>9, <1>15, <1>16, <1>17, OrderIndicate

LEMMA OrderHandler ==
  ASSUME RoomToCompare, OrderInv, TypeOK', Handler
  PROVE  OrderInv'
<1> USE DEF ctrl, timer, peer
<1>0. TypeOK BY DEF OrderInv
<1>1. /\ rx = "idle" /\ handler' = FALSE
      /\ UNCHANGED <<enable, rx, cur, seen, cmd, low, top, addbas>>
  BY DEF Handler, OrderInv, OneAtATime
<1>2. CASE queue = <<>>
  <2>1. UNCHANGED <<iseq, queue, last, again>> BY <1>2 DEF Handler
  <2> QED BY <1>1, <2>1, OrderAside
<1>3. CASE queue # <<>>
  <2>1. enable /\ iseq # Unset BY <1>3 DEF OrderInv, Plain, NoWindow
  <2>2. cmd = "idle" BY <2>1 DEF OrderInv, OneAtATime
  <2>3. /\ queue \in Seq(Frame) /\ top \in Int /\ last \in Int /\ top \in Frame
        /\ Window \in Nat \ {0} /\ Lag \in Nat /\ Len(queue) \in Nat
        /\ \A i \in 1..Len(queue) : queue[i] \in Frame /\ queue[i] \in Int
    BY <1>0, OrderTypes, ModulusIs
  <2>4. Recent BY <1>1, <2>1 DEF OrderInv, InWindow, WindowAt
  <2> DEFINE h == queue[1]
  <2>5. 1 \in 1..Len(queue) /\ Head(queue) = h
    <3>1. Len(queue) # 0 BY <1>3, <2>3, EmptySeq
    <3>2. Head(queue) = queue[1] BY <1>3, <2>3, HeadTailProperties
    <3> QED BY <2>3, <3>1, <3>2
  <2>6. h \in 0..MaxFrame + 1 /\ h \in Int BY <2>3, <2>5, ModulusIs DEF Frame
  <2>7. \A i \in 1..Len(queue) : /\ last < queue[i] /\ queue[i] <= top
                                 /\ top < queue[i] + Window /\ top < queue[i] + Window + Lag
    <3>1. \A i \in 1..Len(queue) : /\ last < queue[i] /\ queue[i] <= top
                                   /\ top < queue[i] + Window
      BY <2>4 DEF Recent, OrderInv, NotOvertaken
    <3> QED BY <2>3, <3>1
  <2>8. last < h /\ h <= top + 1 /\ top < h + Window BY <2>3, <2>5, <2>6, <2>7
  <2>9. Increasing(queue) BY DEF OrderInv, QueueInOrder, Increasing
  <2>10. Fits(queue, h) BY <2>7, <2>8, <2>9 DEF Fits
  <2>11. Indicate(queue, SN(h)) BY <1>3, <2>5 DEF Handler
  <2> HIDE DEF h
  <2> QED BY <1>1, <2>1, <2>2, <2>3, <2>6, <2>10, <2>11, OrderIndicate
<1> QED BY <1>2, <1>3

LEMMA OrderLocked ==
  ASSUME RoomToCompare, OrderInv, TypeOK', DropDuplicate \/ Cancel
  PROVE  OrderInv'
<1> USE DEF ctrl, timer, peer
<1>1. /\ rx \in {"checked", "cancel"} /\ rx' = "idle"
      /\ UNCHANGED <<iseq, enable, queue, handler, cur, seen, cmd, low, top, addbas, last, again>>
  BY DEF DropDuplicate, Cancel
<1>2. enable /\ ~handler /\ cmd = "idle" BY <1>1 DEF OrderInv, OneAtATime
<1>3. iseq # Unset BY <1>1, <1>2 DEF OrderInv, NoWindow
<1>4. PICK w \in 0..MaxFrame + 1 : WindowAt(w) BY <1>2, <1>3 DEF OrderInv, InWindow
<1>5. top < w + Window /\ Recent
  <2>1. CASE Cancel BY <1>4, <2>1 DEF Cancel, WindowAt
  <2>2. CASE DropDuplicate
    <3>1. rx = "checked" /\ Duplicate(queue, cur) BY <2>2 DEF DropDuplicate
    <3>2. top < w + Window /\ (Recent \/ Ahead) BY <1>4, <3>1 DEF WindowAt
    <3>3. ~Ahead
      <4> DEFINE k == Before(queue, cur)
      <4>1. /\ k \in 0..Len(queue) /\ (Ahead => k = Len(queue))
            /\ Duplicate(queue, cur) <=> k < Len(queue) /\ queue[k + 1] = cur
        BY <3>1, Place
      <4> HIDE DEF k
      <4>2. k < Len(queue) BY <3>1, <4>1
      <4>3. Len(queue) \in Nat
        <5>1. TypeOK BY DEF OrderInv
        <5> QED BY <5>1, OrderTypes
      <4> QED BY <4>1, <4>2, <4>3
    <3> QED BY <3>2, <3>3
  <2> QED BY <2>1, <2>2
<1>6. WindowAt(w)'
  <2>1. iseq = SN(w) /\ last < w /\ w <= top + 1 BY <1>4 DEF WindowAt
  <2>2. Recent' BY <1>1, <1>5 DEF Recent
  <2> QED BY <1>1, <1>5, <2>1, <2>2 DEF WindowAt
<1>7. Sent' BY <1>1 DEF OrderInv, Sent
<1>8. OneAtATime' BY <1>1, <1>2 DEF OrderInv, OneAtATime
<1>9. Plain' BY <1>1, <1>2 DEF Plain
<1>10. NoWindow' BY <1>1, <1>3 DEF NoWindow
<1>11. InWindow' BY <1>6 DEF InWindow
<1>12. QueueInOrder' /\ NotOvertaken' /\ InOrder'
  BY <1>1 DEF OrderInv, QueueInOrder, NotOvertaken, InOrder
<1> QED BY <1>7, <1>8, <1>9, <1>10, <1>11, <1>12 DEF OrderInv

\* The command thread's last two steps, and the flush of the queue.
LEMMA OrderThread ==
  ASSUME OnOneCore, OrderInv, TypeOK',
         Reset \/ (\E accept \in BOOLEAN : Enable(accept)) \/ Flush
  PROVE  OrderInv'
<1> USE DEF ctrl, timer, peer
<1>0. rx = "idle" /\ ~handler BY DEF Reset, Enable, Flush, RxAlone, OnOneCore
<1>1. CASE Reset
  <2>1. /\ cmd = "reset" /\ iseq' = Unset /\ cmd' = "enable"
        /\ UNCHANGED <<enable, queue, handler, rx, cur, seen, low, top, addbas, last, again>>
    BY <1>1 DEF Reset
  <2>2. ~enable BY <2>1 DEF OrderInv, OneAtATime
  <2>3. Sent' BY <2>1 DEF OrderInv, Sent
  <2>4. OneAtATime' BY <2>1 DEF OrderInv, OneAtATime
  <2>5. Plain' BY <2>1 DEF OrderInv, Plain
  <2>6. NoWindow' /\ InWindow' BY <2>1, <2>2 DEF NoWindow, InWindow
  <2>7. QueueInOrder' /\ NotOvertaken' /\ InOrder'
    BY <2>1 DEF OrderInv, QueueInOrder, NotOvertaken, InOrder
  <2> QED BY <2>3, <2>4, <2>5, <2>6, <2>7 DEF OrderInv
<1>2. CASE \E accept \in BOOLEAN : Enable(accept)
  <2>1. /\ cmd = "enable" /\ cmd' = "idle" /\ enable' \in BOOLEAN
        /\ UNCHANGED <<iseq, queue, handler, rx, cur, seen, low, top, addbas, last, again>>
    BY <1>2 DEF Enable
  <2>2. ~enable /\ iseq = Unset /\ last < low /\ addbas > 0 BY <2>1 DEF OrderInv, OneAtATime
  <2>3. Sent' BY <2>1 DEF OrderInv, Sent
  <2>4. OneAtATime' BY <1>0, <2>1, <2>2 DEF OneAtATime
  <2>5. Plain' BY <2>1, <2>2 DEF OrderInv, Plain
  <2>6. NoWindow' BY <1>0, <2>1, <2>2 DEF OrderInv, Plain, NoWindow
  <2>7. InWindow' BY <2>1, <2>2 DEF InWindow
  <2>8. QueueInOrder' /\ NotOvertaken' /\ InOrder'
    BY <2>1 DEF OrderInv, QueueInOrder, NotOvertaken, InOrder
  <2> QED BY <2>3, <2>4, <2>5, <2>6, <2>7, <2>8 DEF OrderInv
<1>3. CASE Flush
  <2>1. /\ queue' = <<>>
        /\ UNCHANGED <<iseq, enable, handler, rx, cur, seen, cmd, low, top, addbas, last, again>>
    BY <1>3 DEF Flush
  <2>3. Sent' BY <2>1 DEF OrderInv, Sent
  <2>4. OneAtATime' BY <2>1 DEF OrderInv, OneAtATime
  <2>5. Plain' BY <2>1 DEF OrderInv, Plain
  <2>6. NoWindow' BY <2>1 DEF OrderInv, NoWindow
  <2>7. InWindow'
    <3>1. Recent' BY <2>1 DEF Recent
    <3>2. ASSUME NEW w \in 0..MaxFrame + 1, WindowAt(w) PROVE WindowAt(w)'
      BY <1>0, <2>1, <3>1, <3>2 DEF WindowAt
    <3>3. InWindow BY DEF OrderInv
    <3> QED BY <2>1, <3>2, <3>3 DEF InWindow
  <2>8. QueueInOrder'
    <3>1. Len(queue') = 0 BY <2>1
    <3> QED BY <3>1, ModulusIs DEF QueueInOrder
  <2>9. NotOvertaken' /\ InOrder' BY <2>1 DEF OrderInv, NotOvertaken, InOrder
  <2> QED BY <2>3, <2>4, <2>5, <2>6, <2>7, <2>8, <2>9 DEF OrderInv
<1> QED BY <1>1, <1>2, <1>3

LEMMA OrderNext ==
  ASSUME OnOneCore, RoomToCompare
  PROVE  OrderInv /\ [Next]_vars => OrderInv'
<1> SUFFICES ASSUME OrderInv, [Next]_vars PROVE OrderInv'
  OBVIOUS
<1>a. TypeOK'
  <2>1. TypeOK BY DEF OrderInv
  <2> QED BY <2>1, TypeNext
<1>b. handler => rx = "idle" BY DEF OrderInv, OneAtATime
<1> USE DEF ctrl, timer, peer
<1>1. ASSUME NEW f \in 0..MaxFrame, NEW l \in 0..MaxFrame, Arrive(f, l) PROVE OrderInv'
  BY <1>a, <1>1, OrderArrive
<1>2. ASSUME NEW l \in 0..MaxFrame, Bar(l) PROVE OrderInv'
  BY <1>a, <1>2, OrderBar
<1>3. ASSUME NEW l \in 0..MaxFrame, Respond(l) PROVE OrderInv'
  BY <1>a, <1>3, OrderRespond
<1>4. CASE Direct \/ AfterDirect
  BY <1>a, <1>4, OrderDirect
<1>5. CASE TakeLock
  BY <1>a, <1>5, OrderTakeLock
<1>6. CASE DropDuplicate \/ Cancel
  BY <1>a, <1>6, OrderLocked
<1>7. CASE Enqueue
  BY <1>a, <1>7, OrderEnqueue
<1>8. CASE Handler
  BY <1>a, <1>8, OrderHandler
<1>9. CASE Fire
  <2>1. rx = "idle" BY <1>9 DEF Fire, OnOneCore
  <2>2. UNCHANGED <<iseq, enable, queue, rx, cur, seen, cmd, low, top, addbas, last, again>>
    BY <1>9 DEF Fire
  <2> QED BY <1>a, <2>1, <2>2, OrderAside
<1>10. CASE HandlerReturns \/ CancelTimer \/ Unhash \/ Stop \/ UNCHANGED vars
  <2>1. UNCHANGED <<iseq, enable, queue, rx, cur, seen, cmd, low, top, addbas, last, again>>
    BY <1>10 DEF HandlerReturns, CancelTimer, Unhash, Stop, vars
  <2>2. handler' => handler
    BY <1>10 DEF HandlerReturns, CancelTimer, Unhash, Stop, vars
  <2> QED BY <1>a, <1>b, <2>1, <2>2, OrderAside
<1>11. CASE Reset \/ (\E accept \in BOOLEAN : Enable(accept)) \/ Flush
  BY <1>a, <1>11, OrderThread
<1>12. CASE Delba
  BY <1>12 DEF Delba, OnOneCore
<1> QED
  BY <1>1, <1>2, <1>3, <1>4, <1>5, <1>6, <1>7, <1>8, <1>9, <1>10, <1>11, <1>12
  DEF Next, RxStep, TimerStep, CmdStep, FreeStep

LEMMA OrderInvariance ==
  ASSUME OnOneCore, RoomToCompare
  PROVE  Spec => []OrderInv
<1>1. Init => OrderInv BY OrderInit
<1>2. OrderInv /\ [Next]_vars => OrderInv' BY OrderNext
<1> QED BY <1>1, <1>2, PTL DEF Spec

\* The frames that wait are in the order in which the peer sent them and fewer than
\* the window is long: on one core, with one agreement and a peer that does not go
\* back and is silent from the ADDBA response to the reset, whatever the window is,
\* as long as it and the lag fit into half of the sequence numbers.
THEOREM QueueSorted ==
  ASSUME OnOneCore, RoomToCompare
  PROVE  Spec => []QueueInOrder
<1>1. OrderInv => QueueInOrder BY DEF OrderInv
<1> QED BY <1>1, OrderInvariance, PTL

\* What goes up is in order, and nothing goes up twice, under the same assumptions:
\* the start of the window, which wraps, is at every step the number of a frame above
\* all that went up, and comparing numbers is comparing frames.
THEOREM FramesInOrder ==
  ASSUME OnOneCore, RoomToCompare
  PROVE  Spec => []InOrder
<1>1. OrderInv => InOrder BY DEF OrderInv
<1> QED BY <1>1, OrderInvariance, PTL
=============================================================================
