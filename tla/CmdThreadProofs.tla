-------------------------- MODULE CmdThreadProofs --------------------------
(***************************************************************************)
(* Theorems about CmdThread, for any set of commands and any number of     *)
(* openings of the interface.                                              *)
(***************************************************************************)
EXTENDS CmdThread, TLAPS

\* What is in a queue after an insertion at its tail.
LEMMA AppendHas ==
  ASSUME NEW q \in Seq(Cmd), NEW c \in Cmd
  PROVE  /\ Append(q, c) \in Seq(Cmd)
         /\ \A d \in Cmd : Has(Append(q, c), d) <=> d = c \/ Has(q, d)
         /\ IsInjective(q) /\ ~Has(q, c) => IsInjective(Append(q, c))
<1>1. /\ Append(q, c) \in Seq(Cmd) /\ Len(Append(q, c)) = Len(q) + 1
      /\ Len(q) \in Nat
      /\ \A i \in 1..Len(q) : Append(q, c)[i] = q[i]
      /\ Append(q, c)[Len(q) + 1] = c
  OBVIOUS
<1>2. \A d \in Cmd : Has(Append(q, c), d) <=> d = c \/ Has(q, d)
  <2> SUFFICES ASSUME NEW d \in Cmd
               PROVE Has(Append(q, c), d) <=> d = c \/ Has(q, d)
    OBVIOUS
  <2>1. ASSUME Has(Append(q, c), d) PROVE d = c \/ Has(q, d)
    <3>1. PICK i \in 1..(Len(q) + 1) : Append(q, c)[i] = d BY <1>1, <2>1 DEF Has
    <3>2. i = Len(q) + 1 \/ i \in 1..Len(q) BY <1>1
    <3> QED BY <1>1, <3>1, <3>2 DEF Has
  <2>2. ASSUME Has(q, d) PROVE Has(Append(q, c), d)
    <3>1. PICK i \in 1..Len(q) : q[i] = d BY <2>2 DEF Has
    <3>2. i \in 1..(Len(q) + 1) BY <1>1
    <3> QED BY <1>1, <3>1, <3>2 DEF Has
  <2>3. ASSUME d = c PROVE Has(Append(q, c), d)
    <3>1. Len(q) + 1 \in 1..(Len(q) + 1) BY <1>1
    <3> QED BY <1>1, <2>3, <3>1 DEF Has
  <2> QED BY <2>1, <2>2, <2>3
<1>3. IsInjective(q) /\ ~Has(q, c) => IsInjective(Append(q, c))
  BY <1>1 DEF IsInjective, Has
<1> QED BY <1>1, <1>2, <1>3

\* What is left in a queue after its head was taken.
LEMMA TailHas ==
  ASSUME NEW q \in Seq(Cmd), q # <<>>, IsInjective(q)
  PROVE  /\ Head(q) \in Cmd /\ Tail(q) \in Seq(Cmd) /\ Has(q, Head(q))
         /\ ~Has(Tail(q), Head(q)) /\ IsInjective(Tail(q))
         /\ \A d \in Cmd : Has(q, d) <=> d = Head(q) \/ Has(Tail(q), d)
<1>1. /\ Head(q) \in Cmd /\ Tail(q) \in Seq(Cmd) /\ Head(q) = q[1]
      /\ Len(q) \in Nat /\ Len(q) >= 1 /\ Len(Tail(q)) = Len(q) - 1
      /\ \A i \in 1..(Len(q) - 1) : Tail(q)[i] = q[i + 1]
  OBVIOUS
<1>2. Has(q, Head(q)) BY <1>1 DEF Has
<1>3. ~Has(Tail(q), Head(q)) BY <1>1 DEF Has, IsInjective
<1>4. IsInjective(Tail(q)) BY <1>1 DEF IsInjective
<1>5. \A d \in Cmd : Has(q, d) <=> d = Head(q) \/ Has(Tail(q), d)
  <2> SUFFICES ASSUME NEW d \in Cmd
               PROVE Has(q, d) <=> d = Head(q) \/ Has(Tail(q), d)
    OBVIOUS
  <2>1. ASSUME Has(q, d) PROVE d = Head(q) \/ Has(Tail(q), d)
    <3>1. PICK i \in 1..Len(q) : q[i] = d BY <2>1 DEF Has
    <3>2. CASE i = 1 BY <1>1, <3>1, <3>2
    <3>3. CASE i # 1
      <4>1. i - 1 \in 1..(Len(q) - 1) /\ i = (i - 1) + 1 BY <1>1, <3>3
      <4> QED BY <1>1, <3>1, <4>1 DEF Has
    <3> QED BY <3>2, <3>3
  <2>2. ASSUME Has(Tail(q), d) PROVE Has(q, d)
    <3>1. PICK i \in 1..(Len(q) - 1) : Tail(q)[i] = d BY <1>1, <2>2 DEF Has
    <3>2. i + 1 \in 1..Len(q) BY <1>1
    <3> QED BY <1>1, <3>1, <3>2 DEF Has
  <2> QED BY <1>2, <2>1, <2>2
<1> QED BY <1>1, <1>2, <1>3, <1>4, <1>5

LEMMA InvInit == Init => IInv
<1> SUFFICES ASSUME Init PROVE IInv
  OBVIOUS
<1>1. <<>> \in Seq(Cmd) /\ IsInjective(<<>>) /\ \A c \in Cmd : ~Has(<<>>, c)
  BY DEF IsInjective, Has
<1>2. None \notin Cmd /\ "free" \notin Cmd /\ "thread" \notin Cmd BY CmdAssumption DEF None
<1> QED BY <1>1, <1>2
  DEF Init, IInv, TypeOK, OneOwner, OwnedOnce, Context, ContextOf, Locked, LockedBy, Holding, Awake, InQueue,
      Callers, None

LEMMA InvNext == IInv /\ [Next]_vars => IInv'
<1> SUFFICES ASSUME IInv, [Next]_vars PROVE IInv'
  OBVIOUS
<1>a. None \notin Cmd /\ "free" \notin Cmd /\ "thread" \notin Cmd BY CmdAssumption DEF None
<1>b. TypeOK /\ OneOwner /\ Context /\ Locked /\ Holding /\ Awake BY DEF IInv
<1>c. sema \in Nat BY <1>b DEF TypeOK
<1>d. sessions \in Nat /\ ips \in Nat BY <1>b DEF TypeOK
<1>e. sema + 1 \in Nat /\ sema + 1 # 0 BY <1>c
<1>f. sessions + 1 \in Nat /\ ips + 1 \in Nat BY <1>d
<1> USE DEF calls, thread, device
<1>1. ASSUME NEW c \in Cmd, NEW wait \in BOOLEAN, Call(c, wait) PROVE IInv'
  <2>0. \A e \in Cmd : InQueue(e)' <=> InQueue(e) BY <1>1 DEF Call, InQueue
  <2>f. /\ pc[c] = "idle" /\ pc'[c] = "filter" /\ mem'[c] = "live" /\ ptr'[c] = wait
        /\ status'[c] = IF wait THEN "submitted" ELSE "none"
        /\ \A e \in Cmd : e # c => pc'[e] = pc[e] /\ mem'[e] = mem[e] /\ ptr'[e] = ptr[e]
                               /\ status'[e] = status[e]
    BY <1>a, <1>b, <1>1 DEF Call, TypeOK, Holding, Goto
  <2>1. TypeOK'
    <3>1. /\ pc \in [Cmd -> {"idle", "filter", "insert", "up", "wait", "clear", "returned"}]
          /\ mem \in [Cmd -> {"none", "live", "freed"}] /\ ptr \in [Cmd -> BOOLEAN]
          /\ status \in [Cmd -> {"none", "submitted", "success", "error", "drop"}]
      BY <1>b DEF TypeOK
    <3>2. /\ pc' \in [Cmd -> {"idle", "filter", "insert", "up", "wait", "clear", "returned"}]
          /\ mem' \in [Cmd -> {"none", "live", "freed"}]
      BY <1>1, <3>1 DEF Call, Goto
    <3>3. ptr' \in [Cmd -> BOOLEAN] BY <1>1, <3>1 DEF Call
    <3>4. status' \in [Cmd -> {"none", "submitted", "success", "error", "drop"}]
      BY <1>1, <3>1 DEF Call
    <3> QED BY ZenonT(60), <1>b, <1>1, <3>2, <3>3, <3>4 DEF Call, TypeOK
  <2>2. OneOwner'
    <3>1. IsInjective(queue)' BY <1>a, <1>b, <1>1, <2>0 DEF Call, OneOwner
    <3>2. ASSUME NEW e \in Cmd PROVE OwnedOnce(e)'
      <4>1. OwnedOnce(e) /\ ContextOf(e) BY <1>b DEF OneOwner, Context
      <4>2. CASE e = c BY <1>a, <1>b, <1>1, <2>0, <2>f, <4>1, <4>2 DEF Call, OwnedOnce, ContextOf, Callers, Holding
      <4>3. CASE e # c BY <1>a, <1>b, <1>1, <2>0, <2>f, <4>1, <4>3 DEF Call, OwnedOnce, Callers
      <4> QED BY <4>2, <4>3
    <3> QED BY <3>1, <3>2 DEF OneOwner
  <2>3. Context'
    <3>1. ASSUME NEW e \in Cmd PROVE ContextOf(e)'
      <4>1. ContextOf(e) /\ OwnedOnce(e) /\ LockedBy(e) BY <1>b DEF Context, OneOwner, Locked
      <4>2. CASE e = c BY <1>a, <1>b, <1>1, <2>f, <4>1, <4>2 DEF Call, ContextOf, OwnedOnce, Callers, Locked
      <4>3. CASE e # c BY <2>f, <4>1, <4>3 DEF ContextOf
      <4> QED BY <4>2, <4>3
    <3> QED BY <3>1 DEF Context
  <2>4. Locked'
    <3>1. ASSUME NEW e \in Cmd PROVE LockedBy(e)'
      <4>1. LockedBy(e) /\ ContextOf(e) BY <1>b DEF Locked, Context
      <4>2. CASE e = c BY <1>a, <1>b, <1>1, <2>f, <4>1, <4>2 DEF Call, LockedBy, ContextOf, Locked
      <4>3. CASE e # c BY <1>a, <1>b, <1>1, <2>f, <4>1, <4>3 DEF Call, LockedBy, Locked
      <4> QED BY <4>2, <4>3
    <3>2. (th' = "answer" => ptr'[held']) /\ (th' = "free" => ~ptr'[held'])
      <4>1. th' = th /\ held' = held BY <1>1 DEF Call
      <4>2. OwnedOnce(c) /\ LockedBy(c) /\ ContextOf(c) BY <1>b DEF OneOwner, Locked, Context
      <4>3. ASSUME th \in {"answer", "free"} PROVE held \in Cmd
        BY <1>b, <4>3 DEF TypeOK, Holding
      <4>4. CASE held = c BY <1>a, <1>b, <1>1, <2>f, <4>1, <4>2, <4>4 DEF Call, OwnedOnce, LockedBy, ContextOf, Callers, Locked
      <4>5. CASE held # c BY <1>b, <2>f, <4>1, <4>3, <4>5 DEF Locked
      <4> QED BY <4>4, <4>5
    <3> QED BY <1>a, <1>b, <1>1, <3>1, <3>2 DEF Call, Locked, TypeOK
  <2>5. Holding' BY <1>a, <1>b, <1>1 DEF Call, Holding, TypeOK
  <2>6. Awake' BY ZenonT(60), <1>a, <1>b, <1>1, <2>0, <2>f DEF Call, Awake, TypeOK, Holding
  <2> QED BY <2>1, <2>2, <2>3, <2>4, <2>5, <2>6 DEF IInv
<1>2. ASSUME NEW c \in Cmd, Refused(c) PROVE IInv'
  <2>0. \A e \in Cmd : InQueue(e)' <=> InQueue(e) BY <1>2 DEF Refused, InQueue
  <2>f. /\ pc[c] = "filter" /\ pc'[c] = "returned" /\ mem'[c] = "freed" /\ ~ptr'[c]
        /\ status'[c] = status[c]
        /\ \A e \in Cmd : e # c => pc'[e] = pc[e] /\ mem'[e] = mem[e] /\ ptr'[e] = ptr[e]
                               /\ status'[e] = status[e]
    BY <1>a, <1>b, <1>2 DEF Refused, TypeOK, Holding, Goto
  <2>1. TypeOK' BY ZenonT(60), <1>a, <1>b, <1>2, <2>0 DEF Refused, TypeOK, Goto
  <2>2. OneOwner'
    <3>1. IsInjective(queue)' BY <1>a, <1>b, <1>2, <2>0 DEF Refused, OneOwner
    <3>2. ASSUME NEW e \in Cmd PROVE OwnedOnce(e)'
      <4>1. OwnedOnce(e) /\ ContextOf(e) BY <1>b DEF OneOwner, Context
      <4>2. CASE e = c BY <1>a, <1>b, <1>2, <2>0, <2>f, <4>1, <4>2 DEF Refused, OwnedOnce, ContextOf, Callers, Holding
      <4>3. CASE e # c BY <1>a, <1>b, <1>2, <2>0, <2>f, <4>1, <4>3 DEF Refused, OwnedOnce, Callers
      <4> QED BY <4>2, <4>3
    <3> QED BY <3>1, <3>2 DEF OneOwner
  <2>3. Context'
    <3>1. ASSUME NEW e \in Cmd PROVE ContextOf(e)'
      <4>1. ContextOf(e) /\ OwnedOnce(e) /\ LockedBy(e) BY <1>b DEF Context, OneOwner, Locked
      <4>2. CASE e = c BY <1>a, <1>b, <1>2, <2>f, <4>1, <4>2 DEF Refused, ContextOf, OwnedOnce, Callers, Locked
      <4>3. CASE e # c BY <2>f, <4>1, <4>3 DEF ContextOf
      <4> QED BY <4>2, <4>3
    <3> QED BY <3>1 DEF Context
  <2>4. Locked'
    <3>1. ASSUME NEW e \in Cmd PROVE LockedBy(e)'
      <4>1. LockedBy(e) /\ ContextOf(e) BY <1>b DEF Locked, Context
      <4>2. CASE e = c BY <1>a, <1>b, <1>2, <2>f, <4>1, <4>2 DEF Refused, LockedBy, ContextOf, Locked
      <4>3. CASE e # c BY <1>a, <1>b, <1>2, <2>f, <4>1, <4>3 DEF Refused, LockedBy, Locked
      <4> QED BY <4>2, <4>3
    <3>2. (th' = "answer" => ptr'[held']) /\ (th' = "free" => ~ptr'[held'])
      <4>1. th' = th /\ held' = held BY <1>2 DEF Refused
      <4>2. OwnedOnce(c) /\ LockedBy(c) /\ ContextOf(c) BY <1>b DEF OneOwner, Locked, Context
      <4>3. ASSUME th \in {"answer", "free"} PROVE held \in Cmd
        BY <1>b, <4>3 DEF TypeOK, Holding
      <4>4. CASE held = c BY <1>a, <1>b, <1>2, <2>f, <4>1, <4>2, <4>4 DEF Refused, OwnedOnce, LockedBy, ContextOf, Callers, Locked
      <4>5. CASE held # c BY <1>b, <2>f, <4>1, <4>3, <4>5 DEF Locked
      <4> QED BY <4>4, <4>5
    <3> QED BY <1>a, <1>b, <1>2, <3>1, <3>2 DEF Refused, Locked, TypeOK
  <2>5. Holding' BY <1>a, <1>b, <1>2 DEF Refused, Holding, TypeOK
  <2>6. Awake'
    <3>1. OwnedOnce(c) BY <1>b DEF OneOwner
    <3>2. ~InQueue(c) BY <2>f, <3>1 DEF OwnedOnce, Callers
    <3> QED BY <1>b, <1>2, <2>0, <2>f, <3>2 DEF Refused, Awake
  <2> QED BY <2>1, <2>2, <2>3, <2>4, <2>5, <2>6 DEF IInv
<1>3. ASSUME NEW c \in Cmd, Passed(c) PROVE IInv'
  <2>0. \A e \in Cmd : InQueue(e)' <=> InQueue(e) BY <1>3 DEF Passed, InQueue
  <2>f. /\ pc[c] = "filter" /\ pc'[c] = "insert" /\ mem'[c] = mem[c] /\ ptr'[c] = ptr[c]
        /\ status'[c] = status[c]
        /\ \A e \in Cmd : e # c => pc'[e] = pc[e] /\ mem'[e] = mem[e] /\ ptr'[e] = ptr[e]
                               /\ status'[e] = status[e]
    BY <1>a, <1>b, <1>3 DEF Passed, TypeOK, Holding, Goto
  <2>1. TypeOK' BY ZenonT(60), <1>a, <1>b, <1>3, <2>0 DEF Passed, TypeOK, Goto
  <2>2. OneOwner'
    <3>1. IsInjective(queue)' BY <1>a, <1>b, <1>3, <2>0 DEF Passed, OneOwner
    <3>2. ASSUME NEW e \in Cmd PROVE OwnedOnce(e)'
      <4>1. OwnedOnce(e) /\ ContextOf(e) BY <1>b DEF OneOwner, Context
      <4>2. CASE e = c BY <1>a, <1>b, <1>3, <2>0, <2>f, <4>1, <4>2 DEF Passed, OwnedOnce, ContextOf, Callers, Holding
      <4>3. CASE e # c BY <1>a, <1>b, <1>3, <2>0, <2>f, <4>1, <4>3 DEF Passed, OwnedOnce, Callers
      <4> QED BY <4>2, <4>3
    <3> QED BY <3>1, <3>2 DEF OneOwner
  <2>3. Context'
    <3>1. ASSUME NEW e \in Cmd PROVE ContextOf(e)'
      <4>1. ContextOf(e) /\ OwnedOnce(e) /\ LockedBy(e) BY <1>b DEF Context, OneOwner, Locked
      <4>2. CASE e = c BY <1>a, <1>b, <1>3, <2>f, <4>1, <4>2 DEF Passed, ContextOf, OwnedOnce, Callers, Locked
      <4>3. CASE e # c BY <2>f, <4>1, <4>3 DEF ContextOf
      <4> QED BY <4>2, <4>3
    <3> QED BY <3>1 DEF Context
  <2>4. Locked'
    <3>1. ASSUME NEW e \in Cmd PROVE LockedBy(e)'
      <4>1. LockedBy(e) /\ ContextOf(e) BY <1>b DEF Locked, Context
      <4>2. CASE e = c BY <1>a, <1>b, <1>3, <2>f, <4>1, <4>2 DEF Passed, LockedBy, ContextOf, Locked
      <4>3. CASE e # c BY <1>a, <1>b, <1>3, <2>f, <4>1, <4>3 DEF Passed, LockedBy, Locked
      <4> QED BY <4>2, <4>3
    <3>2. (th' = "answer" => ptr'[held']) /\ (th' = "free" => ~ptr'[held'])
      <4>1. th' = th /\ held' = held BY <1>3 DEF Passed
      <4>2. OwnedOnce(c) /\ LockedBy(c) /\ ContextOf(c) BY <1>b DEF OneOwner, Locked, Context
      <4>3. ASSUME th \in {"answer", "free"} PROVE held \in Cmd
        BY <1>b, <4>3 DEF TypeOK, Holding
      <4>4. CASE held = c BY <1>a, <1>b, <1>3, <2>f, <4>1, <4>2, <4>4 DEF Passed, OwnedOnce, LockedBy, ContextOf, Callers, Locked
      <4>5. CASE held # c BY <1>b, <2>f, <4>1, <4>3, <4>5 DEF Locked
      <4> QED BY <4>4, <4>5
    <3> QED BY <1>a, <1>b, <1>3, <3>1, <3>2 DEF Passed, Locked, TypeOK
  <2>5. Holding' BY <1>a, <1>b, <1>3 DEF Passed, Holding, TypeOK
  <2>6. Awake' BY ZenonT(60), <1>a, <1>b, <1>3, <2>0, <2>f DEF Passed, Awake, TypeOK, Holding
  <2> QED BY <2>1, <2>2, <2>3, <2>4, <2>5, <2>6 DEF IInv
<1>4. ASSUME NEW c \in Cmd, Insert(c) PROVE IInv'
  <2>0. /\ queue' \in Seq(Cmd) /\ IsInjective(queue')
        /\ \A e \in Cmd : InQueue(e)' <=> e = c \/ InQueue(e)
    <3>1. queue \in Seq(Cmd) /\ IsInjective(queue) /\ ~Has(queue, c)
      BY <1>b, <1>4 DEF TypeOK, OneOwner, OwnedOnce, Insert, InQueue, Callers
    <3> QED BY <3>1, <1>4, AppendHas DEF Insert, InQueue
  <2>f. /\ pc[c] = "insert" /\ pc'[c] = "up" /\ mem'[c] = mem[c] /\ ptr'[c] = ptr[c]
        /\ status'[c] = status[c]
        /\ \A e \in Cmd : e # c => pc'[e] = pc[e] /\ mem'[e] = mem[e] /\ ptr'[e] = ptr[e]
                               /\ status'[e] = status[e]
    BY <1>a, <1>b, <1>4 DEF Insert, TypeOK, Holding, Goto
  <2>1. TypeOK' BY ZenonT(60), <1>a, <1>b, <1>4, <2>0 DEF Insert, TypeOK, Goto
  <2>2. OneOwner'
    <3>1. IsInjective(queue)' BY <1>a, <1>b, <1>4, <2>0 DEF Insert, OneOwner
    <3>2. ASSUME NEW e \in Cmd PROVE OwnedOnce(e)'
      <4>1. OwnedOnce(e) /\ ContextOf(e) BY <1>b DEF OneOwner, Context
      <4>2. CASE e = c BY <1>a, <1>b, <1>4, <2>0, <2>f, <4>1, <4>2 DEF Insert, OwnedOnce, ContextOf, Callers, Holding
      <4>3. CASE e # c BY <1>a, <1>b, <1>4, <2>0, <2>f, <4>1, <4>3 DEF Insert, OwnedOnce, Callers
      <4> QED BY <4>2, <4>3
    <3> QED BY <3>1, <3>2 DEF OneOwner
  <2>3. Context'
    <3>1. ASSUME NEW e \in Cmd PROVE ContextOf(e)'
      <4>1. ContextOf(e) /\ OwnedOnce(e) /\ LockedBy(e) BY <1>b DEF Context, OneOwner, Locked
      <4>2. CASE e = c BY <1>a, <1>b, <1>4, <2>f, <4>1, <4>2 DEF Insert, ContextOf, OwnedOnce, Callers, Locked
      <4>3. CASE e # c BY <2>f, <4>1, <4>3 DEF ContextOf
      <4> QED BY <4>2, <4>3
    <3> QED BY <3>1 DEF Context
  <2>4. Locked'
    <3>1. ASSUME NEW e \in Cmd PROVE LockedBy(e)'
      <4>1. LockedBy(e) /\ ContextOf(e) BY <1>b DEF Locked, Context
      <4>2. CASE e = c BY <1>a, <1>b, <1>4, <2>f, <4>1, <4>2 DEF Insert, LockedBy, ContextOf, Locked
      <4>3. CASE e # c BY <1>a, <1>b, <1>4, <2>f, <4>1, <4>3 DEF Insert, LockedBy, Locked
      <4> QED BY <4>2, <4>3
    <3>2. (th' = "answer" => ptr'[held']) /\ (th' = "free" => ~ptr'[held'])
      <4>1. th' = th /\ held' = held BY <1>4 DEF Insert
      <4>2. OwnedOnce(c) /\ LockedBy(c) /\ ContextOf(c) BY <1>b DEF OneOwner, Locked, Context
      <4>3. ASSUME th \in {"answer", "free"} PROVE held \in Cmd
        BY <1>b, <4>3 DEF TypeOK, Holding
      <4>4. CASE held = c BY <1>a, <1>b, <1>4, <2>f, <4>1, <4>2, <4>4 DEF Insert, OwnedOnce, LockedBy, ContextOf, Callers, Locked
      <4>5. CASE held # c BY <1>b, <2>f, <4>1, <4>3, <4>5 DEF Locked
      <4> QED BY <4>4, <4>5
    <3> QED BY <1>a, <1>b, <1>4, <3>1, <3>2 DEF Insert, Locked, TypeOK
  <2>5. Holding' BY <1>a, <1>b, <1>4 DEF Insert, Holding, TypeOK
  <2>6. Awake' BY ZenonT(60), <1>a, <1>b, <1>4, <2>0, <2>f DEF Insert, Awake, TypeOK, Holding
  <2> QED BY <2>1, <2>2, <2>3, <2>4, <2>5, <2>6 DEF IInv
<1>5. ASSUME NEW c \in Cmd, Up(c) PROVE IInv'
  <2>0. \A e \in Cmd : InQueue(e)' <=> InQueue(e) BY <1>5 DEF Up, InQueue
  <2>f. /\ pc[c] = "up" /\ mem'[c] = mem[c] /\ ptr'[c] = ptr[c] /\ status'[c] = status[c]
        /\ pc'[c] = IF status[c] = "none" THEN "returned" ELSE "wait"
        /\ \A e \in Cmd : e # c => pc'[e] = pc[e] /\ mem'[e] = mem[e] /\ ptr'[e] = ptr[e]
                               /\ status'[e] = status[e]
    BY <1>a, <1>b, <1>5 DEF Up, TypeOK, Holding, Goto
  <2>1. TypeOK' BY ZenonT(60), <1>a, <1>b, <1>5, <1>e, <2>0 DEF Up, TypeOK, Goto
  <2>2. OneOwner'
    <3>1. IsInjective(queue)' BY <1>a, <1>b, <1>5, <2>0 DEF Up, OneOwner
    <3>2. ASSUME NEW e \in Cmd PROVE OwnedOnce(e)'
      <4>1. OwnedOnce(e) /\ ContextOf(e) BY <1>b DEF OneOwner, Context
      <4>2. CASE e = c BY <1>a, <1>b, <1>5, <2>0, <2>f, <4>1, <4>2 DEF Up, OwnedOnce, ContextOf, Callers, Holding
      <4>3. CASE e # c BY <1>a, <1>b, <1>5, <2>0, <2>f, <4>1, <4>3 DEF Up, OwnedOnce, Callers
      <4> QED BY <4>2, <4>3
    <3> QED BY <3>1, <3>2 DEF OneOwner
  <2>3. Context'
    <3>1. ASSUME NEW e \in Cmd PROVE ContextOf(e)'
      <4>1. ContextOf(e) /\ OwnedOnce(e) /\ LockedBy(e) BY <1>b DEF Context, OneOwner, Locked
      <4>2. CASE e = c BY <1>a, <1>b, <1>5, <2>f, <4>1, <4>2 DEF Up, ContextOf, OwnedOnce, Callers, Locked
      <4>3. CASE e # c BY <2>f, <4>1, <4>3 DEF ContextOf
      <4> QED BY <4>2, <4>3
    <3> QED BY <3>1 DEF Context
  <2>4. Locked'
    <3>1. ASSUME NEW e \in Cmd PROVE LockedBy(e)'
      <4>1. LockedBy(e) /\ ContextOf(e) BY <1>b DEF Locked, Context
      <4>2. CASE e = c BY <1>a, <1>b, <1>5, <2>f, <4>1, <4>2 DEF Up, LockedBy, ContextOf, Locked
      <4>3. CASE e # c BY <1>a, <1>b, <1>5, <2>f, <4>1, <4>3 DEF Up, LockedBy, Locked
      <4> QED BY <4>2, <4>3
    <3>2. (th' = "answer" => ptr'[held']) /\ (th' = "free" => ~ptr'[held'])
      <4>1. th' = th /\ held' = held BY <1>5 DEF Up
      <4>2. OwnedOnce(c) /\ LockedBy(c) /\ ContextOf(c) BY <1>b DEF OneOwner, Locked, Context
      <4>3. ASSUME th \in {"answer", "free"} PROVE held \in Cmd
        BY <1>b, <4>3 DEF TypeOK, Holding
      <4>4. CASE held = c BY <1>a, <1>b, <1>5, <2>f, <4>1, <4>2, <4>4 DEF Up, OwnedOnce, LockedBy, ContextOf, Callers, Locked
      <4>5. CASE held # c BY <1>b, <2>f, <4>1, <4>3, <4>5 DEF Locked
      <4> QED BY <4>4, <4>5
    <3> QED BY <1>a, <1>b, <1>5, <3>1, <3>2 DEF Up, Locked, TypeOK
  <2>5. Holding' BY <1>a, <1>b, <1>5 DEF Up, Holding, TypeOK
  <2>6. Awake' BY <1>5, <1>e DEF Up, Awake
  <2> QED BY <2>1, <2>2, <2>3, <2>4, <2>5, <2>6 DEF IInv
<1>6. ASSUME NEW c \in Cmd, LockWaiter(c) PROVE IInv'
  <2>0. \A e \in Cmd : InQueue(e)' <=> InQueue(e) BY <1>6 DEF LockWaiter, InQueue
  <2>f. /\ pc[c] = "wait" /\ mem'[c] = mem[c] /\ ptr'[c] = ptr[c] /\ status'[c] = status[c]
        /\ pc'[c] = IF status[c] = "submitted" THEN "clear" ELSE "returned"
        /\ \A e \in Cmd : e # c => pc'[e] = pc[e] /\ mem'[e] = mem[e] /\ ptr'[e] = ptr[e]
                               /\ status'[e] = status[e]
    BY <1>a, <1>b, <1>6 DEF LockWaiter, TypeOK, Holding, Goto
  <2>1. TypeOK' BY ZenonT(60), <1>a, <1>b, <1>6, <2>0 DEF LockWaiter, TypeOK, Goto
  <2>2. OneOwner'
    <3>1. IsInjective(queue)' BY <1>a, <1>b, <1>6, <2>0 DEF LockWaiter, OneOwner
    <3>2. ASSUME NEW e \in Cmd PROVE OwnedOnce(e)'
      <4>1. OwnedOnce(e) /\ ContextOf(e) BY <1>b DEF OneOwner, Context
      <4>2. CASE e = c BY <1>a, <1>b, <1>6, <2>0, <2>f, <4>1, <4>2 DEF LockWaiter, OwnedOnce, ContextOf, Callers, Holding
      <4>3. CASE e # c BY <1>a, <1>b, <1>6, <2>0, <2>f, <4>1, <4>3 DEF LockWaiter, OwnedOnce, Callers
      <4> QED BY <4>2, <4>3
    <3> QED BY <3>1, <3>2 DEF OneOwner
  <2>3. Context'
    <3>1. ASSUME NEW e \in Cmd PROVE ContextOf(e)'
      <4>1. ContextOf(e) /\ OwnedOnce(e) /\ LockedBy(e) BY <1>b DEF Context, OneOwner, Locked
      <4>2. CASE e = c BY <1>a, <1>b, <1>6, <2>f, <4>1, <4>2 DEF LockWaiter, ContextOf, OwnedOnce, Callers, Locked
      <4>3. CASE e # c BY <2>f, <4>1, <4>3 DEF ContextOf
      <4> QED BY <4>2, <4>3
    <3> QED BY <3>1 DEF Context
  <2>4. Locked'
    <3>1. ASSUME NEW e \in Cmd PROVE LockedBy(e)'
      <4>1. LockedBy(e) /\ ContextOf(e) BY <1>b DEF Locked, Context
      <4>2. CASE e = c BY <1>a, <1>b, <1>6, <2>f, <4>1, <4>2 DEF LockWaiter, LockedBy, ContextOf, Locked
      <4>3. CASE e # c BY <1>a, <1>b, <1>6, <2>f, <4>1, <4>3 DEF LockWaiter, LockedBy, Locked
      <4> QED BY <4>2, <4>3
    <3>2. (th' = "answer" => ptr'[held']) /\ (th' = "free" => ~ptr'[held'])
      <4>1. th' = th /\ held' = held BY <1>6 DEF LockWaiter
      <4>2. OwnedOnce(c) /\ LockedBy(c) /\ ContextOf(c) BY <1>b DEF OneOwner, Locked, Context
      <4>3. ASSUME th \in {"answer", "free"} PROVE held \in Cmd
        BY <1>b, <4>3 DEF TypeOK, Holding
      <4>4. CASE held = c BY <1>a, <1>b, <1>6, <2>f, <4>1, <4>2, <4>4 DEF LockWaiter, OwnedOnce, LockedBy, ContextOf, Callers, Locked
      <4>5. CASE held # c BY <1>b, <2>f, <4>1, <4>3, <4>5 DEF Locked
      <4> QED BY <4>4, <4>5
    <3> QED BY <1>a, <1>b, <1>6, <3>1, <3>2 DEF LockWaiter, Locked, TypeOK
  <2>5. Holding' BY <1>a, <1>b, <1>6 DEF LockWaiter, Holding, TypeOK
  <2>6. Awake' BY <1>a, <1>b, <1>6, <2>0, <2>f DEF LockWaiter, Awake, TypeOK, Holding
  <2> QED BY <2>1, <2>2, <2>3, <2>4, <2>5, <2>6 DEF IInv
<1>7. ASSUME NEW c \in Cmd, Clear(c) PROVE IInv'
  <2>0. \A e \in Cmd : InQueue(e)' <=> InQueue(e) BY <1>7 DEF Clear, InQueue
  <2>f. /\ pc[c] = "clear" /\ pc'[c] = "returned" /\ mem'[c] = mem[c] /\ ~ptr'[c]
        /\ status'[c] = status[c]
        /\ \A e \in Cmd : e # c => pc'[e] = pc[e] /\ mem'[e] = mem[e] /\ ptr'[e] = ptr[e]
                               /\ status'[e] = status[e]
    BY <1>a, <1>b, <1>7 DEF Clear, TypeOK, Holding, Goto
  <2>1. TypeOK' BY <1>a, <1>b, <1>7, <2>0 DEF Clear, TypeOK, Goto
  <2>2. OneOwner'
    <3>1. IsInjective(queue)' BY <1>a, <1>b, <1>7, <2>0 DEF Clear, OneOwner
    <3>2. ASSUME NEW e \in Cmd PROVE OwnedOnce(e)'
      <4>1. OwnedOnce(e) /\ ContextOf(e) BY <1>b DEF OneOwner, Context
      <4>2. CASE e = c BY <1>a, <1>b, <1>7, <2>0, <2>f, <4>1, <4>2 DEF Clear, OwnedOnce, ContextOf, Callers, Holding
      <4>3. CASE e # c BY <1>a, <1>b, <1>7, <2>0, <2>f, <4>1, <4>3 DEF Clear, OwnedOnce, Callers
      <4> QED BY <4>2, <4>3
    <3> QED BY <3>1, <3>2 DEF OneOwner
  <2>3. Context'
    <3>1. ASSUME NEW e \in Cmd PROVE ContextOf(e)'
      <4>1. ContextOf(e) /\ OwnedOnce(e) /\ LockedBy(e) BY <1>b DEF Context, OneOwner, Locked
      <4>2. CASE e = c BY <1>a, <1>b, <1>7, <2>f, <4>1, <4>2 DEF Clear, ContextOf, OwnedOnce, Callers, Locked
      <4>3. CASE e # c BY <2>f, <4>1, <4>3 DEF ContextOf
      <4> QED BY <4>2, <4>3
    <3> QED BY <3>1 DEF Context
  <2>4. Locked'
    <3>1. ASSUME NEW e \in Cmd PROVE LockedBy(e)'
      <4>1. LockedBy(e) /\ ContextOf(e) BY <1>b DEF Locked, Context
      <4>2. CASE e = c BY <1>a, <1>b, <1>7, <2>f, <4>1, <4>2 DEF Clear, LockedBy, ContextOf, Locked
      <4>3. CASE e # c BY <1>a, <1>b, <1>7, <2>f, <4>1, <4>3 DEF Clear, LockedBy, Locked
      <4> QED BY <4>2, <4>3
    <3>2. (th' = "answer" => ptr'[held']) /\ (th' = "free" => ~ptr'[held'])
      <4>1. th' = th /\ held' = held BY <1>7 DEF Clear
      <4>2. OwnedOnce(c) /\ LockedBy(c) /\ ContextOf(c) BY <1>b DEF OneOwner, Locked, Context
      <4>3. ASSUME th \in {"answer", "free"} PROVE held \in Cmd
        BY <1>b, <4>3 DEF TypeOK, Holding
      <4>4. CASE held = c BY <1>a, <1>b, <1>7, <2>f, <4>1, <4>2, <4>4 DEF Clear, OwnedOnce, LockedBy, ContextOf, Callers, Locked
      <4>5. CASE held # c BY <1>b, <2>f, <4>1, <4>3, <4>5 DEF Locked
      <4> QED BY <4>4, <4>5
    <3>3. mutex = c /\ th # "answer"
      BY <1>a, <1>b, <2>f DEF Locked, LockedBy
    <3> QED BY <1>7, <3>1, <3>2, <3>3 DEF Clear, Locked
  <2>5. Holding' BY <1>a, <1>b, <1>7 DEF Clear, Holding, TypeOK
  <2>6. Awake' BY <1>a, <1>b, <1>7, <2>0, <2>f DEF Clear, Awake, TypeOK, Holding
  <2> QED BY <2>1, <2>2, <2>3, <2>4, <2>5, <2>6 DEF IInv
<1>8. ASSUME ThreadStarts PROVE IInv'
  BY <1>a, <1>b, <1>8 DEF ThreadStarts, IInv, TypeOK, OneOwner, OwnedOnce, Context, ContextOf, Locked, LockedBy, Holding, Awake, InQueue, Callers
<1>9. ASSUME Down PROVE IInv'
  <2>0. \A e \in Cmd : InQueue(e)' <=> InQueue(e) BY <1>9 DEF Down, InQueue
  <2>s. sema > 0 BY <1>9 DEF Down
  <2>t. sema - 1 \in Nat BY <1>c, <2>s
  <2>1. TypeOK' BY <1>a, <1>b, <1>9, <2>0, <2>t DEF Down, TypeOK
  <2>2. OneOwner' BY <1>a, <1>b, <1>9, <2>0 DEF Down, OneOwner, OwnedOnce, Holding, Callers
  <2>3. Context' BY <1>b, <1>9 DEF Down, Context, ContextOf
  <2>4. Locked' BY <1>a, <1>b, <1>9 DEF Down, Locked, LockedBy
  <2>5. Holding' BY <1>a, <1>b, <1>9 DEF Down, Holding
  <2>6. Awake'
    <3>1. queue = <<>> => \A e \in Cmd : ~InQueue(e) BY DEF InQueue, Has
    <3> QED BY <1>9, <2>0, <3>1 DEF Down, Awake
  <2> QED BY <2>1, <2>2, <2>3, <2>4, <2>5, <2>6 DEF IInv
<1>10. ASSUME NextStops PROVE IInv'
  BY <1>a, <1>b, <1>10 DEF NextStops, IInv, TypeOK, OneOwner, OwnedOnce, Context, ContextOf, Locked, LockedBy, Holding, Awake, InQueue, Callers
<1>11. ASSUME NextTakes PROVE IInv'
  <2>a. queue \in Seq(Cmd) /\ queue # <<>> /\ IsInjective(queue)
    BY <1>b, <1>11 DEF TypeOK, OneOwner, NextTakes
  <2>b. held' = Head(queue) /\ queue' = Tail(queue) BY <1>11 DEF NextTakes
  <2>c. /\ Head(queue) \in Cmd /\ Tail(queue) \in Seq(Cmd) /\ Has(queue, Head(queue))
        /\ ~Has(Tail(queue), Head(queue)) /\ IsInjective(Tail(queue))
        /\ \A d \in Cmd : Has(queue, d) <=> d = Head(queue) \/ Has(Tail(queue), d)
    BY <2>a, TailHas
  <2>0. /\ queue' \in Seq(Cmd) /\ IsInjective(queue') /\ held' \in Cmd
        /\ Has(queue, held') /\ ~Has(queue', held')
        /\ \A e \in Cmd : Has(queue, e) <=> e = held' \/ Has(queue', e)
    BY <2>b, <2>c
  <2>1. TypeOK' BY <1>a, <1>b, <1>11, <2>0 DEF NextTakes, TypeOK
  <2>2. OneOwner'
    <3>a. ASSUME NEW e \in Cmd PROVE OwnedOnce(e)'
      <4>1. OwnedOnce(e) /\ held = None /\ pc' = pc /\ mem' = mem
        BY <1>b, <1>11 DEF OneOwner, Holding, NextTakes
      <4>2. CASE e = held' BY <1>a, <2>0, <4>1, <4>2 DEF OwnedOnce, InQueue, Callers
      <4>3. CASE e # held' BY <1>a, <2>0, <4>1, <4>3 DEF OwnedOnce, InQueue, Callers
      <4> QED BY <4>2, <4>3
    <3> QED BY <2>0, <3>a DEF OneOwner
  <2>3. Context' BY <1>b, <1>11 DEF NextTakes, Context, ContextOf
  <2>4. Locked' BY <1>a, <1>b, <1>11 DEF NextTakes, Locked, LockedBy
  <2>5. Holding' BY <1>a, <1>b, <1>11, <2>0 DEF NextTakes, Holding
  <2>6. Awake' BY <1>11 DEF NextTakes, Awake
  <2> QED BY <2>1, <2>2, <2>3, <2>4, <2>5, <2>6 DEF IInv
<1>12. ASSUME NextEmpty PROVE IInv'
  <2>0. \A e \in Cmd : InQueue(e)' <=> InQueue(e) BY <1>12 DEF NextEmpty, InQueue
  <2>1. TypeOK' BY <1>a, <1>b, <1>12, <2>0 DEF NextEmpty, TypeOK
  <2>2. OneOwner' BY <1>a, <1>b, <1>12, <2>0 DEF NextEmpty, OneOwner, OwnedOnce, Holding, Callers
  <2>3. Context' BY <1>b, <1>12 DEF NextEmpty, Context, ContextOf
  <2>4. Locked' BY <1>a, <1>b, <1>12 DEF NextEmpty, Locked, LockedBy
  <2>5. Holding' BY <1>a, <1>b, <1>12 DEF NextEmpty, Holding
  <2>6. Awake'
    <3>1. queue = <<>> => \A e \in Cmd : ~InQueue(e) BY DEF InQueue, Has
    <3> QED BY <1>12, <2>0, <3>1 DEF NextEmpty, Awake
  <2> QED BY <2>1, <2>2, <2>3, <2>4, <2>5, <2>6 DEF IInv
<1>13. ASSUME Execute PROVE IInv'
  BY <1>a, <1>b, <1>13 DEF Execute, IInv, TypeOK, OneOwner, OwnedOnce, Context, ContextOf, Locked, LockedBy, Holding, Awake, InQueue, Callers
<1>14. ASSUME LockThread PROVE IInv'
  <2>0. \A e \in Cmd : InQueue(e)' <=> InQueue(e) BY <1>14 DEF LockThread, InQueue
  <2>1. TypeOK' BY <1>a, <1>b, <1>14, <2>0 DEF LockThread, TypeOK
  <2>2. OneOwner' BY <1>a, <1>b, <1>14, <2>0 DEF LockThread, OneOwner, OwnedOnce, Holding, Callers
  <2>3. Context' BY <1>b, <1>14 DEF LockThread, Context, ContextOf
  <2>4. Locked' BY <1>a, <1>b, <1>14 DEF LockThread, Locked, LockedBy
  <2>5. Holding' BY <1>a, <1>b, <1>14 DEF LockThread, Holding
  <2>6. Awake' BY <1>a, <1>b, <1>14, <2>0 DEF LockThread, Awake
  <2> QED BY <2>1, <2>2, <2>3, <2>4, <2>5, <2>6 DEF IInv
<1>15. ASSUME Answer PROVE IInv'
  <2>0. \A e \in Cmd : InQueue(e)' <=> InQueue(e) BY <1>15 DEF Answer, InQueue
  <2>f. /\ pc'[held] = pc[held] /\ mem'[held] = mem[held] /\ ~ptr'[held]
        /\ status'[held] = res /\ res # "submitted" /\ held \in Cmd
        /\ \A e \in Cmd : e # held => pc'[e] = pc[e] /\ mem'[e] = mem[e] /\ ptr'[e] = ptr[e]
                               /\ status'[e] = status[e]
    BY <1>a, <1>b, <1>15 DEF Answer, TypeOK, Holding
  <2>1. TypeOK' BY <1>a, <1>b, <1>15, <2>0 DEF Answer, TypeOK, Holding
  <2>2. OneOwner'
    <3>1. IsInjective(queue)' BY <1>a, <1>b, <1>15, <2>0 DEF Answer, OneOwner
    <3>2. ASSUME NEW e \in Cmd PROVE OwnedOnce(e)'
      <4>1. OwnedOnce(e) /\ ContextOf(e) BY <1>b DEF OneOwner, Context
      <4>2. CASE e = held BY <1>a, <1>b, <1>15, <2>0, <2>f, <4>1, <4>2 DEF Answer, OwnedOnce, ContextOf, Callers, Holding
      <4>3. CASE e # held BY <1>a, <1>b, <1>15, <2>0, <2>f, <4>1, <4>3 DEF Answer, OwnedOnce, Callers
      <4> QED BY <4>2, <4>3
    <3> QED BY <3>1, <3>2 DEF OneOwner
  <2>3. Context'
    <3>1. ASSUME NEW e \in Cmd PROVE ContextOf(e)'
      <4>1. ContextOf(e) /\ OwnedOnce(e) /\ LockedBy(e) BY <1>b DEF Context, OneOwner, Locked
      <4>2. CASE e = held BY <1>a, <1>b, <1>15, <2>f, <4>1, <4>2 DEF Answer, ContextOf, OwnedOnce, Callers, Locked
      <4>3. CASE e # held BY <2>f, <4>1, <4>3 DEF ContextOf
      <4> QED BY <4>2, <4>3
    <3> QED BY <3>1 DEF Context
  <2>4. Locked'
    <3>1. ASSUME NEW e \in Cmd PROVE LockedBy(e)'
      <4>1. LockedBy(e) /\ ContextOf(e) BY <1>b DEF Locked, Context
      <4>2. CASE e = held BY <1>a, <1>b, <1>15, <2>f, <4>1, <4>2 DEF Answer, LockedBy, ContextOf, Locked
      <4>3. CASE e # held BY <1>a, <1>b, <1>15, <2>f, <4>1, <4>3 DEF Answer, LockedBy, Locked
      <4> QED BY <4>2, <4>3
    <3> QED BY <1>a, <1>b, <1>15, <2>f, <3>1 DEF Answer, Locked, Holding
  <2>5. Holding' BY <1>a, <1>b, <1>15 DEF Answer, Holding, TypeOK
  <2>6. Awake' BY <1>a, <1>b, <1>15, <2>0, <2>f DEF Answer, Awake, TypeOK, Holding
  <2> QED BY <2>1, <2>2, <2>3, <2>4, <2>5, <2>6 DEF IInv
<1>16. ASSUME Free PROVE IInv'
  <2>0. \A e \in Cmd : InQueue(e)' <=> InQueue(e) BY <1>16 DEF Free, InQueue
  <2>f. /\ pc'[held] = pc[held] /\ mem'[held] = "freed" /\ ptr'[held] = ptr[held]
        /\ status'[held] = status[held] /\ held \in Cmd
        /\ \A e \in Cmd : e # held => pc'[e] = pc[e] /\ mem'[e] = mem[e] /\ ptr'[e] = ptr[e]
                               /\ status'[e] = status[e]
    BY <1>a, <1>b, <1>16 DEF Free, TypeOK, Holding
  <2>1. TypeOK' BY <1>a, <1>b, <1>16, <2>0 DEF Free, TypeOK, Holding
  <2>2. OneOwner'
    <3>1. IsInjective(queue)' BY <1>a, <1>b, <1>16, <2>0 DEF Free, OneOwner
    <3>2. ASSUME NEW e \in Cmd PROVE OwnedOnce(e)'
      <4>1. OwnedOnce(e) /\ ContextOf(e) BY <1>b DEF OneOwner, Context
      <4>2. CASE e = held BY <1>a, <1>b, <1>16, <2>0, <2>f, <4>1, <4>2 DEF Free, OwnedOnce, ContextOf, Callers, Holding
      <4>3. CASE e # held BY <1>a, <1>b, <1>16, <2>0, <2>f, <4>1, <4>3 DEF Free, OwnedOnce, Callers
      <4> QED BY <4>2, <4>3
    <3> QED BY <3>1, <3>2 DEF OneOwner
  <2>3. Context'
    <3>1. ASSUME NEW e \in Cmd PROVE ContextOf(e)'
      <4>1. ContextOf(e) /\ OwnedOnce(e) /\ LockedBy(e) BY <1>b DEF Context, OneOwner, Locked
      <4>2. CASE e = held BY <1>a, <1>b, <1>16, <2>f, <4>1, <4>2 DEF Free, ContextOf, OwnedOnce, Callers, Locked
      <4>3. CASE e # held BY <2>f, <4>1, <4>3 DEF ContextOf
      <4> QED BY <4>2, <4>3
    <3> QED BY <3>1 DEF Context
  <2>4. Locked'
    <3>1. ASSUME NEW e \in Cmd PROVE LockedBy(e)'
      <4>1. LockedBy(e) /\ ContextOf(e) BY <1>b DEF Locked, Context
      <4>2. CASE e = held BY <1>a, <1>b, <1>16, <2>f, <4>1, <4>2 DEF Free, LockedBy, ContextOf, Locked
      <4>3. CASE e # held BY <1>a, <1>b, <1>16, <2>f, <4>1, <4>3 DEF Free, LockedBy, Locked
      <4> QED BY <4>2, <4>3
    <3> QED BY <1>a, <1>b, <1>16, <2>f, <3>1 DEF Free, Locked, Holding
  <2>5. Holding' BY <1>a, <1>b, <1>16 DEF Free, Holding, TypeOK
  <2>6. Awake' BY <1>a, <1>b, <1>16, <2>0, <2>f DEF Free, Awake, TypeOK, Holding
  <2> QED BY <2>1, <2>2, <2>3, <2>4, <2>5, <2>6 DEF IInv
<1>17. ASSUME Exit PROVE IInv'
  BY <1>a, <1>b, <1>17 DEF Exit, IInv, TypeOK, OneOwner, OwnedOnce, Context, ContextOf, Locked, LockedBy, Holding, Awake, InQueue, Callers
<1>18. ASSUME Drain PROVE IInv'
  <2>1. CASE queue = <<>>
    <3>0. queue' = <<>> BY <1>18, <2>1 DEF Drain
    <3>1. \A e \in Cmd : ~InQueue(e)' BY <3>0 DEF InQueue, Has
    <3>2. \A e \in Cmd : InQueue(e)' <=> InQueue(e) BY <1>18, <2>1 DEF Drain, InQueue
    <3>3. Awake' BY <3>1 DEF Awake
    <3>4. TypeOK' /\ Holding' /\ Context' /\ Locked'
      BY <1>a, <1>b, <1>18, <2>1 DEF Drain, TypeOK, Holding, Context, ContextOf, Locked, LockedBy
    <3>5. OneOwner' BY <1>a, <1>b, <1>18, <2>1, <3>2 DEF Drain, OneOwner, OwnedOnce, Callers
    <3> QED BY <3>3, <3>4, <3>5 DEF IInv
  <2>2. CASE queue # <<>>
    <3>1. /\ th = "drain" /\ held' = Head(queue) /\ queue' = Tail(queue) /\ res' = "drop"
          /\ th' = "post" /\ UNCHANGED <<calls, sema, mutex, running, device>>
      BY <1>18, <2>2 DEF Drain
    <3>2. queue \in Seq(Cmd) /\ IsInjective(queue) BY <1>b DEF TypeOK, OneOwner
    <3>c. /\ Head(queue) \in Cmd /\ Tail(queue) \in Seq(Cmd) /\ Has(queue, Head(queue))
          /\ ~Has(Tail(queue), Head(queue)) /\ IsInjective(Tail(queue))
          /\ \A d \in Cmd : Has(queue, d) <=> d = Head(queue) \/ Has(Tail(queue), d)
      BY <2>2, <3>2, TailHas
    <3>3. /\ queue' \in Seq(Cmd) /\ IsInjective(queue') /\ held' \in Cmd
          /\ Has(queue, held') /\ ~Has(queue', held')
          /\ \A e \in Cmd : Has(queue, e) <=> e = held' \/ Has(queue', e)
      BY <3>1, <3>c
    <3>4. TypeOK' BY <1>b, <3>1, <3>3 DEF TypeOK
    <3>5. OneOwner'
      <4>a. ASSUME NEW e \in Cmd PROVE OwnedOnce(e)'
        <5>1. OwnedOnce(e) /\ held = None /\ pc' = pc /\ mem' = mem
          BY <1>b, <3>1 DEF OneOwner, Holding
        <5>2. CASE e = held' BY <1>a, <3>3, <5>1, <5>2 DEF OwnedOnce, InQueue, Callers
        <5>3. CASE e # held' BY <1>a, <3>3, <5>1, <5>3 DEF OwnedOnce, InQueue, Callers
        <5> QED BY <5>2, <5>3
      <4> QED BY <3>3, <4>a DEF OneOwner
    <3>6. Context' /\ Locked' BY <1>a, <1>b, <3>1 DEF Context, ContextOf, Locked, LockedBy
    <3>7. Holding' /\ Awake' BY <1>a, <1>b, <3>1, <3>3 DEF Holding, Awake
    <3> QED BY <3>4, <3>5, <3>6, <3>7 DEF IInv
  <2> QED BY <2>1, <2>2
<1>19. ASSUME StartThread PROVE IInv'
  BY <1>a, <1>b, <1>19 DEF StartThread, IInv, TypeOK, OneOwner, OwnedOnce, Context, ContextOf, Locked, LockedBy, Holding, Awake, InQueue, Callers
<1>20. ASSUME Started PROVE IInv'
  BY ZenonT(60), <1>a, <1>b, <1>20 DEF Started, IInv, TypeOK, OneOwner, OwnedOnce, Context, ContextOf, Locked, LockedBy, Holding, Awake, InQueue, Callers
<1>21. ASSUME StopThread PROVE IInv'
  <2>0. \A e \in Cmd : InQueue(e)' <=> InQueue(e) BY <1>21 DEF StopThread, InQueue
  <2>1. TypeOK' BY <1>a, <1>b, <1>21, <1>e, <2>0 DEF StopThread, TypeOK
  <2>2. OneOwner' BY <1>a, <1>b, <1>21, <2>0 DEF StopThread, OneOwner, OwnedOnce, Holding, Callers
  <2>3. Context' BY <1>b, <1>21 DEF StopThread, Context, ContextOf
  <2>4. Locked' BY <1>a, <1>b, <1>21 DEF StopThread, Locked, LockedBy
  <2>5. Holding' BY <1>a, <1>b, <1>21 DEF StopThread, Holding
  <2>6. Awake' BY <1>21, <1>e DEF StopThread, Awake
  <2> QED BY <2>1, <2>2, <2>3, <2>4, <2>5, <2>6 DEF IInv
<1>22. ASSUME Stopped PROVE IInv'
  BY <1>a, <1>b, <1>22 DEF Stopped, IInv, TypeOK, OneOwner, OwnedOnce, Context, ContextOf, Locked, LockedBy, Holding, Awake, InQueue, Callers
<1>23. ASSUME IpsPower PROVE IInv'
  <2>0. \A e \in Cmd : InQueue(e)' <=> InQueue(e) BY <1>23 DEF IpsPower, InQueue
  <2>1. TypeOK' BY <1>a, <1>b, <1>23, <1>f, <2>0 DEF IpsPower, TypeOK
  <2>2. OneOwner' BY <1>a, <1>b, <1>23, <2>0 DEF IpsPower, OneOwner, OwnedOnce, Holding, Callers
  <2>3. Context' BY <1>b, <1>23 DEF IpsPower, Context, ContextOf
  <2>4. Locked' BY <1>a, <1>b, <1>23 DEF IpsPower, Locked, LockedBy
  <2>5. Holding' BY <1>a, <1>b, <1>23 DEF IpsPower, Holding
  <2>6. Awake' BY <1>a, <1>b, <1>23, <2>0 DEF IpsPower, Awake
  <2> QED BY <2>1, <2>2, <2>3, <2>4, <2>5, <2>6 DEF IInv
<1>24. ASSUME SurpriseRemoved PROVE IInv'
  BY ZenonT(60), <1>a, <1>b, <1>24 DEF SurpriseRemoved, IInv, TypeOK, OneOwner, OwnedOnce, Context, ContextOf, Locked, LockedBy, Holding, Awake, InQueue, Callers
<1>25. ASSUME SetStopped PROVE IInv'
  BY ZenonT(60), <1>a, <1>b, <1>25 DEF SetStopped, IInv, TypeOK, OneOwner, OwnedOnce, Context, ContextOf, Locked, LockedBy, Holding, Awake, InQueue, Callers
<1>26. ASSUME NEW ok \in BOOLEAN, Open(ok) PROVE IInv'
  <2>0. \A e \in Cmd : InQueue(e)' <=> InQueue(e) BY <1>26 DEF Open, InQueue
  <2>1. TypeOK' BY <1>a, <1>b, <1>26, <1>f, <2>0 DEF Open, TypeOK
  <2>2. OneOwner' BY <1>a, <1>b, <1>26, <2>0 DEF Open, OneOwner, OwnedOnce, Holding, Callers
  <2>3. Context' BY <1>b, <1>26 DEF Open, Context, ContextOf
  <2>4. Locked' BY <1>a, <1>b, <1>26 DEF Open, Locked, LockedBy
  <2>5. Holding' BY <1>a, <1>b, <1>26 DEF Open, Holding
  <2>6. Awake' BY <1>a, <1>b, <1>26, <2>0 DEF Open, Awake
  <2> QED BY <2>1, <2>2, <2>3, <2>4, <2>5, <2>6 DEF IInv
<1>27. CASE UNCHANGED vars
  <2>0. \A e \in Cmd : InQueue(e)' <=> InQueue(e) BY <1>27 DEF vars, InQueue
  <2>1. TypeOK' /\ Holding' BY ZenonT(60), <1>b, <1>27 DEF vars, TypeOK, Holding
  <2>2. OneOwner' BY <1>b, <1>27, <2>0 DEF vars, OneOwner, OwnedOnce, Callers
  <2>3. Context' /\ Locked' BY <1>b, <1>27 DEF vars, Context, ContextOf, Locked, LockedBy
  <2>4. Awake' BY <1>b, <1>27, <2>0 DEF vars, Awake
  <2> QED BY <2>1, <2>2, <2>3, <2>4 DEF IInv
<1> QED
  BY <1>1, <1>2, <1>3, <1>4, <1>5, <1>6, <1>7, <1>8, <1>9, <1>10, <1>11, <1>12, <1>13, <1>14, <1>15, <1>16, <1>17, <1>18, <1>19, <1>20, <1>21, <1>22, <1>23, <1>24, <1>25, <1>26, <1>27
  DEF Next, CallerStep, ThreadStep, ControlStep

LEMMA Invariance == Spec => []IInv
<1>1. Init => IInv BY InvInit
<1>2. IInv /\ [Next]_vars => IInv' BY InvNext
<1> QED BY <1>1, <1>2, PTL DEF Spec

\* The types of the state of the queue, of the thread and of the interface.
THEOREM TypeCorrect == Spec => []TypeOK
<1>1. IInv => TypeOK BY DEF IInv
<1> QED BY <1>1, Invariance, PTL

\* Every cmd_obj that is allocated and not freed has one owner, its caller, the
\* queue or the thread: none is lost, executed twice or freed twice, through any
\* number of openings and closings of the interface.
THEOREM EveryCommandOwnedOnce == Spec => []OneOwner
<1>1. IInv => OneOwner BY DEF IInv
<1> QED BY <1>1, Invariance, PTL

\* rtw_sctx_done_err writes only into the frame of a caller that still waits:
\* the caller that timed out takes its context out of the command under
\* sctx_mutex before it returns.
THEOREM AnswersReachWaiters == Spec => []AnswerOnLiveFrame
<1>1. IInv => AnswerOnLiveFrame
  <2> SUFFICES ASSUME IInv PROVE AnswerOnLiveFrame
    OBVIOUS
  <2>1. \A c \in Cmd : ptr[c] => pc[c] \notin {"idle", "returned"}
    BY DEF IInv, Context, ContextOf
  <2>2. ASSUME th = "answer" PROVE pc[held] \in {"up", "wait"}
    <3>1. held \in Cmd /\ ptr[held] /\ mutex = "thread"
      BY <2>2 DEF IInv, TypeOK, Holding, Locked
    <3>2. mutex # held BY <3>1, CmdAssumption
    <3>3. OwnedOnce(held) /\ LockedBy(held) BY <3>1 DEF IInv, OneOwner, Locked
    <3>4. pc[held] \notin {"filter", "insert", "clear", "idle", "returned"}
      BY <2>1, <3>1, <3>2, <3>3 DEF OwnedOnce, LockedBy, Callers
    <3>5. pc[held] \in {"idle", "filter", "insert", "up", "wait", "clear", "returned"}
      BY <3>1 DEF IInv, TypeOK
    <3> QED BY <3>4, <3>5
  <2> QED BY <2>1, <2>2 DEF AnswerOnLiveFrame
<1> QED BY <1>1, Invariance, PTL

\* The caller that gives up writes to a cmd_obj that the thread did not free.
THEOREM ClearsReachCommands == Spec => []ClearOnLiveCmd
<1>1. IInv => ClearOnLiveCmd
  BY DEF IInv, Context, ContextOf, Locked, LockedBy, ClearOnLiveCmd
<1> QED BY <1>1, Invariance, PTL

\* A command that is in the queue while the thread sleeps, the semaphore down,
\* is one whose caller is about to raise it, also after the thread was stopped
\* and started again.
THEOREM WakeUpsAreKept == Spec => []NoLostWakeup
<1>1. IInv => NoLostWakeup BY DEF IInv, Awake, NoLostWakeup
<1> QED BY <1>1, Invariance, PTL
=============================================================================
