---------------------------- MODULE UsbRecvProofs ----------------------------
(***************************************************************************)
(* Theorems about UsbRecv, for any buffers, skbs and bounds.               *)
(***************************************************************************)
EXTENDS UsbRecv, FiniteSetTheorems, SequenceTheorems, TLAPS

----------------------------------------------------------------------------
\* Sequences.

LEMMA ToSetIs ==
  ASSUME NEW S, NEW s \in Seq(S)
  PROVE  /\ ToSet(s) = {s[i] : i \in 1..Len(s)} /\ ToSet(s) \subseteq S
         /\ IsInjective(s) <=> \A i, j \in 1..Len(s) : s[i] = s[j] => i = j
<1>1. DOMAIN s = 1..Len(s) OBVIOUS
<1>2. \A i \in 1..Len(s) : s[i] \in S OBVIOUS
<1> QED BY <1>1, <1>2 DEF ToSet, IsInjective

LEMMA Appended ==
  ASSUME NEW S, NEW s \in Seq(S), NEW e \in S
  PROVE  /\ Append(s, e) \in Seq(S)
         /\ ToSet(Append(s, e)) = ToSet(s) \union {e}
         /\ IsInjective(s) /\ e \notin ToSet(s) => IsInjective(Append(s, e))
<1> DEFINE t == Append(s, e)
<1>1. /\ t \in Seq(S) /\ Len(t) = Len(s) + 1 /\ Len(s) \in Nat
      /\ \A i \in 1..Len(s) : t[i] = s[i]
      /\ t[Len(s) + 1] = e
  OBVIOUS
<1> HIDE DEF t
<1>2. \A i \in 1..Len(t) : i \in 1..Len(s) \/ i = Len(s) + 1
  BY <1>1
<1>3. ToSet(t) = ToSet(s) \union {e}
  BY <1>1, <1>2, ToSetIs
<1>4. IsInjective(s) /\ e \notin ToSet(s) => IsInjective(t)
  BY <1>1, <1>2, ToSetIs
<1> QED BY <1>1, <1>3, <1>4 DEF t

LEMMA Headed ==
  ASSUME NEW S, NEW s \in Seq(S), s # <<>>
  PROVE  /\ Head(s) \in S /\ Tail(s) \in Seq(S)
         /\ ToSet(s) = ToSet(Tail(s)) \union {Head(s)}
         /\ IsInjective(s) => IsInjective(Tail(s)) /\ Head(s) \notin ToSet(Tail(s))
<1> DEFINE t == Tail(s)
<1>1. /\ t \in Seq(S) /\ Len(s) \in Nat \ {0} /\ Len(t) = Len(s) - 1
      /\ \A i \in 1..Len(t) : t[i] = s[i + 1]
      /\ Head(s) = s[1] /\ s[1] \in S
  OBVIOUS
<1> HIDE DEF t
<1>2. \A i \in 1..Len(s) : i = 1 \/ (i - 1 \in 1..Len(t) /\ s[i] = t[i - 1])
  BY <1>1
<1>3. \A i \in 1..Len(t) : i + 1 \in 1..Len(s) /\ i + 1 # 1
  BY <1>1
<1>4. 1 \in 1..Len(s)
  BY <1>1
<1>5. ToSet(s) = ToSet(t) \union {Head(s)}
  <2>1. ToSet(s) = {s[i] : i \in 1..Len(s)} /\ ToSet(t) = {t[i] : i \in 1..Len(t)}
    BY <1>1, ToSetIs
  <2>2. \A x \in ToSet(s) : x = s[1] \/ x \in ToSet(t)
    BY <1>2, <2>1
  <2>3. s[1] \in ToSet(s)
    BY <1>4, <2>1
  <2>4. \A x \in ToSet(t) : x \in ToSet(s)
    BY <1>1, <1>3, <2>1
  <2> QED BY <1>1, <2>2, <2>3, <2>4
<1>6. ASSUME IsInjective(s) PROVE IsInjective(t) /\ Head(s) \notin ToSet(t)
  <2>1. \A i, j \in 1..Len(s) : s[i] = s[j] => i = j
    BY <1>6, ToSetIs
  <2>2. \A i, j \in 1..Len(t) : t[i] = t[j] => i = j
    BY <1>1, <1>3, <2>1
  <2>3. \A i \in 1..Len(t) : t[i] # s[1]
    BY <1>1, <1>3, <1>4, <2>1
  <2> QED BY <1>1, <2>2, <2>3, ToSetIs
<1> QED BY <1>1, <1>5, <1>6 DEF t

LEMMA UnlinkedIs ==
  ASSUME NEW S, NEW s \in Seq(S), NEW b, IsInjective(s)
  PROVE  /\ Unlinked(s, b) \in Seq(S) /\ IsInjective(Unlinked(s, b))
         /\ ToSet(Unlinked(s, b)) = ToSet(s) \ {b}
<1>1. CASE b \notin ToSet(s)
  BY <1>1 DEF Unlinked
<1>2. CASE b \in ToSet(s)
  <2> DEFINE k == CHOOSE i \in 1..Len(s) : s[i] = b
             l == SubSeq(s, 1, k - 1)
             r == SubSeq(s, k + 1, Len(s))
             t == l \o r
  <2>1. k \in 1..Len(s) /\ s[k] = b
    BY <1>2, ToSetIs
  <2>2. Unlinked(s, b) = t
    BY <1>2 DEF Unlinked, RemoveAt
  <2> HIDE DEF k
  <2>3. Len(s) \in Nat /\ k \in Nat /\ k >= 1 /\ k <= Len(s)
    BY <2>1
  <2>4. l \in Seq(S) /\ Len(l) = k - 1 /\ \A i \in 1..k - 1 : l[i] = s[i]
    BY <2>3
  <2>5. r \in Seq(S) /\ Len(r) = Len(s) - k /\ \A i \in 1..Len(s) - k : r[i] = s[k + i]
    BY <2>3
  <2> HIDE DEF l, r
  <2>6. /\ t \in Seq(S) /\ Len(t) = Len(s) - 1
        /\ \A i \in 1..Len(s) - 1 : t[i] = IF i < k THEN s[i] ELSE s[i + 1]
    <3>1. t \in Seq(S) /\ Len(t) = Len(l) + Len(r)
      BY SMTT(30), <2>4, <2>5
    <3>2. \A i \in 1..Len(l) + Len(r) : t[i] = IF i <= Len(l) THEN l[i] ELSE r[i - Len(l)]
      BY <2>4, <2>5, ConcatProperties
    <3>3. ASSUME NEW i \in 1..Len(s) - 1
          PROVE  t[i] = IF i < k THEN s[i] ELSE s[i + 1]
      <4>1. CASE i < k
        BY <2>3, <2>4, <2>5, <3>2, <4>1
      <4>2. CASE ~(i < k)
        <5>1. i - (k - 1) \in 1..Len(s) - k /\ k + (i - (k - 1)) = i + 1
          BY <2>3, <4>2
        <5>2. t[i] = r[i - (k - 1)]
          BY <2>3, <2>4, <2>5, <3>2, <4>2
        <5> QED BY <2>5, <4>2, <5>1, <5>2
      <4> QED BY <4>1, <4>2
    <3> QED BY <2>3, <2>4, <2>5, <3>1, <3>3
  <2> HIDE DEF t
  <2>7. \A i \in 1..Len(s) : s[i] = s[k] => i = k
    BY <2>1, ToSetIs
  <2>8. \A i \in 1..Len(s) - 1 : \E j \in 1..Len(s) : j # k /\ t[i] = s[j]
    <3> TAKE i \in 1..Len(s) - 1
    <3>1. CASE i < k
      <4>1. i \in 1..Len(s) /\ i # k /\ t[i] = s[i] BY <2>3, <2>6, <3>1
      <4> QED BY <4>1
    <3>2. CASE ~(i < k)
      <4>1. i + 1 \in 1..Len(s) /\ i + 1 # k /\ t[i] = s[i + 1] BY <2>3, <2>6, <3>2
      <4> QED BY <4>1
    <3> QED BY <3>1, <3>2
  <2>9. \A j \in 1..Len(s) : j # k => \E i \in 1..Len(s) - 1 : t[i] = s[j]
    <3> TAKE j \in 1..Len(s)
    <3> HAVE j # k
    <3>1. CASE j < k
      <4>1. j \in 1..Len(s) - 1 /\ t[j] = s[j] BY <2>3, <2>6, <3>1
      <4> QED BY <4>1
    <3>2. CASE j > k
      <4>1. j - 1 \in 1..Len(s) - 1 /\ t[j - 1] = s[j] BY <2>3, <2>6, <3>2
      <4> QED BY <4>1
    <3> QED BY <2>3, <3>1, <3>2
  <2>10. ToSet(t) = ToSet(s) \ {b}
    <3>1. ToSet(s) = {s[i] : i \in 1..Len(s)} /\ ToSet(t) = {t[i] : i \in 1..Len(s) - 1}
      BY <2>6, ToSetIs
    <3>2. \A x \in ToSet(t) : x \in ToSet(s) /\ x # b
      BY <2>1, <2>7, <2>8, <3>1
    <3>3. \A x \in ToSet(s) : x # b => x \in ToSet(t)
      BY <2>1, <2>9, <3>1
    <3> QED BY <3>2, <3>3
  <2>11. \A i, j \in 1..Len(s) : s[i] = s[j] => i = j
    BY ToSetIs
  <2>12. \A i, j \in 1..Len(s) - 1 : t[i] = t[j] => i = j
    BY <2>3, <2>6, <2>11
  <2>13. IsInjective(t)
    BY <2>6, <2>12, ToSetIs
  <2> QED BY <2>2, <2>6, <2>10, <2>13
<1> QED BY <1>1, <1>2

LEMMA SetToSeqIs ==
  ASSUME NEW S, IsFiniteSet(S)
  PROVE  /\ SetToSeq(S) \in Seq(S) /\ Len(SetToSeq(S)) = Cardinality(S)
         /\ IsInjective(SetToSeq(S)) /\ ToSet(SetToSeq(S)) = S
<1> DEFINE n == Cardinality(S)
           f == SetToSeq(S)
<1>1. n \in Nat /\ ExistsBijection(1..n, S)
  BY FS_CardinalityType
<1>2. \E g \in [1..n -> S] : IsInjective(g)
  BY <1>1 DEF ExistsBijection, Bijection, Injection
<1>3. f \in [1..n -> S] /\ IsInjective(f)
  BY <1>2 DEF SetToSeq
<1>4. f \in Injection(1..n, S)
  BY <1>3 DEF Injection
<1>5. Cardinality(1..n) = n
  BY <1>1, FS_Interval
<1>6. f \in Surjection(1..n, S)
  BY <1>4, <1>5, FS_Injection
<1> HIDE DEF f
<1>7. f \in Seq(S) /\ Len(f) = n
  BY <1>1, <1>3
<1>8. ToSet(f) = S
  <2>1. \A x \in S : \E i \in 1..n : f[i] = x
    BY <1>6 DEF Surjection
  <2>2. ToSet(f) = {f[i] : i \in 1..n} /\ ToSet(f) \subseteq S
    BY <1>7, ToSetIs
  <2> QED BY <2>1, <2>2
<1> QED BY <1>3, <1>7, <1>8 DEF f
----------------------------------------------------------------------------
\* What usb_read_port does to a pool.

Pools == [flight : SUBSET Buffer, pending : Seq(Buffer), skb : [Buffer -> Skb \union {None}],
          freeq : Seq(Skb), heap : SUBSET Skb, lost : SUBSET Buffer]

\* An skb moves from the free queue, or from memory, into the buffer.
LEMMA WithSkbGives ==
  ASSUME NEW p \in Pools, NEW b \in Buffer, NEW q \in WithSkb(p, b)
  PROVE  /\ q \in Pools
         /\ q.flight = p.flight /\ q.pending = p.pending /\ q.lost = p.lost
         /\ q.skb[b] # None /\ (p.skb[b] # None => q = p)
         /\ \A c \in Buffer \ {b} : q.skb[c] = p.skb[c]
         /\ \A R : OnePlace(p, R) => OnePlace(q, R)
<1>1. CASE p.skb[b] # None
  BY <1>1 DEF WithSkb
<1>2. CASE p.skb[b] = None /\ p.freeq # <<>>
  <2> DEFINE k == Head(p.freeq)
  <2>1. q = [p EXCEPT !.skb[b] = k, !.freeq = Tail(p.freeq)]
    BY <1>2 DEF WithSkb
  <2>2. /\ k \in Skb /\ Tail(p.freeq) \in Seq(Skb)
        /\ ToSet(p.freeq) = ToSet(Tail(p.freeq)) \union {k}
        /\ IsInjective(p.freeq) => IsInjective(Tail(p.freeq)) /\ k \notin ToSet(Tail(p.freeq))
    BY <1>2, Headed DEF Pools
  <2> HIDE DEF k
  <2>3. k # None
    BY <2>2, RecvAssumption
  <2>4. /\ q.flight = p.flight /\ q.pending = p.pending /\ q.lost = p.lost /\ q.heap = p.heap
        /\ q.freeq = Tail(p.freeq) /\ q.skb = [p.skb EXCEPT ![b] = k]
    BY <2>1 DEF Pools
  <2>5. q \in Pools
    BY <2>1, <2>2 DEF Pools
  <2>6. q.skb[b] = k /\ \A c \in Buffer \ {b} : q.skb[c] = p.skb[c]
    BY <2>4 DEF Pools
  <2>7. ASSUME NEW R, OnePlace(p, R) PROVE OnePlace(q, R)
    <3>1. k \in ToSet(p.freeq) /\ k \notin p.heap /\ k \notin R /\ k \notin ToSet(q.freeq)
      BY <2>2, <2>4, <2>7 DEF OnePlace
    <3>2. \A c \in Buffer : p.skb[c] # k
      BY <2>7, <3>1 DEF OnePlace
    <3>3. ToSet(p.freeq) = ToSet(q.freeq) \union {k} /\ IsInjective(q.freeq)
      BY <2>2, <2>4, <2>7 DEF OnePlace
    <3>4. \A c, d \in Buffer : q.skb[c] = q.skb[d] /\ q.skb[c] # None => c = d
      BY <2>6, <2>7, <3>2 DEF OnePlace
    <3>5. \A c \in Buffer : q.skb[c] \notin ToSet(q.freeq) \union q.heap \union R
      BY <2>4, <2>6, <2>7, <3>1, <3>3 DEF OnePlace
    <3>6. \A j \in Skb : j \in ToSet(q.freeq) \union q.heap \union R
                         \/ \E c \in Buffer : q.skb[c] = j
      <4> TAKE j \in Skb
      <4>1. CASE j = k BY <2>6, <4>1
      <4>2. CASE j # k
        <5>1. CASE j \in ToSet(p.freeq) \union p.heap \union R
          BY <2>4, <3>3, <4>2, <5>1
        <5>2. CASE \E c \in Buffer : p.skb[c] = j
          <6>1. PICK c \in Buffer : p.skb[c] = j BY <5>2
          <6>2. c # b BY <1>2, <6>1, RecvAssumption
          <6> QED BY <2>6, <6>1, <6>2
        <5> QED BY <2>7, <5>1, <5>2 DEF OnePlace
      <4> QED BY <4>1, <4>2
    <3>7. (\A j \in ToSet(q.freeq) : j \notin q.heap \union R) /\ (\A j \in q.heap : j \notin R)
      BY <2>4, <2>7, <3>3 DEF OnePlace
    <3> QED BY <3>3, <3>4, <3>5, <3>6, <3>7 DEF OnePlace
  <2> QED BY <1>2, <2>3, <2>4, <2>5, <2>6, <2>7
<1>3. CASE p.skb[b] = None /\ p.freeq = <<>>
  <2>1. PICK k \in p.heap : q = [p EXCEPT !.skb[b] = k, !.heap = p.heap \ {k}]
    BY <1>3 DEF WithSkb
  <2>2. k \in Skb /\ k # None
    BY RecvAssumption DEF Pools
  <2>4. /\ q.flight = p.flight /\ q.pending = p.pending /\ q.lost = p.lost
        /\ q.heap = p.heap \ {k}
        /\ q.freeq = p.freeq /\ q.skb = [p.skb EXCEPT ![b] = k]
    BY <2>1 DEF Pools
  <2>5. q \in Pools
    BY <2>1, <2>2 DEF Pools
  <2>6. q.skb[b] = k /\ \A c \in Buffer \ {b} : q.skb[c] = p.skb[c]
    BY <2>4 DEF Pools
  <2>7. ASSUME NEW R, OnePlace(p, R) PROVE OnePlace(q, R)
    <3>1. k \notin ToSet(p.freeq) /\ k \notin R
      BY <2>7 DEF OnePlace
    <3>2. \A c \in Buffer : p.skb[c] # k
      BY <2>7 DEF OnePlace
    <3>4. \A c, d \in Buffer : q.skb[c] = q.skb[d] /\ q.skb[c] # None => c = d
      BY <2>6, <2>7, <3>2 DEF OnePlace
    <3>5. \A c \in Buffer : q.skb[c] \notin ToSet(q.freeq) \union q.heap \union R
      BY <2>4, <2>6, <2>7, <3>1 DEF OnePlace
    <3>6. \A j \in Skb : j \in ToSet(q.freeq) \union q.heap \union R
                         \/ \E c \in Buffer : q.skb[c] = j
      <4> TAKE j \in Skb
      <4>1. CASE j = k BY <2>6, <4>1
      <4>2. CASE j # k
        <5>1. CASE j \in ToSet(p.freeq) \union p.heap \union R
          BY <2>4, <4>2, <5>1
        <5>2. CASE \E c \in Buffer : p.skb[c] = j
          <6>1. PICK c \in Buffer : p.skb[c] = j BY <5>2
          <6>2. c # b BY <1>3, <6>1, RecvAssumption
          <6> QED BY <2>6, <6>1, <6>2
        <5> QED BY <2>7, <5>1, <5>2 DEF OnePlace
      <4> QED BY <4>1, <4>2
    <3>7. /\ IsInjective(q.freeq)
          /\ \A j \in ToSet(q.freeq) : j \notin q.heap \union R
          /\ \A j \in q.heap : j \notin R
      BY <2>4, <2>7 DEF OnePlace
    <3> QED BY <3>4, <3>5, <3>6, <3>7 DEF OnePlace
  <2> QED BY <1>3, <2>2, <2>4, <2>5, <2>6, <2>7
<1> QED BY <1>1, <1>2, <1>3

\* Only a buffer without an skb is left without, and only without a free one.
LEMMA WithoutSkb ==
  ASSUME NEW p \in Pools, NEW b \in Buffer, WithSkb(p, b) = {}
  PROVE  p.skb[b] = None /\ p.freeq = <<>>
BY DEF WithSkb

\* A submission changes nothing but flight and lost, and leaves the buffer in one.
LEMMA SubmitGives ==
  ASSUME NEW p \in Pools, NEW b \in Buffer, NEW q \in Submit(p, b)
  PROVE  /\ q \in Pools
         /\ q.pending = p.pending /\ q.skb = p.skb /\ q.freeq = p.freeq /\ q.heap = p.heap
         /\ q.flight = p.flight \/ q.flight = p.flight \union {b}
         /\ b \in q.flight \union q.lost /\ p.lost \ {b} \subseteq q.lost
<1>1. CASE b \in p.flight
  BY <1>1 DEF Submit
<1>2. CASE b \notin p.flight
  <2>1. \/ q = [p EXCEPT !.flight = @ \union {b}, !.lost = @ \ {b}]
        \/ q = [p EXCEPT !.lost = @ \union {b}]
    BY <1>2 DEF Submit
  <2>2. CASE q = [p EXCEPT !.flight = @ \union {b}, !.lost = @ \ {b}]
    <3>1. /\ q.pending = p.pending /\ q.skb = p.skb /\ q.freeq = p.freeq /\ q.heap = p.heap
          /\ q.flight = p.flight \union {b} /\ q.lost = p.lost \ {b}
      BY <2>2 DEF Pools
    <3>2. q \in Pools BY <2>2 DEF Pools
    <3> QED BY <3>1, <3>2
  <2>3. CASE q = [p EXCEPT !.lost = @ \union {b}]
    <3>1. /\ q.pending = p.pending /\ q.skb = p.skb /\ q.freeq = p.freeq /\ q.heap = p.heap
          /\ q.flight = p.flight /\ q.lost = p.lost \union {b}
      BY <2>3 DEF Pools
    <3>2. q \in Pools BY <2>3 DEF Pools
    <3> QED BY <3>1, <3>2
  <2> QED BY <2>1, <2>2, <2>3
<1> QED BY <1>1, <1>2

LEMMA ReadPortGives ==
  ASSUME NEW p \in Pools, NEW b \in Buffer, NEW q \in ReadPort(p, b), IsInjective(p.pending)
  PROVE  /\ q \in Pools
         /\ q.flight = p.flight \/ q.flight = p.flight \union {b}
         /\ IsInjective(q.pending)
         /\ \/ q.pending = p.pending
            \/ /\ ToSet(q.pending) = ToSet(p.pending) \union {b}
               /\ q.skb[b] = None /\ p.skb[b] = None /\ q.flight = p.flight
         /\ \A c \in Buffer \ {b} : q.skb[c] = p.skb[c]
         /\ p.skb[b] # None => q.skb[b] = p.skb[b]
         /\ b \in q.flight \ p.flight => q.skb[b] # None
         /\ p.lost \ {b} \subseteq q.lost
         /\ ~CannotRx => b \in q.flight \union ToSet(q.pending) \union q.lost
         /\ CannotRx => q = p
         /\ p.freeq # <<>> /\ ~CannotRx => q.skb[b] # None
         /\ \A R : OnePlace(p, R) => OnePlace(q, R)
<1>1. CASE CannotRx
  <2>1. q = p BY <1>1 DEF ReadPort
  <2> QED BY <1>1, <2>1
<1>2. CASE ~CannotRx /\ WithSkb(p, b) = {}
  <2>1. q = Waiting(p, b)
    BY <1>2 DEF ReadPort
  <2>2. p.skb[b] = None /\ p.freeq = <<>>
    BY <1>2, WithoutSkb
  <2> DEFINE u == Unlinked(p.pending, b)
  <2>3. u \in Seq(Buffer) /\ IsInjective(u) /\ ToSet(u) = ToSet(p.pending) \ {b}
    BY UnlinkedIs DEF Pools
  <2> HIDE DEF u
  <2>4. /\ Append(u, b) \in Seq(Buffer) /\ IsInjective(Append(u, b))
        /\ ToSet(Append(u, b)) = ToSet(p.pending) \union {b}
    BY <2>3, Appended
  <2>5. q = [p EXCEPT !.pending = Append(u, b)]
    BY <2>1 DEF Waiting, Pools, u
  <2>6. /\ q \in Pools /\ q.pending = Append(u, b) /\ q.flight = p.flight /\ q.skb = p.skb
        /\ q.freeq = p.freeq /\ q.heap = p.heap /\ q.lost = p.lost
    BY <2>4, <2>5 DEF Pools
  <2>7. \A R : OnePlace(p, R) => OnePlace(q, R)
    BY <2>6 DEF OnePlace
  <2> QED BY <1>2, <2>2, <2>4, <2>6, <2>7
<1>3. CASE ~CannotRx /\ WithSkb(p, b) # {}
  <2>1. PICK r \in WithSkb(p, b) : q \in Submit(r, b)
    BY <1>3 DEF ReadPort
  <2>2. /\ r \in Pools /\ r.flight = p.flight /\ r.pending = p.pending /\ r.lost = p.lost
        /\ r.skb[b] # None /\ (p.skb[b] # None => r = p)
        /\ \A c \in Buffer \ {b} : r.skb[c] = p.skb[c]
        /\ \A R : OnePlace(p, R) => OnePlace(r, R)
    BY WithSkbGives
  <2>3. /\ q \in Pools
        /\ q.pending = r.pending /\ q.skb = r.skb /\ q.freeq = r.freeq /\ q.heap = r.heap
        /\ q.flight = r.flight \/ q.flight = r.flight \union {b}
        /\ b \in q.flight \union q.lost /\ r.lost \ {b} \subseteq q.lost
    BY <2>1, <2>2, SubmitGives
  <2>4. \A R : OnePlace(r, R) => OnePlace(q, R)
    BY <2>3 DEF OnePlace
  <2> QED BY <1>3, <2>2, <2>3, <2>4
<1> QED BY <1>1, <1>2, <1>3
----------------------------------------------------------------------------
\* The pool of a state, and of the state after it.

LEMMA PoolIs ==
  ASSUME TypeOK
  PROVE  /\ Pool \in Pools
         /\ Pool.flight = flight /\ Pool.pending = pending /\ Pool.skb = skb
         /\ Pool.freeq = freeq /\ Pool.heap = heap /\ Pool.lost = lost
BY DEF TypeOK, Pool, Pools

\* A buffer whose URB comes back, and what becomes of its skb.
LEMMA LandedIs ==
  ASSUME TypeOK, NEW b \in Buffer
  PROVE  /\ Landed(b) \in Pools /\ Landed(b).flight = flight \ {b}
         /\ Landed(b).pending = pending /\ Landed(b).skb = skb
         /\ Landed(b).freeq = freeq /\ Landed(b).heap = heap /\ Landed(b).lost = lost
         /\ \A R : OnePlace(Pool, R) => OnePlace(Landed(b), R)
<1>1. /\ Landed(b) \in Pools /\ Landed(b).flight = flight \ {b}
      /\ Landed(b).pending = pending /\ Landed(b).skb = skb
      /\ Landed(b).freeq = freeq /\ Landed(b).heap = heap /\ Landed(b).lost = lost
  BY PoolIs DEF Landed, Pools
<1> QED BY <1>1, PoolIs DEF OnePlace

LEMMA Becomes ==
  ASSUME NEW p \in Pools, Become(p)
  PROVE  /\ flight' = p.flight /\ pending' = p.pending /\ skb' = p.skb
         /\ freeq' = p.freeq /\ heap' = p.heap /\ lost' = p.lost
         /\ flight' \in SUBSET Buffer /\ lost' \in SUBSET Buffer /\ pending' \in Seq(Buffer)
         /\ skb' \in [Buffer -> Skb \union {None}] /\ freeq' \in Seq(Skb)
         /\ heap' \in SUBSET Skb
         /\ \A R : OnePlace(p, R) => OnePlace(Pool', R)
<1>1. /\ flight' = p.flight /\ pending' = p.pending /\ skb' = p.skb
      /\ freeq' = p.freeq /\ heap' = p.heap /\ lost' = p.lost
  BY DEF Become
<1>2. Pool' = [flight |-> p.flight, pending |-> p.pending, skb |-> p.skb, freeq |-> p.freeq,
               heap |-> p.heap, lost |-> p.lost]
  BY <1>1 DEF Pool
<1>3. Pool' = p
  BY <1>2 DEF Pools
<1> QED BY <1>1, <1>3 DEF Pools

LEMMA InitInv == Init => IInv
<1> SUFFICES ASSUME Init PROVE IInv
  OBVIOUS
<1> USE DEF Init
<1>1. /\ SetToSeq(Buffer) \in Seq(Buffer) /\ IsInjective(SetToSeq(Buffer))
      /\ ToSet(SetToSeq(Buffer)) = Buffer
  BY RecvAssumption, SetToSeqIs
<1>2. freeq \in Seq(Skb) /\ IsInjective(freeq)
  <2> DEFINE f == SetToSeq(Skb)
  <2>1. f \in Seq(Skb) /\ Len(f) = Cardinality(Skb) /\ IsInjective(f)
    BY RecvAssumption, SetToSeqIs
  <2> HIDE DEF f
  <2>2. Prealloc \in 0..Len(f)
    BY <2>1, RecvAssumption
  <2>3. freeq = SubSeq(f, 1, Prealloc)
    BY DEF f
  <2>4. freeq \in Seq(Skb) /\ Len(freeq) = Prealloc /\ \A i \in 1..Prealloc : freeq[i] = f[i]
    BY <2>1, <2>2, <2>3
  <2>5. \A i, j \in 1..Len(f) : f[i] = f[j] => i = j
    BY <2>1, ToSetIs
  <2>6. \A i, j \in 1..Len(freeq) : freeq[i] = freeq[j] => i = j
    BY <2>1, <2>2, <2>4, <2>5
  <2> QED BY <2>4, <2>6, ToSetIs
<1>3. ToSet(freeq) \subseteq Skb
  BY <1>2, ToSetIs
<1>4. TypeOK
  <2>1. pending \in Seq(Buffer) /\ rxq \in Seq(Skb) /\ todo \in Seq(Buffer)
    BY <1>1
  <2>2. skb \in [Buffer -> Skb \union {None}]
    OBVIOUS
  <2>3. ioErr \in 0..MaxIoErr + 1 /\ starts \in 1..MaxStarts
    BY RecvAssumption
  <2>4. flight \subseteq Buffer /\ lost \subseteq Buffer /\ heap \subseteq Skb
    OBVIOUS
  <2> QED BY <1>2, <2>1, <2>2, <2>3, <2>4 DEF TypeOK
<1>5. ToSet(<<>>) = {} /\ IsInjective(<<>>)
  BY DEF ToSet, IsInjective
<1>6. OnePlace(Pool, ToSet(rxq))
  BY <1>2, <1>3, <1>4, <1>5, PoolIs, RecvAssumption DEF OnePlace
<1>7. ErrorsCounted /\ Stopping /\ FlightHasSkb /\ NoStuckPacket
  BY RecvAssumption DEF ErrorsCounted, Stopping, FlightHasSkb, NoStuckPacket
<1>8. Accounted
  BY <1>1 DEF Accounted
<1>9. Queued
  BY <1>1, <1>5 DEF Queued
<1> QED BY <1>4, <1>5, <1>6, <1>7, <1>8, <1>9 DEF IInv, Owned
----------------------------------------------------------------------------
\* Completions.

\* Steps that only take a buffer out of flight, when the driver cannot receive
\* any more or the buffer is noted as left alone.
LEMMA LandsOnly ==
  ASSUME IInv, NEW b \in Buffer, b \in flight,
         CompletesDisabled(b) \/ CompletesFatal(b) \/ CompletesOther(b)
         \/ \E error \in BOOLEAN : CompletesRetry(b, error) /\ removed'
  PROVE  IInv'
<1> USE DEF flags
<1>1. /\ TypeOK /\ ErrorsCounted /\ Stopping /\ Accounted /\ Queued /\ Owned
      /\ FlightHasSkb /\ NoStuckPacket
  BY DEF IInv
<1>2. /\ flight' = flight \ {b} /\ pending' = pending /\ skb' = skb /\ freeq' = freeq
      /\ heap' = heap /\ lost' \in SUBSET Buffer /\ lost \subseteq lost'
      /\ CannotRx' \/ b \in lost'
      /\ \A R : OnePlace(Pool, R) => OnePlace(Pool', R)
  <2>1. CASE CompletesOther(b)
    <3> DEFINE q == [Landed(b) EXCEPT !.lost = @ \union {b}]
    <3>1. /\ q \in Pools /\ q.flight = flight \ {b} /\ q.pending = pending /\ q.skb = skb
          /\ q.freeq = freeq /\ q.heap = heap /\ q.lost = lost \union {b}
      BY <1>1, LandedIs DEF Pools
    <3>2. \A R : OnePlace(Pool, R) => OnePlace(q, R)
      BY <1>1, <3>1, PoolIs DEF OnePlace
    <3>3. Become(q)
      BY <2>1 DEF CompletesOther
    <3> HIDE DEF q
    <3> QED BY <3>1, <3>2, <3>3, Becomes
  <2>2. CASE ~CompletesOther(b)
    <3>1. Become(Landed(b)) /\ CannotRx'
      BY <2>2 DEF CompletesDisabled, CompletesFatal, CompletesRetry, CannotRx, CannotRun
    <3> QED BY <1>1, <3>1, LandedIs, Becomes
  <2> QED BY <2>1, <2>2
<1>3. UNCHANGED <<rxq, tasklet, rxOff, ctl, todo, starts, leftover>>
  BY DEF CompletesDisabled, CompletesFatal, CompletesOther, CompletesRetry
<1>4. /\ ioErr' \in 0..MaxIoErr + 1 /\ stopped' \in BOOLEAN /\ removed' \in BOOLEAN
      /\ ErrorsCounted' /\ (CannotRun => CannotRun') /\ (ctl = "unload" => stopped')
  <2>1. CASE CompletesDisabled(b)
    <3>1. UNCHANGED <<ioErr, stopped, removed>> BY <2>1 DEF CompletesDisabled
    <3> QED BY <1>1, <1>3, <3>1 DEF TypeOK, ErrorsCounted, CannotRun, Stopping
  <2>2. CASE ~CompletesDisabled(b)
    <3>1. ~CannotRx /\ (stopped' = stopped \/ stopped' = TRUE) /\ removed' = (ioErr' > MaxIoErr)
          /\ (ioErr' = ioErr \/ ioErr' = ioErr + 1)
      BY <2>2 DEF CompletesFatal, CompletesOther, CompletesRetry
    <3>2. ioErr \in 0..MaxIoErr
      BY <1>1, <3>1, RecvAssumption DEF TypeOK, ErrorsCounted, CannotRx, CannotRun
    <3>3. ioErr' \in 0..MaxIoErr + 1
      BY <3>1, <3>2, RecvAssumption
    <3>4. ctl \in {"starting", "open"}
      BY <1>1, <3>1 DEF TypeOK, Stopping, CannotRx, CannotRun
    <3>5. stopped' \in BOOLEAN /\ removed' \in BOOLEAN
      <4>1. stopped' \in BOOLEAN BY <1>1, <3>1 DEF TypeOK
      <4>2. removed' = TRUE \/ removed' = FALSE BY <3>1
      <4> QED BY <4>1, <4>2
    <3>6. ErrorsCounted'
      BY <1>3, <3>1, <3>4 DEF ErrorsCounted
    <3>7. ~CannotRun /\ ctl # "unload"
      BY <3>1, <3>4 DEF CannotRx
    <3> QED BY <3>3, <3>5, <3>6, <3>7
  <2> QED BY <2>1, <2>2
<1>5. TypeOK'
  <2>1. flight' \subseteq Buffer /\ lost' \subseteq Buffer
    BY <1>1, <1>2 DEF TypeOK
  <2> QED BY <1>1, <1>2, <1>3, <1>4, <2>1 DEF TypeOK
<1>6. Stopping'
  BY <1>1, <1>2, <1>3, <1>4 DEF Stopping
<1>7. Accounted'
  BY <1>1, <1>2, <1>3, <1>4 DEF Accounted, CannotRx
<1>8. Queued'
  BY <1>1, <1>2, <1>3 DEF Queued
<1>9. Owned'
  BY <1>1, <1>2, <1>3 DEF Owned
<1>10. FlightHasSkb'
  BY <1>1, <1>2 DEF FlightHasSkb
<1>11. NoStuckPacket'
  BY <1>1, <1>3, <1>4 DEF NoStuckPacket
<1> QED BY <1>4, <1>5, <1>6, <1>7, <1>8, <1>9, <1>10, <1>11 DEF IInv

\* A packet goes to the tasklet and the buffer gets another skb, or waits.
LEMMA CompletesKeeps ==
  ASSUME IInv, NEW b \in Buffer, Completes(b)
  PROVE  IInv'
<1> USE DEF flags
<1>1. /\ TypeOK /\ ErrorsCounted /\ Stopping /\ Accounted /\ Queued /\ Owned
      /\ FlightHasSkb /\ NoStuckPacket
  BY DEF IInv
<1> DEFINE l == [Landed(b) EXCEPT !.skb[b] = None]
<1>2. b \in flight /\ ~CannotRx /\ skb[b] \in Skb /\ skb[b] # None
  BY <1>1, RecvAssumption DEF Completes, FlightHasSkb, TypeOK
<1>3. UNCHANGED <<stopped, removed, rxOff, ctl, todo, starts, leftover>> /\ ioErr' = 0
  BY DEF Completes
<1>4. rxq' = Append(rxq, skb[b])
      /\ tasklet' = IF Len(rxq') <= 1 /\ tasklet = "idle" THEN "scheduled" ELSE tasklet
  BY DEF Completes
<1>5. /\ l \in Pools /\ l.flight = flight \ {b} /\ l.pending = pending
      /\ l.skb = [skb EXCEPT ![b] = None] /\ l.freeq = freeq /\ l.heap = heap /\ l.lost = lost
  <2>1. /\ Landed(b) \in Pools /\ Landed(b).flight = flight \ {b} /\ Landed(b).pending = pending
        /\ Landed(b).skb = skb /\ Landed(b).freeq = freeq /\ Landed(b).heap = heap
        /\ Landed(b).lost = lost
    BY <1>1, LandedIs
  <2> DEFINE m == Landed(b)
  <2> HIDE DEF m
  <2>2. m \in Pools /\ l = [m EXCEPT !.skb[b] = None]
    BY <2>1 DEF m
  <2>3. l \in Pools /\ l.flight = m.flight /\ l.pending = m.pending /\ l.freeq = m.freeq
        /\ l.skb = [m.skb EXCEPT ![b] = None] /\ l.heap = m.heap /\ l.lost = m.lost
    <3> DEFINE s == [m.skb EXCEPT ![b] = None]
    <3>1. s \in [Buffer -> Skb \union {None}] BY <2>2 DEF Pools
    <3>2. l = [m EXCEPT !.skb = s] BY <2>2 DEF Pools
    <3> HIDE DEF s, l
    <3>3. /\ l.flight = m.flight /\ l.pending = m.pending /\ l.freeq = m.freeq /\ l.skb = s
          /\ l.heap = m.heap /\ l.lost = m.lost
      BY <2>2, <3>2 DEF Pools
    <3>4. l \in Pools BY <2>2, <3>1, <3>2 DEF Pools
    <3> QED BY <3>3, <3>4 DEF s
  <2> QED BY <2>1, <2>3 DEF m
<1>6. PICK p \in ReadPort(l, b) : Become(p)
  BY DEF Completes
<1>7. l.skb[b] = None /\ \A c \in Buffer \ {b} : l.skb[c] = skb[c]
  BY <1>1, <1>5 DEF TypeOK
<1> HIDE DEF l
<1>8. /\ p \in Pools
      /\ p.flight = l.flight \/ p.flight = l.flight \union {b}
      /\ IsInjective(p.pending)
      /\ \/ p.pending = l.pending
         \/ /\ ToSet(p.pending) = ToSet(l.pending) \union {b}
            /\ p.skb[b] = None /\ p.flight = l.flight
      /\ \A c \in Buffer \ {b} : p.skb[c] = l.skb[c]
      /\ b \in p.flight \ l.flight => p.skb[b] # None
      /\ l.lost \ {b} \subseteq p.lost
      /\ b \in p.flight \union ToSet(p.pending) \union p.lost
      /\ \A R : OnePlace(l, R) => OnePlace(p, R)
  <2>1. IsInjective(l.pending) BY <1>1, <1>5 DEF Queued
  <2>2. l \in Pools /\ p \in ReadPort(l, b) /\ ~CannotRx BY <1>2, <1>5, <1>6
  <2> QED BY <2>1, <2>2, ReadPortGives
<1>9. /\ flight' = p.flight /\ pending' = p.pending /\ skb' = p.skb
      /\ freeq' = p.freeq /\ heap' = p.heap /\ lost' = p.lost
      /\ flight' \in SUBSET Buffer /\ lost' \in SUBSET Buffer /\ pending' \in Seq(Buffer)
      /\ skb' \in [Buffer -> Skb \union {None}] /\ freeq' \in Seq(Skb) /\ heap' \in SUBSET Skb
      /\ \A R : OnePlace(p, R) => OnePlace(Pool', R)
  BY <1>6, <1>8, Becomes
<1>10. /\ rxq' \in Seq(Skb) /\ ToSet(rxq') = ToSet(rxq) \union {skb[b]}
       /\ IsInjective(rxq) /\ skb[b] \notin ToSet(rxq) => IsInjective(rxq')
  BY <1>1, <1>2, <1>4, Appended DEF TypeOK
<1>11. TypeOK'
  <2>1. tasklet' \in {"idle", "scheduled", "running"}
    BY <1>1, <1>4 DEF TypeOK
  <2>2. ioErr' \in 0..MaxIoErr + 1
    BY <1>3, RecvAssumption
  <2> QED BY <1>1, <1>3, <1>9, <1>10, <2>1, <2>2 DEF TypeOK
<1>12. ErrorsCounted' /\ Stopping'
  BY <1>1, <1>2, <1>3, RecvAssumption DEF ErrorsCounted, Stopping, CannotRx
<1>13. Accounted'
  <2>1. flight \ {b} \subseteq flight' /\ ToSet(pending) \subseteq ToSet(pending')
        /\ lost \ {b} \subseteq lost' /\ b \in flight' \union ToSet(pending') \union lost'
    BY <1>5, <1>8, <1>9
  <2> QED BY <1>1, <1>2, <1>3, <2>1 DEF Accounted, CannotRx, CannotRun
<1>14. Queued'
  <2>1. IsInjective(pending') /\ IsInjective(todo')
    BY <1>1, <1>3, <1>8, <1>9 DEF Queued
  <2>2. ASSUME "buffers" \notin leftover
        PROVE  /\ \A c \in ToSet(pending') : c \notin flight' /\ skb'[c] = None
               /\ \A c \in ToSet(todo') : c \notin flight' /\ c \notin ToSet(pending')
    <3>1. /\ \A c \in ToSet(pending) : c \notin flight /\ skb[c] = None
          /\ \A c \in ToSet(todo) : c \notin flight /\ c \notin ToSet(pending)
      BY <1>1, <2>2 DEF Queued
    <3>2. b \notin ToSet(pending) /\ b \notin ToSet(todo)
      BY <1>2, <3>1
    <3>3. ToSet(pending) \subseteq Buffer
      BY <1>1, ToSetIs DEF TypeOK
    <3>4. \A c \in ToSet(pending) : c \notin flight' /\ skb'[c] = None
      BY <1>5, <1>7, <1>8, <1>9, <3>1, <3>2, <3>3
    <3>5. b \in ToSet(pending') => b \notin flight' /\ skb'[b] = None
      BY <1>5, <1>8, <1>9, <3>2
    <3>6. ToSet(pending') \subseteq ToSet(pending) \union {b} /\ flight' \subseteq flight
      BY <1>2, <1>5, <1>8, <1>9
    <3> QED BY <1>3, <3>1, <3>2, <3>4, <3>5, <3>6
  <2> QED BY <1>3, <2>1, <2>2 DEF Queued
<1>15. Owned'
  <2>1. ASSUME "buffers" \notin leftover
        PROVE  IsInjective(rxq') /\ OnePlace(Pool', ToSet(rxq'))
    <3>1. IsInjective(rxq) /\ OnePlace(Pool, ToSet(rxq))
      BY <1>1, <2>1 DEF Owned
    <3>2. /\ IsInjective(freeq)
          /\ \A c, d \in Buffer : skb[c] = skb[d] /\ skb[c] # None => c = d
          /\ \A c \in Buffer : skb[c] \notin ToSet(freeq) \union heap \union ToSet(rxq)
          /\ \A k \in ToSet(freeq) : k \notin heap \union ToSet(rxq)
          /\ \A k \in heap : k \notin ToSet(rxq)
          /\ \A k \in Skb : k \in ToSet(freeq) \union heap \union ToSet(rxq)
                            \/ \E c \in Buffer : skb[c] = k
      BY <1>1, <3>1, PoolIs DEF OnePlace
    <3>3. ToSet(freeq) \subseteq Skb /\ heap \subseteq Skb /\ ToSet(rxq) \subseteq Skb
      BY <1>1, ToSetIs DEF TypeOK
    <3>4. \A c \in Buffer : l.skb[c] \notin ToSet(freeq) \union heap \union ToSet(rxq')
      BY <1>2, <1>7, <1>10, <3>2, <3>3, RecvAssumption
    <3>5. \A k \in Skb : k \in ToSet(freeq) \union heap \union ToSet(rxq')
                         \/ \E c \in Buffer : l.skb[c] = k
      BY <1>7, <1>10, <3>2
    <3>6. \A c, d \in Buffer : l.skb[c] = l.skb[d] /\ l.skb[c] # None => c = d
      BY <1>7, <3>2
    <3>7. OnePlace(l, ToSet(rxq'))
      BY <1>2, <1>5, <1>10, <3>2, <3>4, <3>5, <3>6 DEF OnePlace
    <3> QED BY <1>2, <1>8, <1>9, <1>10, <3>1, <3>2, <3>7
  <2> QED BY <1>3, <2>1 DEF Owned
<1>16. FlightHasSkb'
  BY <1>1, <1>5, <1>7, <1>8, <1>9 DEF FlightHasSkb, TypeOK
<1>17. NoStuckPacket'
  <2>1. Len(rxq) \in Nat /\ Len(rxq') = Len(rxq) + 1
    BY <1>1, <1>2, <1>4 DEF TypeOK
  <2>2. rxq # <<>> \/ Len(rxq') <= 1
    BY <1>1, <2>1 DEF TypeOK
  <2> QED BY <1>1, <1>2, <1>3, <1>4, <2>2 DEF NoStuckPacket, CannotRx, CannotRun
<1> QED BY <1>11, <1>12, <1>13, <1>14, <1>15, <1>16, <1>17 DEF IInv
\* After an error the buffer is submitted again with the skb it has.
LEMMA RetryKeeps ==
  ASSUME IInv, NEW b \in Buffer, NEW error \in BOOLEAN, CompletesRetry(b, error), ~removed'
  PROVE  IInv'
<1> USE DEF flags
<1>1. /\ TypeOK /\ ErrorsCounted /\ Stopping /\ Accounted /\ Queued /\ Owned
      /\ FlightHasSkb /\ NoStuckPacket
  BY DEF IInv
<1>2. b \in flight /\ ~CannotRx /\ skb[b] # None
  BY <1>1 DEF CompletesRetry, FlightHasSkb
<1>3. /\ UNCHANGED <<rxq, tasklet, stopped, rxOff, ctl, todo, starts, leftover>>
      /\ removed' = (ioErr' > MaxIoErr) /\ ioErr' = (IF error THEN ioErr + 1 ELSE ioErr)
  BY DEF CompletesRetry
<1> DEFINE l == Landed(b)
<1>5. /\ l \in Pools /\ l.flight = flight \ {b} /\ l.pending = pending
      /\ l.skb = skb /\ l.freeq = freeq /\ l.heap = heap /\ l.lost = lost
      /\ \A R : OnePlace(Pool, R) => OnePlace(l, R)
  BY <1>1, LandedIs
<1>6. PICK p \in ReadPort(l, b) : Become(p)
  BY DEF CompletesRetry
<1> HIDE DEF l
<1>8. /\ p \in Pools
      /\ p.flight = l.flight \/ p.flight = l.flight \union {b}
      /\ \/ p.pending = l.pending
         \/ /\ ToSet(p.pending) = ToSet(l.pending) \union {b}
            /\ p.skb[b] = None /\ l.skb[b] = None /\ p.flight = l.flight
      /\ \A c \in Buffer \ {b} : p.skb[c] = l.skb[c]
      /\ l.skb[b] # None => p.skb[b] = l.skb[b]
      /\ l.lost \ {b} \subseteq p.lost
      /\ b \in p.flight \union ToSet(p.pending) \union p.lost
      /\ \A R : OnePlace(l, R) => OnePlace(p, R)
  <2>1. IsInjective(l.pending) BY <1>1, <1>5 DEF Queued
  <2>2. l \in Pools /\ p \in ReadPort(l, b) /\ ~CannotRx BY <1>2, <1>5, <1>6
  <2> QED BY <2>1, <2>2, ReadPortGives
<1>9. /\ flight' = p.flight /\ pending' = p.pending /\ skb' = p.skb
      /\ freeq' = p.freeq /\ heap' = p.heap /\ lost' = p.lost
      /\ flight' \in SUBSET Buffer /\ lost' \in SUBSET Buffer /\ pending' \in Seq(Buffer)
      /\ skb' \in [Buffer -> Skb \union {None}] /\ freeq' \in Seq(Skb) /\ heap' \in SUBSET Skb
      /\ \A R : OnePlace(p, R) => OnePlace(Pool', R)
  BY <1>6, <1>8, Becomes
<1>10. pending' = pending /\ flight' \subseteq flight /\ \A c \in Buffer : skb'[c] = skb[c]
  BY <1>2, <1>5, <1>8, <1>9
<1>11. ioErr' \in 0..MaxIoErr /\ removed' = FALSE
  <2>1. ioErr \in Nat BY <1>1, RecvAssumption DEF TypeOK
  <2>2. ioErr' \in Nat BY <1>3, <2>1
  <2>3. ~(ioErr' > MaxIoErr) BY <1>3
  <2>4. removed' = FALSE BY <1>3, <2>3
  <2> QED BY <2>2, <2>3, <2>4, RecvAssumption
<1>12. TypeOK'
  <2>1. ioErr' \in 0..MaxIoErr + 1 BY <1>11, RecvAssumption
  <2>2. flight' \subseteq Buffer /\ lost' \subseteq Buffer BY <1>9
  <2> QED BY <1>1, <1>3, <1>9, <1>11, <2>1, <2>2 DEF TypeOK
<1>13. ErrorsCounted'
  BY <1>11, RecvAssumption DEF ErrorsCounted
<1>14. Stopping'
  BY <1>1, <1>2, <1>3 DEF Stopping, CannotRx
<1>15. Accounted'
  <2>1. flight \ {b} \subseteq flight' /\ lost \ {b} \subseteq lost'
        /\ b \in flight' \union ToSet(pending') \union lost'
    BY <1>5, <1>8, <1>9
  <2> QED BY <1>1, <1>2, <1>3, <1>10, <2>1 DEF Accounted, CannotRx, CannotRun
<1>16. Queued'
  <2>1. ToSet(pending) \subseteq Buffer
    BY <1>1, ToSetIs DEF TypeOK
  <2> QED BY <1>1, <1>3, <1>10, <2>1 DEF Queued
<1>17. Owned'
  BY <1>1, <1>3, <1>5, <1>8, <1>9 DEF Owned
<1>18. FlightHasSkb'
  BY <1>1, <1>10 DEF FlightHasSkb, TypeOK
<1>19. NoStuckPacket'
  BY <1>1, <1>2, <1>3 DEF NoStuckPacket, CannotRx, CannotRun
<1> QED BY <1>12, <1>13, <1>14, <1>15, <1>16, <1>17, <1>18, <1>19 DEF IInv

----------------------------------------------------------------------------
\* The tasklet.

LEMMA TaskletStartsKeeps == IInv /\ (TaskletStarts \/ TaskletEnds) => IInv'
<1> SUFFICES ASSUME IInv, TaskletStarts \/ TaskletEnds PROVE IInv'
  OBVIOUS
<1>1. /\ TypeOK /\ ErrorsCounted /\ Stopping /\ Accounted /\ Queued /\ Owned
      /\ FlightHasSkb /\ NoStuckPacket
  BY DEF IInv
<1>2. /\ UNCHANGED <<flight, pending, skb, freeq, heap, lost>> /\ UNCHANGED rxq
      /\ UNCHANGED <<stopped, removed, rxOff>> /\ UNCHANGED <<ioErr, ctl, todo, starts, leftover>>
      /\ tasklet' \in {"idle", "running"} /\ (tasklet' = "idle" => rxq = <<>>)
  BY DEF TaskletStarts, TaskletEnds, pool, flags
<1>3. Pool' = Pool BY <1>2 DEF Pool
<1>4. TypeOK' BY <1>1, <1>2 DEF TypeOK
<1>5. ErrorsCounted' /\ Stopping' BY <1>1, <1>2 DEF ErrorsCounted, Stopping
<1>6. Accounted' BY <1>1, <1>2 DEF Accounted, CannotRx, CannotRun
<1>7. Queued' BY <1>1, <1>2 DEF Queued
<1>8. Owned' BY <1>1, <1>2, <1>3 DEF Owned
<1>9. FlightHasSkb' /\ NoStuckPacket' BY <1>1, <1>2 DEF FlightHasSkb, NoStuckPacket
<1> QED BY <1>4, <1>5, <1>6, <1>7, <1>8, <1>9 DEF IInv

\* The first packet of the queue leaves it, and its skb goes where f and h say:
\* to the tail of the free queue, or back to memory.
LEMMA PacketTaken ==
  ASSUME TypeOK, rxq # <<>>, NEW p \in Pools, p.flight \subseteq flight,
         p.pending = pending, p.skb = skb,
         \/ p.freeq = Append(freeq, Head(rxq)) /\ p.heap = heap
         \/ p.freeq = freeq /\ p.heap = heap \union {Head(rxq)},
         IsInjective(rxq), OnePlace(Pool, ToSet(rxq))
  PROVE  IsInjective(Tail(rxq)) /\ OnePlace(p, ToSet(Tail(rxq)))
<1> DEFINE k == Head(rxq)
           R == ToSet(Tail(rxq))
<1>1. k \in Skb /\ ToSet(rxq) = R \union {k} /\ IsInjective(Tail(rxq)) /\ k \notin R
  BY Headed DEF TypeOK
<1>2. /\ IsInjective(freeq)
      /\ \A c, d \in Buffer : skb[c] = skb[d] /\ skb[c] # None => c = d
      /\ \A c \in Buffer : skb[c] \notin ToSet(freeq) \union heap \union ToSet(rxq)
      /\ \A j \in ToSet(freeq) : j \notin heap \union ToSet(rxq)
      /\ \A j \in heap : j \notin ToSet(rxq)
      /\ \A j \in Skb : j \in ToSet(freeq) \union heap \union ToSet(rxq)
                        \/ \E c \in Buffer : skb[c] = j
  BY PoolIs DEF OnePlace
<1> HIDE DEF k, R
<1>3. /\ IsInjective(p.freeq)
      /\ \/ ToSet(p.freeq) = ToSet(freeq) \union {k} /\ p.heap = heap
         \/ ToSet(p.freeq) = ToSet(freeq) /\ p.heap = heap \union {k}
  <2>1. k \notin ToSet(freeq) /\ freeq \in Seq(Skb)
    BY <1>1, <1>2 DEF TypeOK
  <2>2. CASE p.freeq = Append(freeq, k) /\ p.heap = heap
    BY <1>1, <1>2, <2>1, <2>2, Appended
  <2>3. CASE p.freeq = freeq /\ p.heap = heap \union {k}
    BY <1>2, <2>3
  <2> QED BY <2>2, <2>3 DEF k
<1>4. ToSet(p.freeq) \union p.heap \union R = ToSet(freeq) \union heap \union ToSet(rxq)
  BY <1>1, <1>3
<1>5. \A c, d \in Buffer : p.skb[c] = p.skb[d] /\ p.skb[c] # None => c = d
  BY <1>2
<1>6. \A c \in Buffer : p.skb[c] \notin ToSet(p.freeq) \union p.heap \union R
  BY <1>2, <1>4
<1>7. \A j \in Skb : j \in ToSet(p.freeq) \union p.heap \union R \/ \E c \in Buffer : p.skb[c] = j
  BY <1>2, <1>4
<1>8. (\A j \in ToSet(p.freeq) : j \notin p.heap \union R) /\ (\A j \in p.heap : j \notin R)
  BY <1>1, <1>2, <1>3
<1>9. OnePlace(p, R)
  BY <1>3, <1>5, <1>6, <1>7, <1>8 DEF OnePlace
<1> QED BY <1>1, <1>9 DEF R

LEMMA TaskletBreaksKeeps == IInv /\ TaskletBreaks => IInv'
<1> SUFFICES ASSUME IInv, TaskletBreaks PROVE IInv'
  OBVIOUS
<1>1. /\ TypeOK /\ ErrorsCounted /\ Stopping /\ Accounted /\ Queued /\ Owned
      /\ FlightHasSkb /\ NoStuckPacket
  BY DEF IInv
<1>2. /\ UNCHANGED <<flight, pending, skb, freeq, lost>>
      /\ UNCHANGED <<stopped, removed, rxOff>> /\ UNCHANGED <<ioErr, ctl, todo, starts, leftover>>
      /\ rxq # <<>> /\ CannotRun /\ rxq' = Tail(rxq) /\ heap' = heap \union {Head(rxq)}
      /\ tasklet' = "idle"
  BY DEF TaskletBreaks, flags
<1>3. CannotRun' BY <1>2 DEF CannotRun
<1>4. Head(rxq) \in Skb /\ Tail(rxq) \in Seq(Skb)
  BY <1>1, <1>2, Headed DEF TypeOK
<1>5. TypeOK'
  <2>1. heap' \subseteq Skb BY <1>1, <1>2, <1>4 DEF TypeOK
  <2> QED BY <1>1, <1>2, <1>4, <2>1 DEF TypeOK
<1>6. ErrorsCounted' /\ Stopping' BY <1>1, <1>2 DEF ErrorsCounted, Stopping
<1>7. Accounted' /\ NoStuckPacket' BY <1>3 DEF Accounted, CannotRx, NoStuckPacket
<1>8. Queued' BY <1>1, <1>2 DEF Queued
<1>9. Owned'
  <2>1. ASSUME "buffers" \notin leftover
        PROVE  IsInjective(rxq') /\ OnePlace(Pool', ToSet(rxq'))
    <3>1. IsInjective(rxq) /\ OnePlace(Pool, ToSet(rxq))
      BY <1>1, <2>1 DEF Owned
    <3>2. /\ Pool' \in Pools /\ Pool'.flight = flight /\ Pool'.pending = pending
          /\ Pool'.skb = skb /\ Pool'.freeq = freeq /\ Pool'.heap = heap \union {Head(rxq)}
      BY <1>2, <1>5 DEF TypeOK, Pool, Pools
    <3> QED BY <1>1, <1>2, <3>1, <3>2, PacketTaken
  <2> QED BY <1>2, <2>1 DEF Owned
<1>10. FlightHasSkb' BY <1>1, <1>2 DEF FlightHasSkb
<1> QED BY <1>5, <1>6, <1>7, <1>8, <1>9, <1>10 DEF IInv
LEMMA TaskletTurnKeeps == IInv /\ TaskletTurn => IInv'
<1> SUFFICES ASSUME IInv, TaskletTurn PROVE IInv'
  OBVIOUS
<1>1. /\ TypeOK /\ ErrorsCounted /\ Stopping /\ Accounted /\ Queued /\ Owned
      /\ FlightHasSkb /\ NoStuckPacket
  BY DEF IInv
<1>2. /\ UNCHANGED tasklet /\ UNCHANGED <<stopped, removed, rxOff>>
      /\ UNCHANGED <<ioErr, ctl, todo, starts, leftover>>
      /\ tasklet = "running" /\ rxq # <<>> /\ rxq' = Tail(rxq) /\ ~CannotRun
  BY DEF TaskletTurn, flags
<1>3. Head(rxq) \in Skb /\ Tail(rxq) \in Seq(Skb)
  BY <1>1, <1>2, Headed DEF TypeOK
<1> DEFINE p == [Pool EXCEPT !.freeq = Append(@, Head(rxq))]
           b == Head(pending)
           p1 == [p EXCEPT !.pending = Tail(@), !.skb[b] = None]
<1>4. /\ p \in Pools /\ p.flight = flight /\ p.pending = pending /\ p.skb = skb
      /\ p.freeq = Append(freeq, Head(rxq)) /\ p.heap = heap /\ p.lost = lost
  <2>1. Append(freeq, Head(rxq)) \in Seq(Skb)
    BY <1>1, <1>3 DEF TypeOK
  <2> QED BY <1>1, <2>1, PoolIs DEF Pools
<1>5. p.freeq # <<>>
  <2>1. Len(p.freeq) = Len(freeq) + 1 /\ Len(freeq) \in Nat
    BY <1>1, <1>3, <1>4 DEF TypeOK
  <2> QED BY <2>1
<1>6. "buffers" \notin leftover => IsInjective(Tail(rxq)) /\ OnePlace(p, ToSet(Tail(rxq)))
  BY <1>1, <1>2, <1>4, PacketTaken DEF Owned
<1>7. \/ pending = <<>> /\ Become(p)
      \/ pending # <<>> /\ \E q \in ReadPort(p1, b) : Become(q)
  BY DEF TaskletTurn
<1> HIDE DEF p
<1>8. ErrorsCounted' /\ NoStuckPacket'
  BY <1>1, <1>2 DEF ErrorsCounted, NoStuckPacket
<1>9. CASE pending = <<>> /\ Become(p)
  <2>1. /\ flight' = flight /\ pending' = pending /\ skb' = skb /\ heap' = heap /\ lost' = lost
        /\ freeq' \in Seq(Skb) /\ \A R : OnePlace(p, R) => OnePlace(Pool', R)
    BY <1>4, <1>9, Becomes
  <2>2. TypeOK' BY <1>1, <1>2, <1>3, <2>1 DEF TypeOK
  <2>3. Stopping' BY <1>1, <1>2, <2>1 DEF Stopping
  <2>4. Accounted' BY <1>1, <1>2, <2>1 DEF Accounted, CannotRx, CannotRun
  <2>5. Queued' BY <1>1, <1>2, <2>1 DEF Queued
  <2>6. Owned' BY <1>2, <1>6, <2>1 DEF Owned
  <2>7. FlightHasSkb' BY <1>1, <2>1 DEF FlightHasSkb
  <2> QED BY <1>8, <2>2, <2>3, <2>4, <2>5, <2>6, <2>7 DEF IInv
<1>10. CASE pending # <<>> /\ \E q \in ReadPort(p1, b) : Become(q)
  <2>1. /\ b \in Buffer /\ Tail(pending) \in Seq(Buffer)
        /\ ToSet(pending) = ToSet(Tail(pending)) \union {b}
        /\ IsInjective(Tail(pending)) /\ b \notin ToSet(Tail(pending))
    BY <1>1, <1>10, Headed DEF TypeOK, Queued
  <2>2. /\ p1 \in Pools /\ p1.flight = flight /\ p1.pending = Tail(pending)
        /\ p1.skb = [skb EXCEPT ![b] = None] /\ p1.freeq = p.freeq /\ p1.heap = heap
        /\ p1.lost = lost
    <3> HIDE DEF b
    <3>1. p1 \in Pools BY <1>4, <2>1 DEF Pools
    <3>2. p1.skb = [p.skb EXCEPT ![b] = None] BY <1>4 DEF Pools
    <3>3. p1.flight = p.flight /\ p1.pending = Tail(p.pending) /\ p1.freeq = p.freeq
          /\ p1.heap = p.heap /\ p1.lost = p.lost
      BY <1>4 DEF Pools
    <3> QED BY <1>4, <3>1, <3>2, <3>3
  <2>3. PICK q \in ReadPort(p1, b) : Become(q)
    BY <1>10
  <2> HIDE DEF p1, b
  <2>4. p1.skb[b] = None /\ \A c \in Buffer \ {b} : p1.skb[c] = skb[c]
    BY <1>1, <2>1, <2>2 DEF TypeOK
  <2>5. /\ q \in Pools
        /\ q.flight = p1.flight \/ q.flight = p1.flight \union {b}
        /\ IsInjective(q.pending)
        /\ \/ q.pending = p1.pending
           \/ /\ ToSet(q.pending) = ToSet(p1.pending) \union {b}
              /\ q.skb[b] = None /\ p1.skb[b] = None /\ q.flight = p1.flight
        /\ \A c \in Buffer \ {b} : q.skb[c] = p1.skb[c]
        /\ p1.lost \ {b} \subseteq q.lost
        /\ ~CannotRx => b \in q.flight \union ToSet(q.pending) \union q.lost
        /\ CannotRx => q = p1
        /\ p1.freeq # <<>> /\ ~CannotRx => q.skb[b] # None
        /\ \A R : OnePlace(p1, R) => OnePlace(q, R)
    <3>1. IsInjective(p1.pending) BY <2>1, <2>2
    <3>2. p1 \in Pools /\ b \in Buffer /\ q \in ReadPort(p1, b) BY <2>1, <2>2, <2>3
    <3> QED BY <3>1, <3>2, ReadPortGives
  <2>6. /\ flight' = q.flight /\ pending' = q.pending /\ skb' = q.skb
        /\ freeq' = q.freeq /\ heap' = q.heap /\ lost' = q.lost
        /\ flight' \in SUBSET Buffer /\ lost' \in SUBSET Buffer /\ pending' \in Seq(Buffer)
        /\ skb' \in [Buffer -> Skb \union {None}] /\ freeq' \in Seq(Skb)
        /\ heap' \in SUBSET Skb /\ \A R : OnePlace(q, R) => OnePlace(Pool', R)
    BY <2>3, <2>5, Becomes
  <2>7. TypeOK'
    BY <1>1, <1>2, <1>3, <2>6 DEF TypeOK
  <2>8. CannotRx => flight = {} /\ flight' = {}
    BY <1>1, <1>2, <2>2, <2>5, <2>6 DEF CannotRx, Stopping
  <2>9. Stopping'
    BY <1>1, <1>2, <2>8 DEF Stopping, CannotRx
  <2>10. Accounted'
    <3>1. flight \subseteq flight' /\ ToSet(pending) \subseteq ToSet(pending') \union {b}
          /\ lost \subseteq lost' \union {b}
      BY <2>1, <2>2, <2>5, <2>6
    <3>2. ~CannotRx => b \in flight' \union ToSet(pending') \union lost'
      BY <2>5, <2>6
    <3> QED BY <1>1, <1>2, <3>1, <3>2 DEF Accounted, CannotRx, CannotRun
  <2>11. Queued'
    <3>1. IsInjective(pending') /\ IsInjective(todo')
      BY <1>1, <1>2, <2>5, <2>6 DEF Queued
    <3>2. ASSUME "buffers" \notin leftover
          PROVE  /\ \A c \in ToSet(pending') : c \notin flight' /\ skb'[c] = None
                 /\ \A c \in ToSet(todo) : c \notin flight' /\ c \notin ToSet(pending')
      <4>1. /\ \A c \in ToSet(pending) : c \notin flight /\ skb[c] = None
            /\ \A c \in ToSet(todo) : c \notin flight /\ c \notin ToSet(pending)
        BY <1>1, <3>2 DEF Queued
      <4>2. b \notin ToSet(todo) /\ b \notin flight /\ b \in ToSet(pending)
        BY <2>1, <4>1
      <4>3. ToSet(Tail(pending)) \subseteq Buffer /\ flight' \subseteq flight \union {b}
            /\ ToSet(pending') \subseteq ToSet(pending)
        BY <2>1, <2>2, <2>5, <2>6, ToSetIs
      <4>4. \A c \in ToSet(Tail(pending)) : c \notin flight' /\ skb'[c] = None
        BY <2>1, <2>4, <2>5, <2>6, <4>1, <4>3
      <4>5. b \in ToSet(pending') => b \notin flight' /\ skb'[b] = None
        BY <2>1, <2>2, <2>5, <2>6, <4>2
      <4> QED BY <2>1, <4>1, <4>2, <4>3, <4>4, <4>5
    <3> QED BY <1>2, <3>1, <3>2 DEF Queued
  <2>12. Owned'
    <3>1. ASSUME "buffers" \notin leftover
          PROVE  IsInjective(rxq') /\ OnePlace(Pool', ToSet(rxq'))
      <4>1. skb[b] = None
        BY <1>1, <2>1, <3>1 DEF Queued
      <4>2. p1.skb = p.skb
        BY <1>1, <1>4, <2>1, <2>2, <4>1 DEF TypeOK
      <4>3. OnePlace(p1, ToSet(Tail(rxq)))
        BY <1>4, <1>6, <2>2, <3>1, <4>2 DEF OnePlace
      <4> QED BY <1>2, <1>6, <2>5, <2>6, <3>1, <4>3
    <3> QED BY <1>2, <3>1 DEF Owned
  <2>13. FlightHasSkb'
    <3>1. CASE CannotRx BY <2>8, <3>1 DEF FlightHasSkb
    <3>2. CASE ~CannotRx
      <4>1. skb'[b] # None BY <1>5, <2>2, <2>5, <2>6, <3>2
      <4>2. \A c \in Buffer \ {b} : skb'[c] = skb[c] BY <2>4, <2>5, <2>6
      <4>3. flight' \subseteq flight \union {b} BY <2>2, <2>5, <2>6
      <4> QED BY <1>1, <2>6, <4>1, <4>2, <4>3 DEF FlightHasSkb
    <3> QED BY <3>1, <3>2
  <2> QED BY <1>8, <2>7, <2>9, <2>10, <2>11, <2>12, <2>13 DEF IInv
<1> QED BY <1>7, <1>9, <1>10

----------------------------------------------------------------------------
\* The interface.

\* inirp_init submits the next buffer, or gives up with the rest.
LEMMA StartNextKeeps == IInv /\ StartNext => IInv'
<1> SUFFICES ASSUME IInv, StartNext PROVE IInv'
  OBVIOUS
<1>1. /\ TypeOK /\ ErrorsCounted /\ Stopping /\ Accounted /\ Queued /\ Owned
      /\ FlightHasSkb /\ NoStuckPacket
  BY DEF IInv
<1>2. /\ UNCHANGED <<rxq, tasklet>> /\ UNCHANGED <<stopped, removed, rxOff>>
      /\ UNCHANGED <<ioErr, starts, leftover>> /\ ctl = "starting" /\ todo # <<>>
  BY DEF StartNext, flags
<1> DEFINE b == Head(todo)
           rest == ToSet(Tail(todo))
<1>3. PICK p \in ReadPort(Pool, b) :
        IF b \in p.flight \ flight
        THEN Become(p) /\ todo' = Tail(todo) /\ ctl' = ctl
        ELSE /\ Become([p EXCEPT !.lost = @ \union (rest \ p.flight)])
             /\ todo' = <<>> /\ ctl' = "open"
  BY DEF StartNext
<1>4. /\ b \in Buffer /\ Tail(todo) \in Seq(Buffer) /\ ToSet(todo) = rest \union {b}
      /\ IsInjective(Tail(todo)) /\ b \notin rest
  BY <1>1, <1>2, Headed DEF TypeOK, Queued
<1>5. rest \subseteq Buffer
  BY <1>4, ToSetIs
<1> HIDE DEF b, rest
<1>6. /\ Pool \in Pools /\ Pool.flight = flight /\ Pool.pending = pending /\ Pool.skb = skb
      /\ Pool.freeq = freeq /\ Pool.heap = heap /\ Pool.lost = lost
  BY <1>1, PoolIs
<1>7. /\ p \in Pools
      /\ p.flight = flight \/ p.flight = flight \union {b}
      /\ IsInjective(p.pending)
      /\ \/ p.pending = pending
         \/ /\ ToSet(p.pending) = ToSet(pending) \union {b}
            /\ p.skb[b] = None /\ skb[b] = None /\ p.flight = flight
      /\ \A c \in Buffer \ {b} : p.skb[c] = skb[c]
      /\ skb[b] # None => p.skb[b] = skb[b]
      /\ b \in p.flight \ flight => p.skb[b] # None
      /\ lost \ {b} \subseteq p.lost
      /\ ~CannotRx => b \in p.flight \union ToSet(p.pending) \union p.lost
      /\ \A R : OnePlace(Pool, R) => OnePlace(p, R)
  <2>1. IsInjective(Pool.pending) BY <1>1, <1>6 DEF Queued
  <2>2. /\ p \in Pools
        /\ p.flight = Pool.flight \/ p.flight = Pool.flight \union {b}
        /\ IsInjective(p.pending)
        /\ \/ p.pending = Pool.pending
           \/ /\ ToSet(p.pending) = ToSet(Pool.pending) \union {b}
              /\ p.skb[b] = None /\ Pool.skb[b] = None /\ p.flight = Pool.flight
        /\ \A c \in Buffer \ {b} : p.skb[c] = Pool.skb[c]
        /\ Pool.skb[b] # None => p.skb[b] = Pool.skb[b]
        /\ b \in p.flight \ Pool.flight => p.skb[b] # None
        /\ Pool.lost \ {b} \subseteq p.lost
        /\ ~CannotRx => b \in p.flight \union ToSet(p.pending) \union p.lost
        /\ \A R : OnePlace(Pool, R) => OnePlace(p, R)
    <3>1. Pool \in Pools /\ b \in Buffer /\ p \in ReadPort(Pool, b) BY <1>3, <1>4, <1>6
    <3> QED BY <2>1, <3>1, ReadPortGives
  <2> QED BY <1>6, <2>2
<1> DEFINE q == IF b \in p.flight \ flight THEN p
                ELSE [p EXCEPT !.lost = @ \union (rest \ p.flight)]
<1>8. /\ q \in Pools /\ q.flight = p.flight /\ q.pending = p.pending /\ q.skb = p.skb
      /\ q.freeq = p.freeq /\ q.heap = p.heap
      /\ q.lost = IF b \in p.flight \ flight THEN p.lost ELSE p.lost \union (rest \ p.flight)
  BY <1>5, <1>7 DEF Pools
<1>9. Become(q) BY <1>3
<1> HIDE DEF q
<1>10. \A R : OnePlace(p, R) => OnePlace(q, R)
  BY <1>8 DEF OnePlace
<1>11. /\ flight' = q.flight /\ pending' = q.pending /\ skb' = q.skb
       /\ freeq' = q.freeq /\ heap' = q.heap /\ lost' = q.lost
       /\ flight' \in SUBSET Buffer /\ lost' \in SUBSET Buffer /\ pending' \in Seq(Buffer)
       /\ skb' \in [Buffer -> Skb \union {None}] /\ freeq' \in Seq(Skb)
       /\ heap' \in SUBSET Skb /\ \A R : OnePlace(q, R) => OnePlace(Pool', R)
  BY <1>8, <1>9, Becomes
<1>12. \/ b \in flight' \ flight /\ todo' = Tail(todo) /\ ctl' = "starting"
       \/ b \notin flight' \ flight /\ todo' = <<>> /\ ctl' = "open"
  BY <1>2, <1>3, <1>8, <1>11
<1>13. TypeOK'
  <2>1. todo' \in Seq(Buffer)
    <3>1. <<>> \in Seq(Buffer) OBVIOUS
    <3> QED BY <1>4, <1>12, <3>1
  <2>2. ctl' \in {"starting", "open"} BY <1>12
  <2> QED BY <1>1, <1>2, <1>11, <2>1, <2>2 DEF TypeOK
<1>14. ErrorsCounted'
  BY <1>1, <1>2, <1>12 DEF ErrorsCounted
<1>15. Stopping'
  BY <1>1, <1>2, <1>12 DEF Stopping
<1>16. Accounted'
  <2>1. /\ flight \subseteq flight' /\ ToSet(pending) \subseteq ToSet(pending')
        /\ lost \subseteq lost' \union {b}
        /\ ~CannotRx => b \in flight' \union ToSet(pending') \union lost'
    BY <1>7, <1>8, <1>11
  <2>2. b \notin flight' \ flight => rest \subseteq flight' \union lost'
    BY <1>8, <1>11
  <2>3. b \in flight' \ flight => ToSet(todo') = rest
    BY <1>12 DEF rest
  <2>4. ~CannotRx =>
          \A c \in Buffer : c \in flight \union ToSet(pending) \union lost \union rest \union {b}
    BY <1>1, <1>2, <1>4 DEF Accounted
  <2>5. ~CannotRx =>
          \A c \in Buffer : c \in flight' \union ToSet(pending') \union lost' \union ToSet(todo')
    <3> SUFFICES ASSUME ~CannotRx, NEW c \in Buffer
                 PROVE  c \in flight' \union ToSet(pending') \union lost' \union ToSet(todo')
      OBVIOUS
    <3>1. CASE c = b BY <2>1, <3>1
    <3>2. CASE c # b /\ c \in rest BY <2>2, <2>3, <3>2
    <3>3. CASE c # b /\ c \notin rest BY <2>1, <2>4, <3>3
    <3> QED BY <3>1, <3>2, <3>3
  <2> QED BY <1>2, <2>5 DEF Accounted, CannotRx, CannotRun
<1>17. Queued'
  <2>1. IsInjective(<<>>) /\ ToSet(<<>>) = {}
    BY DEF IsInjective, ToSet
  <2>2. IsInjective(pending') /\ IsInjective(todo')
    BY <1>4, <1>7, <1>8, <1>11, <1>12, <2>1
  <2>3. ASSUME "buffers" \notin leftover
        PROVE  /\ \A c \in ToSet(pending') : c \notin flight' /\ skb'[c] = None
               /\ \A c \in ToSet(todo') : c \notin flight' /\ c \notin ToSet(pending')
    <3>1. /\ \A c \in ToSet(pending) : c \notin flight /\ skb[c] = None
          /\ \A c \in ToSet(todo) : c \notin flight /\ c \notin ToSet(pending)
      BY <1>1, <2>3 DEF Queued
    <3>2. b \notin flight /\ b \notin ToSet(pending) /\ ToSet(pending) \subseteq Buffer
      BY <1>1, <1>4, <3>1, ToSetIs DEF TypeOK
    <3>3. \A c \in ToSet(pending) : c \notin flight' /\ skb'[c] = None
      BY <1>7, <1>8, <1>11, <3>1, <3>2
    <3>4. b \in ToSet(pending') => b \notin flight' /\ skb'[b] = None
      BY <1>7, <1>8, <1>11, <3>2
    <3>5. ToSet(pending') \subseteq ToSet(pending) \union {b} /\ flight' \subseteq flight \union {b}
      BY <1>7, <1>8, <1>11
    <3>6. todo' = <<>> \/ ToSet(todo') = rest
      BY <1>12 DEF rest
    <3> QED BY <1>4, <2>1, <3>1, <3>3, <3>4, <3>5, <3>6
  <2> QED BY <1>2, <2>2, <2>3 DEF Queued
<1>18. Owned'
  BY <1>1, <1>2, <1>7, <1>10, <1>11 DEF Owned
<1>19. FlightHasSkb'
  BY SMTT(30), <1>1, <1>4, <1>7, <1>8, <1>11 DEF FlightHasSkb, TypeOK
<1>20. NoStuckPacket'
  BY <1>1, <1>2 DEF NoStuckPacket, CannotRun
<1> QED BY <1>13, <1>14, <1>15, <1>16, <1>17, <1>18, <1>19, <1>20 DEF IInv
\* Steps that leave the pool alone, but for the URBs that a stop kills.
LEMMA StopKeeps == IInv /\ (Started \/ SetStopped \/ Unload \/ IpsDown) => IInv'
<1> SUFFICES ASSUME IInv, Started \/ SetStopped \/ Unload \/ IpsDown PROVE IInv'
  OBVIOUS
<1>1. /\ TypeOK /\ ErrorsCounted /\ Stopping /\ Accounted /\ Queued /\ Owned
      /\ FlightHasSkb /\ NoStuckPacket
  BY DEF IInv
<1>2. UNCHANGED <<rxq, tasklet>> /\ UNCHANGED <<ioErr, todo, starts, leftover>>
  BY DEF Started, SetStopped, Unload, IpsDown
<1>3. /\ flight' \in {flight, {}}
      /\ pending' = pending /\ skb' = skb /\ freeq' = freeq /\ heap' = heap /\ lost' = lost
      /\ OnePlace(Pool, ToSet(rxq)) => OnePlace(Pool', ToSet(rxq))
  <2>1. CASE Started \/ SetStopped
    <3>1. UNCHANGED <<flight, pending, skb, freeq, heap, lost>>
      BY <2>1 DEF Started, SetStopped, pool
    <3>2. Pool' = Pool BY <3>1 DEF Pool
    <3> QED BY <3>1, <3>2
  <2>2. CASE Unload \/ IpsDown
    <3> DEFINE q == [Pool EXCEPT !.flight = {}]
    <3>1. /\ q \in Pools /\ q.flight = {} /\ q.pending = pending /\ q.skb = skb
          /\ q.freeq = freeq /\ q.heap = heap /\ q.lost = lost
      BY <1>1, PoolIs DEF Pools
    <3>2. \A R : OnePlace(Pool, R) => OnePlace(q, R)
      BY <1>1, <3>1, PoolIs DEF OnePlace
    <3>3. Become(q) BY <2>2 DEF Unload, IpsDown
    <3> HIDE DEF q
    <3> QED BY <3>1, <3>2, <3>3, Becomes
  <2> QED BY <2>1, <2>2
<1>4. /\ stopped' \in BOOLEAN /\ removed' \in BOOLEAN /\ rxOff' \in BOOLEAN
      /\ ctl' \in {"open", "unload", "suspended", "ips"}
      /\ rxOff' <=> ctl' \in {"suspended", "ips"}
      /\ rxOff' => flight' = {}
      /\ ctl' = "unload" => stopped'
      /\ ctl' # "open" => starts < MaxStarts
      /\ todo = <<>>
      /\ (CannotRun => CannotRun')
      /\ ctl' = "open" => ctl = "starting" /\ (CannotRx' <=> CannotRx) /\ flight' = flight
      /\ (ctl' # "open" => ioErr <= MaxIoErr) /\ (removed => removed')
  <2>1. ioErr \in Nat /\ MaxIoErr \in Nat
    BY <1>1, RecvAssumption DEF TypeOK
  <2>2. CASE Started
    <3>1. UNCHANGED <<stopped, removed, rxOff, flight>> /\ ctl = "starting" /\ ctl' = "open"
          /\ todo = <<>>
      BY <2>2 DEF Started, pool, flags
    <3> QED BY <1>1, <3>1 DEF TypeOK, Stopping, CannotRx, CannotRun
  <2>3. CASE SetStopped
    <3>1. UNCHANGED <<removed, rxOff, flight>> /\ ctl = "open" /\ ctl' = "unload" /\ stopped' = TRUE
          /\ ~CannotRun /\ starts < MaxStarts
      BY <2>3 DEF SetStopped, pool
    <3> QED BY <1>1, <2>1, <3>1 DEF TypeOK, Stopping, CannotRun, ErrorsCounted
  <2>4. CASE Unload
    <3>1. UNCHANGED stopped /\ ctl = "unload" /\ ctl' = "suspended" /\ removed' = TRUE
          /\ rxOff' = TRUE /\ flight' = {}
      BY <2>4 DEF Unload, Become
    <3> QED BY <1>1, <2>1, <3>1 DEF TypeOK, Stopping, CannotRun, ErrorsCounted
  <2>5. CASE IpsDown
    <3>1. UNCHANGED <<stopped, removed>> /\ ctl = "open" /\ ctl' = "ips" /\ rxOff' = TRUE
          /\ flight' = {} /\ ~CannotRun /\ starts < MaxStarts
      BY <2>5 DEF IpsDown, Become
    <3> QED BY <1>1, <2>1, <3>1 DEF TypeOK, Stopping, CannotRun, ErrorsCounted
  <2> QED BY <2>2, <2>3, <2>4, <2>5
<1>5. TypeOK'
  <2>1. flight' \subseteq Buffer BY <1>1, <1>3 DEF TypeOK
  <2> QED BY <1>1, <1>2, <1>3, <1>4, <2>1 DEF TypeOK
<1>6. ErrorsCounted'
  BY <1>1, <1>2, <1>4, RecvAssumption DEF ErrorsCounted, TypeOK
<1>7. Stopping'
  BY <1>1, <1>2, <1>4 DEF Stopping
<1>8. Accounted'
  BY <1>1, <1>2, <1>3, <1>4 DEF Accounted
<1>9. Queued'
  BY <1>1, <1>2, <1>3 DEF Queued
<1>10. Owned'
  BY <1>1, <1>2, <1>3 DEF Owned
<1>11. FlightHasSkb'
  BY <1>1, <1>3 DEF FlightHasSkb
<1>12. NoStuckPacket'
  BY <1>1, <1>2, <1>4 DEF NoStuckPacket
<1> QED BY <1>5, <1>6, <1>7, <1>8, <1>9, <1>10, <1>11, <1>12 DEF IInv

\* A start notes what the stop left behind.
LEMMA StartAgainKeeps == IInv /\ StartAgain => IInv'
<1> SUFFICES ASSUME IInv, StartAgain PROVE IInv'
  OBVIOUS
<1>1. /\ TypeOK /\ ErrorsCounted /\ Stopping /\ Accounted /\ Queued /\ Owned
      /\ FlightHasSkb /\ NoStuckPacket
  BY DEF IInv
<1>2. /\ UNCHANGED <<flight, pending, skb, freeq, heap, lost>> /\ UNCHANGED <<rxq, tasklet, ioErr>>
      /\ ctl \in {"suspended", "ips"} /\ ctl' = "starting"
      /\ removed' = (removed /\ ctl = "ips") /\ stopped' = FALSE /\ rxOff' = FALSE
      /\ todo' = SetToSeq(Buffer) /\ starts' = starts + 1
  BY DEF StartAgain, pool
<1>3. leftover' = leftover \union {x \in {"buffers"} : pending # <<>>}
                  \union {x \in {"packets"} : rxq # <<>> /\ tasklet = "idle"}
  BY DEF StartAgain
<1>4. /\ leftover' \subseteq {"buffers", "packets"} /\ leftover \subseteq leftover'
      /\ "buffers" \notin leftover' => pending = <<>>
      /\ "packets" \notin leftover' => rxq = <<>> \/ tasklet # "idle"
  BY <1>1, <1>3 DEF TypeOK
<1>5. /\ SetToSeq(Buffer) \in Seq(Buffer) /\ IsInjective(SetToSeq(Buffer))
      /\ ToSet(SetToSeq(Buffer)) = Buffer
  BY RecvAssumption, SetToSeqIs
<1>6. flight = {} /\ starts < MaxStarts /\ ioErr <= MaxIoErr
  BY <1>1, <1>2, RecvAssumption DEF Stopping, ErrorsCounted, TypeOK
<1>7. TypeOK'
  <2>1. removed' \in BOOLEAN
    BY <1>2
  <2>2. starts' \in 1..MaxStarts
    BY <1>1, <1>2, <1>6, RecvAssumption DEF TypeOK
  <2> QED BY <1>1, <1>2, <1>4, <1>5, <2>1, <2>2 DEF TypeOK
<1>8. ErrorsCounted' /\ Stopping'
  BY <1>1, <1>2, <1>6, RecvAssumption DEF ErrorsCounted, Stopping, TypeOK
<1>9. Accounted'
  BY <1>2, <1>5 DEF Accounted
<1>10. Queued'
  <2>1. ToSet(<<>>) = {} BY DEF ToSet
  <2>2. "buffers" \notin leftover' => ToSet(pending) = {} BY <1>4, <2>1
  <2> QED BY <1>1, <1>2, <1>5, <1>6, <2>2 DEF Queued
<1>11. Owned'
  <2>1. Pool' = Pool BY <1>2 DEF Pool
  <2> QED BY <1>1, <1>2, <1>4, <2>1 DEF Owned
<1>12. FlightHasSkb' /\ NoStuckPacket'
  BY <1>1, <1>2, <1>4 DEF FlightHasSkb, NoStuckPacket
<1> QED BY <1>7, <1>8, <1>9, <1>10, <1>11, <1>12 DEF IInv

----------------------------------------------------------------------------
LEMMA InvNext == IInv /\ [Next]_vars => IInv'
<1> SUFFICES ASSUME IInv, [Next]_vars PROVE IInv'
  OBVIOUS
<1>1. CASE Tasklet
  BY <1>1, TaskletStartsKeeps, TaskletBreaksKeeps, TaskletTurnKeeps DEF Tasklet
<1>2. CASE Control
  BY <1>2, StartNextKeeps, StopKeeps, StartAgainKeeps DEF Control
<1>3. ASSUME NEW b \in Buffer, Complete(b) PROVE IInv'
  <2>1. CASE CompletesDisabled(b) \/ CompletesFatal(b) \/ CompletesOther(b)
    <3>1. b \in flight BY <2>1 DEF CompletesDisabled, CompletesFatal, CompletesOther
    <3> QED BY <2>1, <3>1, LandsOnly
  <2>2. CASE Completes(b)
    BY <2>2, CompletesKeeps
  <2>3. ASSUME NEW error \in BOOLEAN, CompletesRetry(b, error) PROVE IInv'
    <3>1. b \in flight BY <2>3 DEF CompletesRetry
    <3>2. CASE removed' BY <2>3, <3>1, <3>2, LandsOnly
    <3>3. CASE ~removed' BY <2>3, <3>3, RetryKeeps
    <3> QED BY <3>2, <3>3
  <2> QED BY <1>3, <2>1, <2>2, <2>3 DEF Complete
<1>4. CASE UNCHANGED vars
  <2>1. /\ UNCHANGED <<flight, pending, skb, freeq, heap, lost>>
        /\ UNCHANGED <<rxq, tasklet, stopped, removed, rxOff>>
        /\ UNCHANGED <<ioErr, ctl, todo, starts, leftover>>
    BY <1>4 DEF vars, pool, flags
  <2>2. Pool' = Pool BY <2>1 DEF Pool
  <2>3. /\ TypeOK /\ ErrorsCounted /\ Stopping /\ Accounted /\ Queued /\ Owned
        /\ FlightHasSkb /\ NoStuckPacket
    BY DEF IInv
  <2>4. TypeOK' BY <2>1, <2>3 DEF TypeOK
  <2>5. ErrorsCounted' /\ Stopping' BY <2>1, <2>3 DEF ErrorsCounted, Stopping
  <2>6. Accounted' /\ Queued' BY <2>1, <2>3 DEF Accounted, Queued, CannotRx, CannotRun
  <2>7. Owned' BY <2>1, <2>2, <2>3 DEF Owned
  <2>8. FlightHasSkb' /\ NoStuckPacket'
    BY <2>1, <2>3 DEF FlightHasSkb, NoStuckPacket, CannotRun
  <2> QED BY <2>4, <2>5, <2>6, <2>7, <2>8 DEF IInv
<1> QED BY <1>1, <1>2, <1>3, <1>4 DEF Next

LEMMA Invariance == Spec => []IInv
<1>1. Init => IInv BY InitInv
<1>2. IInv /\ [Next]_vars => IInv' BY InvNext
<1> QED BY <1>1, <1>2, PTL DEF Spec

----------------------------------------------------------------------------
\* The types of the receive path.  The number of errors in a row passes its
\* limit by one at most.
THEOREM TypeCorrect == Spec => []TypeOK
<1>1. IInv => TypeOK BY DEF IInv
<1> QED BY <1>1, Invariance, PTL

\* An URB in flight has an skb to write to, also where the tasklet forgets the skb
\* of a buffer that a start submitted while it was still in the pending queue.
THEOREM UrbsHaveMemory == Spec => []FlightHasSkb
<1>1. IInv => FlightHasSkb BY DEF IInv
<1> QED BY <1>1, Invariance, PTL

\* A packet in rx_skb_queue has a tasklet, unless a suspend left it there.
THEOREM PacketsHaveTasklet == Spec => []NoStuckPacket
<1>1. IInv => NoStuckPacket BY DEF IInv
<1> QED BY <1>1, Invariance, PTL

\* No buffer is forgotten by a driver that receives.
THEOREM BuffersAccounted == Spec => []NoBufferForgotten
<1>1. ASSUME IInv PROVE NoBufferForgotten
  <2>1. TypeOK /\ Accounted /\ Stopping BY <1>1 DEF IInv
  <2>2. ASSUME ctl = "open", ~CannotRx, NEW b \in Buffer
        PROVE  b \in flight \/ Waits(b) \/ b \in lost
    <3>1. ToSet(todo) = {} BY <2>1, <2>2 DEF Stopping, ToSet
    <3>2. b \in flight \union ToSet(pending) \union lost
      BY <2>1, <2>2, <3>1 DEF Accounted
    <3>3. b \in ToSet(pending) => Waits(b)
      BY <2>1, ToSetIs DEF TypeOK, Waits
    <3> QED BY <3>2, <3>3
  <2> QED BY <2>2 DEF NoBufferForgotten
<1> QED BY <1>1, Invariance, PTL

\* Of the places where x can be in an injective s there is one, or none.
LEMMA OneIndex ==
  ASSUME NEW S, NEW s \in Seq(S), NEW x, IsInjective(s)
  PROVE  Cardinality({i \in 1..Len(s) : s[i] = x}) = IF x \in ToSet(s) THEN 1 ELSE 0
<1>1. CASE x \in ToSet(s)
  <2>1. PICK i \in 1..Len(s) : s[i] = x BY <1>1, ToSetIs
  <2>2. {j \in 1..Len(s) : s[j] = x} = {i} BY <2>1, ToSetIs
  <2> QED BY <1>1, <2>2, FS_Singleton
<1>2. CASE x \notin ToSet(s)
  <2>1. {j \in 1..Len(s) : s[j] = x} = {} BY <1>2, ToSetIs
  <2> QED BY <1>2, <2>1, FS_EmptySet
<1> QED BY <1>1, <1>2

\* Every skb is in one place, as long as no start found buffers that waited.
THEOREM EverySkbOwnedOnce == Spec => []SkbOwnedOnce
<1>1. ASSUME IInv PROVE SkbOwnedOnce
  <2>1. TypeOK /\ Owned BY <1>1 DEF IInv
  <2> SUFFICES ASSUME "buffers" \notin leftover, NEW k \in Skb
               PROVE  Cardinality({i \in 1..Len(rxq) : rxq[i] = k})
                      + Cardinality({i \in 1..Len(freeq) : freeq[i] = k})
                      + Cardinality({b \in Buffer : skb[b] = k})
                      + (IF k \in heap THEN 1 ELSE 0) = 1
    BY DEF SkbOwnedOnce
  <2>2. IsInjective(rxq) /\ OnePlace(Pool, ToSet(rxq))
    BY <2>1 DEF Owned
  <2>3. /\ IsInjective(freeq)
        /\ \A b, c \in Buffer : skb[b] = skb[c] /\ skb[b] # None => b = c
        /\ \A b \in Buffer : skb[b] \notin ToSet(freeq) \union heap \union ToSet(rxq)
        /\ \A j \in ToSet(freeq) : j \notin heap \union ToSet(rxq)
        /\ \A j \in heap : j \notin ToSet(rxq)
        /\ \A j \in Skb : j \in ToSet(freeq) \union heap \union ToSet(rxq)
                          \/ \E b \in Buffer : skb[b] = j
    BY <2>1, <2>2, PoolIs DEF OnePlace
  <2>4. Cardinality({i \in 1..Len(rxq) : rxq[i] = k}) = IF k \in ToSet(rxq) THEN 1 ELSE 0
    BY <2>1, <2>2, OneIndex DEF TypeOK
  <2>5. Cardinality({i \in 1..Len(freeq) : freeq[i] = k}) = IF k \in ToSet(freeq) THEN 1 ELSE 0
    BY <2>1, <2>3, OneIndex DEF TypeOK
  <2>6. CASE \E b \in Buffer : skb[b] = k
    <3>1. PICK b \in Buffer : skb[b] = k BY <2>6
    <3>2. {c \in Buffer : skb[c] = k} = {b} BY <2>3, <3>1, RecvAssumption
    <3>3. Cardinality({c \in Buffer : skb[c] = k}) = 1 BY <3>2, FS_Singleton
    <3>4. k \notin ToSet(freeq) /\ k \notin heap /\ k \notin ToSet(rxq) BY <2>3, <3>1
    <3> QED BY <2>4, <2>5, <3>3, <3>4
  <2>7. CASE ~\E b \in Buffer : skb[b] = k
    <3>1. {c \in Buffer : skb[c] = k} = {} BY <2>7
    <3>2. Cardinality({c \in Buffer : skb[c] = k}) = 0 BY <3>1, FS_EmptySet
    <3>3. k \in ToSet(freeq) \union heap \union ToSet(rxq) BY <2>3, <2>7
    <3> QED BY <2>3, <2>4, <2>5, <3>2, <3>3
  <2> QED BY <2>6, <2>7
<1> QED BY <1>1, Invariance, PTL
=============================================================================
