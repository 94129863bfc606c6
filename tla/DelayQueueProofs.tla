-------------------------- MODULE DelayQueueProofs --------------------------
(***************************************************************************)
(* Proofs about DelayQueue, for every set of alarms, all delays and all    *)
(* bounds: the deltas give the time each alarm is due, select() does not   *)
(* sleep through an alarm, and alarms ring neither early nor out of turn.  *)
(*                                                                         *)
(* When an alarm is due is a sum over a list of any length (Time()), about *)
(* which SumFacts has what is needed.  On it rest facts about each list    *)
(* operation, in terms of due times instead of deltas; then that each      *)
(* keeps the list Right; and last that every action does.                  *)
(***************************************************************************)
EXTENDS DelayQueue, SumFacts, FiniteSetTheorems, SequenceTheorems, TLAPS

-----------------------------------------------------------------------------
(* Due times.                                                              *)

\* Time() is the last value of a function that sums up the deltas.
LEMMA TimeSums ==
    ASSUME NEW q, NEW n \in Nat, NEW d, \A i \in 1..n : d[i] = q[i].delta /\ d[i] \in Int
    PROVE  \E f : Sums(d, n, f) /\ Time(q, n) = f[n]
<1> DEFINE Body(f) == [k \in 0..n |-> IF k = 0 THEN 0 ELSE f[k - 1] + q[k].delta]
           f == CHOOSE f : f = Body(f)
<1>1. \A g : [k \in 0..n |-> IF k = 0 THEN 0 ELSE g[k - 1] + d[k]] = Body(g)
  OBVIOUS
<1>2. f = Body(f)
  <2>1. PICK g : Sums(d, n, g)  BY SumsExist
  <2>2. g = Body(g)  BY <1>1, <2>1 DEF Sums
  <2> QED  BY <2>2
<1>3. Sums(d, n, f)  BY <1>1, <1>2 DEF Sums
<1>4. Time(q, n) = f[n]  BY DEF Time
<1> QED  BY <1>3, <1>4

\* A function that sums up the deltas gives the due times.
LEMMA TimeIs ==
    ASSUME NEW q, NEW n \in Nat, \A i \in 1..n : q[i].delta \in Int,
           NEW T \in [0..n -> Int], T[0] = 0, \A k \in 1..n : T[k] = T[k - 1] + q[k].delta
    PROVE  \A m \in 0..n : Time(q, m) = T[m]
<1> TAKE m \in 0..n
<1> DEFINE d == [i \in 1..n |-> q[i].delta]
<1>1. \A i \in 1..n : d[i] = q[i].delta /\ d[i] \in Int  OBVIOUS
<1> HIDE DEF d
<1>2. m \in Nat /\ \A i \in 1..m : i \in 1..n  OBVIOUS
<1>3. PICK f : Sums(d, m, f) /\ Time(q, m) = f[m]  BY <1>1, <1>2, TimeSums
<1>4. f[m] = T[m]
  <2>1. \A k \in 1..n : T[k] = T[k - 1] + d[k]  BY <1>1
  <2>2. \A i \in 1..n : d[i] \in Int  BY <1>1
  <2>3. Sums(d, m, f)  BY <1>3
  <2> QED  BY <2>1, <2>2, <2>3, SumsAgree
<1> QED  BY <1>3, <1>4

\* What the list is made of.
Entries == [alarm : Alarms, delta : Nat]

\* What Time() is, on a list of entries: the sum of the deltas, which never decreases.
LEMMA TimeFacts ==
    ASSUME NEW q \in Seq(Entries)
    PROVE  /\ Len(q) \in Nat
           /\ Time(q, 0) = 0
           /\ \A k \in 1..Len(q) : Time(q, k) = Time(q, k - 1) + q[k].delta
           /\ \A k \in 0..Len(q) : Time(q, k) \in Nat
           /\ \A i, j \in 0..Len(q) : i <= j => Time(q, i) <= Time(q, j)
           /\ \A k \in 1..Len(q) : q[k].alarm \in Alarms /\ q[k].delta \in Nat
<1>1. Len(q) \in Nat  BY LenProperties
<1>2. PICK n \in Nat : n = Len(q)  BY <1>1
<1>3. \A k \in 1..n : q[k].alarm \in Alarms /\ q[k].delta \in Nat
  <2>1. \A k \in 1..n : q[k] \in Entries  BY <1>2, ElementOfSeq
  <2> QED  BY <2>1 DEF Entries
<1> DEFINE d == [i \in 1..n |-> q[i].delta]
<1>4. \A k \in 1..n : d[k] = q[k].delta /\ d[k] \in Nat /\ d[k] \in Int  BY <1>3
<1> HIDE DEF d
<1>5. PICK T \in [0..n -> Int] : Sums(d, n, T)  BY <1>4, SumsExist
<1>6. T[0] = 0 /\ \A k \in 1..n : T[k] = T[k - 1] + d[k]  BY <1>5, SumsStep
<1>7. \A m \in 0..n : Time(q, m) = T[m]
  <2>1. T[0] = 0  BY <1>6
  <2>2. \A k \in 1..n : T[k] = T[k - 1] + q[k].delta  BY <1>4, <1>6
  <2>3. \A k \in 1..n : q[k].delta \in Int  BY <1>4
  <2> QED  BY <2>1, <2>2, <2>3, TimeIs
<1>8. /\ \A k \in 0..n : T[k] \in Nat
      /\ \A i, j \in 0..n : i <= j => T[i] <= T[j]
  BY <1>4, <1>6, SumsGrow
<1>9. \A k \in 1..n : Time(q, k) = Time(q, k - 1) + q[k].delta
  <2>1. \A k \in 1..n : k \in 0..n /\ k - 1 \in 0..n  OBVIOUS
  <2> QED  BY <1>4, <1>6, <1>7, <2>1
<1>10. 0 \in 0..n  OBVIOUS
<1> QED  BY <1>2, <1>3, <1>6, <1>7, <1>8, <1>9, <1>10

-----------------------------------------------------------------------------
(* What the operations on the list do to the due times.                    *)

\* An entry whose delta is changed keeps its alarm.
LEMMA ChangedDelta ==
    ASSUME NEW b \in Entries, NEW x
    PROVE  [b EXCEPT !.delta = x] = [alarm |-> b.alarm, delta |-> x]
BY DEF Entries

\* A sequence of entries, of a given length.
LEMMA EntrySeq ==
    ASSUME NEW n \in Nat, NEW r \in [1..n -> Entries]
    PROVE  r \in Seq(Entries) /\ Len(r) = n
<1>1. r \in Seq(Entries)  BY SeqDef
<1>2. DOMAIN r = 1..n  OBVIOUS
<1> QED  BY <1>1, <1>2, LenProperties

\* synchronize() brings every alarm nearer, but not beyond the present.
LEMMA SyncFacts ==
    ASSUME NEW q \in Seq(Entries), NEW e \in Int
    PROVE  LET r == Synchronize(q, e) IN
           /\ r \in Seq(Entries) /\ Len(r) = Len(q)
           /\ \A i \in 1..Len(q) : r[i].alarm = q[i].alarm
           /\ \A i \in 0..Len(q) : Time(r, i) = IF e < 0 THEN Time(q, i) ELSE Minus(Time(q, i), e)
<1>1. PICK n \in Nat : n = Len(q)  BY LenProperties
<1>2. CASE e < 0
  BY <1>2 DEF Synchronize
<1>3. CASE ~(e < 0)
  <2> DEFINE T == [i \in 0..n |-> Minus(Time(q, i), e)]
             r == [i \in 1..n |-> [alarm |-> q[i].alarm, delta |-> T[i] - T[i - 1]]]
  <2>1. \A i \in 1..n : q[i] \in Entries  BY <1>1, ElementOfSeq
  <2>2. \A i \in 0..n : T[i] = Minus(Time(q, i), e) /\ T[i] \in Int
    BY <1>1, TimeFacts DEF Minus
  <2>3. T[0] = 0  BY <1>1, <1>3, TimeFacts DEF Minus
  <2>4. \A i \in 1..n : T[i] - T[i - 1] \in Nat
    <3> TAKE i \in 1..n
    <3>1. i \in 0..n /\ i - 1 \in 0..n /\ i - 1 <= i  OBVIOUS
    <3>2. PICK x \in Nat, y \in Nat : x = Time(q, i) /\ y = Time(q, i - 1) /\ y <= x
      BY <1>1, <3>1, TimeFacts
    <3>3. T[i] = Minus(x, e) /\ T[i - 1] = Minus(y, e)  BY <2>2, <3>1, <3>2
    <3>4. Minus(x, e) - Minus(y, e) \in Nat  BY <3>2 DEF Minus
    <3> HIDE DEF T
    <3> QED  BY <3>3, <3>4
  <2>5. \A i \in 1..n : T[i] = Minus(Time(q, i), e) /\ T[i - 1] = Minus(Time(q, i - 1), e)
    <3>1. \A i \in 1..n : i \in 0..n /\ i - 1 \in 0..n  OBVIOUS
    <3> QED  BY <2>2, <3>1
  <2>6. T \in [0..n -> Int]  BY <2>2
  <2> HIDE DEF T
  <2>7. Synchronize(q, e) = r
    <3>1. DOMAIN q = 1..n  BY <1>1, LenProperties
    <3>2. \A i \in 1..n :
            [q[i] EXCEPT !.delta = Minus(Time(q, i), e) - Minus(Time(q, i - 1), e)] = r[i]
      BY <2>1, <2>5, ChangedDelta
    <3> QED  BY <1>3, <3>1, <3>2 DEF Synchronize
  <2>8. \A i \in 1..n : r[i].alarm = q[i].alarm /\ r[i].delta = T[i] - T[i - 1] /\ r[i] \in Entries
    BY <2>1, <2>4 DEF Entries
  <2>9. r \in [1..n -> Entries]  BY <2>8
  <2> HIDE DEF r
  <2>10. r \in Seq(Entries) /\ Len(r) = n  BY <2>9, EntrySeq
  <2>11. \A k \in 1..n : T[k] = T[k - 1] + r[k].delta /\ r[k].delta \in Int
    <3> TAKE k \in 1..n
    <3>1. k \in 0..n /\ k - 1 \in 0..n  OBVIOUS
    <3>2. PICK x \in Int, y \in Int : x = T[k] /\ y = T[k - 1]  BY <2>6, <3>1
    <3>3. r[k].delta = x - y  BY <2>8, <3>2
    <3> QED  BY <3>2, <3>3
  <2>12. \A m \in 0..n : Time(r, m) = T[m]  BY <2>3, <2>6, <2>11, TimeIs
  <2> QED  BY <1>1, <1>3, <2>2, <2>7, <2>8, <2>10, <2>12
<1> QED  BY <1>2, <1>3

\* What RemoveAt() of the community modules does to a sequence.
LEMMA RemoveAtFacts ==
    ASSUME NEW S, NEW s \in Seq(S), NEW at \in 1..Len(s)
    PROVE  /\ RemoveAt(s, at) \in Seq(S) /\ Len(RemoveAt(s, at)) = Len(s) - 1
           /\ \A i \in 1..(Len(s) - 1) : RemoveAt(s, at)[i] = IF i < at THEN s[i] ELSE s[i + 1]
<1>1. PICK n \in Nat : n = Len(s) /\ at \in 1..n  BY LenProperties
<1>2. \A i \in 1..n : s[i] \in S  BY <1>1, ElementOfSeq
<1> DEFINE b == SubSeq(s, 1, at - 1)
           c == SubSeq(s, at + 1, n)
<1>3. b \in Seq(S) /\ Len(b) = at - 1 /\ \A i \in 1..(at - 1) : b[i] = s[i]
  <2>1. \A i \in 1..(at - 1) : s[i] \in S  BY <1>1, <1>2
  <2>2. /\ b \in Seq(S) /\ Len(b) = IF 1 <= at - 1 THEN at - 1 - 1 + 1 ELSE 0
        /\ \A i \in 1..(at - 1 - 1 + 1) : b[i] = s[1 + i - 1]
    BY <1>1, <2>1, SubSeqProperties
  <2>3. (IF 1 <= at - 1 THEN at - 1 - 1 + 1 ELSE 0) = at - 1 /\ at - 1 - 1 + 1 = at - 1  BY <1>1
  <2>4. \A i \in 1..(at - 1) : 1 + i - 1 = i  OBVIOUS
  <2> HIDE DEF b
  <2> QED  BY <2>2, <2>3, <2>4
<1>4. c \in Seq(S) /\ Len(c) = n - at /\ \A i \in 1..(n - at) : c[i] = s[at + i]
  <2>1. \A i \in (at + 1)..n : s[i] \in S  BY <1>1, <1>2
  <2>2. /\ c \in Seq(S) /\ Len(c) = IF at + 1 <= n THEN n - (at + 1) + 1 ELSE 0
        /\ \A i \in 1..(n - (at + 1) + 1) : c[i] = s[at + 1 + i - 1]
    BY <1>1, <2>1, SubSeqProperties
  <2>3. (IF at + 1 <= n THEN n - (at + 1) + 1 ELSE 0) = n - at /\ n - (at + 1) + 1 = n - at  BY <1>1
  <2>4. \A i \in 1..(n - at) : at + 1 + i - 1 = at + i  BY <1>1
  <2> HIDE DEF c
  <2> QED  BY <2>2, <2>3, <2>4
<1>5. RemoveAt(s, at) = b \o c  BY <1>1 DEF RemoveAt
<1> HIDE DEF b, c
<1>6. /\ b \o c \in Seq(S) /\ Len(b \o c) = Len(b) + Len(c)
      /\ \A i \in 1..(Len(b) + Len(c)) : (b \o c)[i] = IF i <= Len(b) THEN b[i] ELSE c[i - Len(b)]
  BY <1>3, <1>4, ConcatProperties
<1>7. Len(b) + Len(c) = n - 1  BY <1>1, <1>3, <1>4
<1>8. ASSUME NEW i \in 1..(n - 1)  PROVE (b \o c)[i] = IF i < at THEN s[i] ELSE s[i + 1]
  <2>1. (b \o c)[i] = IF i <= at - 1 THEN b[i] ELSE c[i - (at - 1)]
    BY <1>3, <1>6, <1>7
  <2>2. CASE i < at
    <3>1. i <= at - 1 /\ i \in 1..(at - 1)  BY <1>1, <2>2
    <3> QED  BY <1>3, <2>1, <2>2, <3>1
  <2>3. CASE ~(i < at)
    <3>1. ~(i <= at - 1) /\ i - (at - 1) \in 1..(n - at) /\ at + (i - (at - 1)) = i + 1  BY <1>1, <2>3
    <3> QED  BY <1>4, <2>1, <2>3, <3>1
  <2> QED  BY <2>2, <2>3
<1> QED  BY <1>1, <1>5, <1>6, <1>7, <1>8

\* r is s with e put in at place at.
Inserted(r, s, at, e) ==
    /\ Len(r) = Len(s) + 1
    /\ \A i \in 1..(Len(s) + 1) : r[i] = IF i < at THEN s[i] ELSE IF i = at THEN e ELSE s[i - 1]

\* What InsertAt() of the community modules does to a sequence.
LEMMA InsertAtFacts ==
    ASSUME NEW S, NEW s \in Seq(S), NEW at \in 1..(Len(s) + 1), NEW e \in S
    PROVE  InsertAt(s, at, e) \in Seq(S) /\ Inserted(InsertAt(s, at, e), s, at, e)
<1>1. PICK n \in Nat : n = Len(s) /\ at \in 1..(n + 1)  BY LenProperties
<1>2. \A i \in 1..n : s[i] \in S  BY <1>1, ElementOfSeq
<1> DEFINE b == SubSeq(s, 1, at - 1)
           c == SubSeq(s, at, n)
           f == b \o <<e>>
<1>3. b \in Seq(S) /\ Len(b) = at - 1 /\ \A i \in 1..(at - 1) : b[i] = s[i]
  <2>1. \A i \in 1..(at - 1) : s[i] \in S  BY <1>1, <1>2
  <2>2. /\ b \in Seq(S) /\ Len(b) = IF 1 <= at - 1 THEN at - 1 - 1 + 1 ELSE 0
        /\ \A i \in 1..(at - 1 - 1 + 1) : b[i] = s[1 + i - 1]
    BY <1>1, <2>1, SubSeqProperties
  <2>3. (IF 1 <= at - 1 THEN at - 1 - 1 + 1 ELSE 0) = at - 1 /\ at - 1 - 1 + 1 = at - 1  BY <1>1
  <2>4. \A i \in 1..(at - 1) : 1 + i - 1 = i  OBVIOUS
  <2> HIDE DEF b
  <2> QED  BY <2>2, <2>3, <2>4
<1>4. c \in Seq(S) /\ Len(c) = n - at + 1 /\ \A i \in 1..(n - at + 1) : c[i] = s[at + i - 1]
  <2>1. \A i \in at..n : s[i] \in S  BY <1>1, <1>2
  <2>2. /\ c \in Seq(S) /\ Len(c) = IF at <= n THEN n - at + 1 ELSE 0
        /\ \A i \in 1..(n - at + 1) : c[i] = s[at + i - 1]
    BY <1>1, <2>1, SubSeqProperties
  <2>3. (IF at <= n THEN n - at + 1 ELSE 0) = n - at + 1  BY <1>1
  <2> HIDE DEF c
  <2> QED  BY <2>2, <2>3
<1>5. InsertAt(s, at, e) = f \o c  BY <1>1 DEF InsertAt
<1> HIDE DEF b, c
<1>6. <<e>> \in Seq(S) /\ Len(<<e>>) = 1 /\ <<e>>[1] = e  OBVIOUS
<1>7. /\ f \in Seq(S) /\ Len(f) = at
      /\ \A i \in 1..at : f[i] = IF i < at THEN b[i] ELSE e
  <2>1. /\ f \in Seq(S) /\ Len(f) = Len(b) + Len(<<e>>)
        /\ \A i \in 1..(Len(b) + Len(<<e>>)) : f[i] = IF i <= Len(b) THEN b[i] ELSE <<e>>[i - Len(b)]
    BY <1>3, <1>6, ConcatProperties
  <2>2. Len(b) + Len(<<e>>) = at  BY <1>1, <1>3, <1>6
  <2>3. \A i \in 1..at : (i <= at - 1 <=> i < at) /\ (~(i < at) => i - (at - 1) = 1)  BY <1>1
  <2> HIDE DEF f
  <2>4. \A i \in 1..at : f[i] = IF i <= at - 1 THEN b[i] ELSE <<e>>[i - (at - 1)]  BY <1>3, <2>1, <2>2
  <2> QED  BY <1>6, <2>1, <2>2, <2>3, <2>4
<1> HIDE DEF f
<1>8. /\ f \o c \in Seq(S) /\ Len(f \o c) = Len(f) + Len(c)
      /\ \A i \in 1..(Len(f) + Len(c)) : (f \o c)[i] = IF i <= Len(f) THEN f[i] ELSE c[i - Len(f)]
  BY <1>4, <1>7, ConcatProperties
<1>9. Len(f) + Len(c) = n + 1  BY <1>1, <1>4, <1>7
<1>10. ASSUME NEW i \in 1..(n + 1)
       PROVE  (f \o c)[i] = IF i < at THEN s[i] ELSE IF i = at THEN e ELSE s[i - 1]
  <2>1. (f \o c)[i] = IF i <= at THEN f[i] ELSE c[i - at]  BY <1>7, <1>8, <1>9
  <2>2. CASE i < at
    <3>1. i <= at /\ i \in 1..at /\ i \in 1..(at - 1)  BY <1>1, <2>2
    <3> QED  BY <1>3, <1>7, <2>1, <2>2, <3>1
  <2>3. CASE i = at
    <3>1. i <= at /\ i \in 1..at /\ ~(i < at)  BY <1>1, <2>3
    <3> QED  BY <1>7, <2>1, <2>3, <3>1
  <2>4. CASE i > at
    <3>1. ~(i <= at) /\ ~(i < at) /\ i # at /\ i - at \in 1..(n - at + 1) /\ at + (i - at) - 1 = i - 1
      BY <1>1, <2>4
    <3> QED  BY <1>4, <2>1, <3>1
  <2>5. i < at \/ i = at \/ i > at  BY <1>1
  <2> QED  BY <2>2, <2>3, <2>4, <2>5
<1> QED  BY <1>1, <1>5, <1>8, <1>9, <1>10 DEF Inserted

\* Where findEntryByToken() finds an alarm.
LEMMA PlaceFacts ==
    ASSUME NEW q \in Seq(Entries), NEW a
    PROVE  /\ Place(q, a) \in 0..Len(q)
           /\ Place(q, a) = 0 => \A i \in 1..Len(q) : q[i].alarm # a
           /\ Place(q, a) # 0 => q[Place(q, a)].alarm = a
<1> DEFINE I == {i \in 1..Len(q) : q[i].alarm = a}
<1>1. Place(q, a) = IF I # {} THEN Min(I) ELSE 0  BY DEF Place, SelectInSeq
<1>2. Len(q) \in Nat  BY LenProperties
<1>3. I # {} => Min(I) \in I
  <2>1. I \in SUBSET Nat  BY <1>2
  <2> HIDE DEF I
  <2> QED  BY <2>1, LeastNumber DEF Min
<1> QED  BY <1>1, <1>2, <1>3

\* removeEntry() leaves the due times of the others as they are.
LEMMA RemoveFacts ==
    ASSUME NEW q \in Seq(Entries), NEW a, Place(q, a) # 0
    PROVE  LET r == RemoveEntry(q, a)
               at == Place(q, a)
           IN
           /\ at \in 1..Len(q) /\ q[at].alarm = a
           /\ r \in Seq(Entries) /\ Len(r) = Len(q) - 1
           /\ \A i \in 1..(Len(q) - 1) :
                LET j == IF i < at THEN i ELSE i + 1
                IN r[i].alarm = q[j].alarm /\ Time(r, i) = Time(q, j)
<1> DEFINE at == Place(q, a)
<1>1. PICK n \in Nat : n = Len(q) /\ at \in 1..n  BY LenProperties, PlaceFacts
<1>2. q[at].alarm = a  BY PlaceFacts
<1> HIDE DEF at
<1> DEFINE delta(i) == IF i = at + 1 THEN q[i].delta + q[at].delta ELSE q[i].delta
           x == [i \in 1..n |-> [alarm |-> q[i].alarm, delta |-> delta(i)]]
           r == RemoveAt(x, at)
           T == [i \in 0..(n - 1) |-> IF i < at THEN Time(q, i) ELSE Time(q, i + 1)]
<1>3. \A i \in 1..n : q[i] \in Entries /\ q[i].alarm \in Alarms /\ q[i].delta \in Nat
  BY <1>1, ElementOfSeq, TimeFacts
<1>4. \A i \in 1..n : delta(i) \in Nat  BY <1>1, <1>3
<1>5. x \in [1..n -> Entries] /\ \A i \in 1..n : x[i].alarm = q[i].alarm /\ x[i].delta = delta(i)
  BY <1>3, <1>4 DEF Entries
<1>6. RemoveEntry(q, a) = r
  <2>1. DOMAIN q = 1..n  BY <1>1, LenProperties
  <2>2. \A i \in 1..n : [q[i] EXCEPT !.delta = delta(i)] = x[i]  BY <1>3, ChangedDelta
  <2>3. [i \in DOMAIN q |-> [q[i] EXCEPT !.delta = delta(i)]] = x  BY <2>1, <2>2
  <2>4. \A i \in DOMAIN q : [q[i] EXCEPT !.delta = IF i = at + 1 THEN @ + q[at].delta ELSE @]
                            = [q[i] EXCEPT !.delta = delta(i)]
    BY <1>3, <2>1 DEF Entries
  <2>5. at # 0  BY <1>1
  <2>6. RemoveEntry(q, a) =
          RemoveAt([i \in DOMAIN q |-> [q[i] EXCEPT !.delta = IF i = at + 1 THEN @ + q[at].delta ELSE @]], at)
    BY <2>5 DEF RemoveEntry, at
  <2> HIDE DEF delta, x
  <2> QED  BY <2>3, <2>4, <2>6
<1> HIDE DEF x
<1>7. x \in Seq(Entries) /\ Len(x) = n  BY <1>5, EntrySeq
<1>0. \A i \in 1..n : delta(i) = IF i = at + 1 THEN q[i].delta + q[at].delta ELSE q[i].delta
  OBVIOUS
<1> HIDE DEF delta
<1>8. /\ r \in Seq(Entries) /\ Len(r) = n - 1
      /\ \A i \in 1..(n - 1) : r[i] = IF i < at THEN x[i] ELSE x[i + 1]
  BY <1>1, <1>7, RemoveAtFacts
<1> HIDE DEF r
<1>9. \A i \in 0..n : Time(q, i) \in Nat  BY <1>1, TimeFacts
<1>10. \A i \in 1..n : Time(q, i) = Time(q, i - 1) + q[i].delta  BY <1>1, TimeFacts
<1>11. T \in [0..(n - 1) -> Int] /\ T[0] = 0
  <2>1. \A i \in 0..(n - 1) : i \in 0..n /\ i + 1 \in 0..n  OBVIOUS
  <2>2. 0 \in 0..(n - 1) /\ 0 < at /\ Time(q, 0) = 0  BY <1>1, TimeFacts
  <2> QED  BY <1>9, <2>1, <2>2
<1>12. ASSUME NEW k \in 1..(n - 1)
       PROVE  T[k] = T[k - 1] + r[k].delta /\ r[k].delta \in Int
  <2>1. k \in 0..(n - 1) /\ k - 1 \in 0..(n - 1) /\ k \in 1..n /\ k + 1 \in 1..n /\ k - 1 \in 0..n
    OBVIOUS
  <2>2. PICK t0 \in Nat, t1 \in Nat, t2 \in Nat, d1 \in Nat, d2 \in Nat :
           /\ t0 = Time(q, k - 1) /\ t1 = Time(q, k) /\ t2 = Time(q, k + 1)
           /\ d1 = q[k].delta /\ d2 = q[k + 1].delta /\ t1 = t0 + d1 /\ t2 = t1 + d2
    <3>1. k \in 0..n /\ k + 1 \in 0..n /\ k + 1 - 1 = k  OBVIOUS
    <3>2. Time(q, k + 1) = Time(q, k) + q[k + 1].delta  BY <1>10, <2>1, <3>1
    <3> QED  BY <1>3, <1>9, <1>10, <2>1, <3>1, <3>2
  <2>3. T[k] = (IF k < at THEN t1 ELSE t2) /\ T[k - 1] = IF k - 1 < at THEN t0 ELSE t1
    <3>1. k - 1 + 1 = k  OBVIOUS
    <3> QED  BY <2>1, <2>2, <3>1
  <2> HIDE DEF T
  <2>4. CASE k < at
    <3>1. k # at + 1 /\ k - 1 < at  BY <1>1, <2>4
    <3>2. r[k].delta = d1
      <4>1. r[k].delta = delta(k)  BY <1>5, <1>8, <2>1, <2>4
      <4>2. delta(k) = q[k].delta  BY <1>0, <2>1, <3>1
      <4> QED  BY <2>2, <4>1, <4>2
    <3>3. T[k] = t1 /\ T[k - 1] = t0  BY <2>3, <2>4, <3>1
    <3> QED  BY <2>2, <3>2, <3>3
  <2>5. CASE k = at
    <3>1. ~(k < at) /\ k - 1 < at  BY <1>1, <2>5
    <3>2. r[k].delta = d2 + d1
      <4>1. r[k].delta = delta(k + 1)  BY <1>5, <1>8, <2>1, <3>1
      <4>2. delta(k + 1) = q[k + 1].delta + q[k].delta  BY <1>0, <2>1, <2>5
      <4> QED  BY <2>2, <4>1, <4>2
    <3>3. T[k] = t2 /\ T[k - 1] = t0  BY <2>3, <3>1
    <3>4. t2 = t0 + (d2 + d1) /\ d2 + d1 \in Int
      <4>1. t1 = t0 + d1 /\ t2 = t1 + d2  BY <2>2
      <4> QED  BY <4>1
    <3> QED  BY <3>2, <3>3, <3>4
  <2>6. CASE k > at
    <3>1. ~(k < at) /\ ~(k - 1 < at) /\ k + 1 # at + 1  BY <1>1, <2>6
    <3>2. r[k].delta = d2
      <4>1. r[k].delta = delta(k + 1)  BY <1>5, <1>8, <2>1, <3>1
      <4>2. delta(k + 1) = q[k + 1].delta  BY <1>0, <2>1, <3>1
      <4> QED  BY <2>2, <4>1, <4>2
    <3>3. T[k] = t2 /\ T[k - 1] = t1  BY <2>3, <3>1
    <3> QED  BY <2>2, <3>2, <3>3
  <2>7. k < at \/ k = at \/ k > at  BY <1>1
  <2> QED  BY <2>4, <2>5, <2>6, <2>7
<1>13. \A m \in 0..(n - 1) : Time(r, m) = T[m]
  <2>1. n - 1 \in Nat  BY <1>1
  <2> HIDE DEF T
  <2> QED  BY <1>11, <1>12, <2>1, TimeIs
<1>14. ASSUME NEW i \in 1..(n - 1)
       PROVE  LET j == IF i < at THEN i ELSE i + 1
              IN r[i].alarm = q[j].alarm /\ Time(r, i) = Time(q, j)
  <2>1. i \in 0..(n - 1) /\ i \in 1..n /\ i + 1 \in 1..n  OBVIOUS
  <2> QED  BY <1>5, <1>8, <1>13, <2>1
<1> QED  BY <1>1, <1>2, <1>6, <1>8, <1>14 DEF at

\* r is the list q with alarm a put in as its at-th entry, which is where it is due.
Joined(r, q, a, d, at) ==
    /\ r[at].alarm = a /\ Time(r, at) = d
    /\ \A i \in 1..(Len(q) + 1) \ {at} :
         LET j == IF i < at THEN i ELSE i - 1
         IN r[i].alarm = q[j].alarm /\ Time(r, i) = Time(q, j) /\ (i < at <=> Time(q, j) <= d)

\* addEntry() puts an alarm where it is due, and leaves the due times of the others as they are.
LEMMA AddFacts ==
    ASSUME NEW q \in Seq(Entries), NEW a \in Alarms, NEW d \in Nat
    PROVE  /\ AddEntry(q, a, d) \in Seq(Entries) /\ Len(AddEntry(q, a, d)) = Len(q) + 1
           /\ \E at \in 1..(Len(q) + 1) : Joined(AddEntry(q, a, d), q, a, d, at)
<1>1. PICK n \in Nat : n = Len(q)  BY LenProperties
<1>2. \A i \in 1..n : q[i] \in Entries /\ q[i].alarm \in Alarms /\ q[i].delta \in Nat
  BY <1>1, ElementOfSeq, TimeFacts
<1>3. /\ \A i \in 0..n : Time(q, i) \in Nat
      /\ \A i, j \in 0..n : i <= j => Time(q, i) <= Time(q, j)
  BY <1>1, TimeFacts
<1>4. Time(q, 0) = 0 /\ \A i \in 1..n : Time(q, i) = Time(q, i - 1) + q[i].delta
  BY <1>1, TimeFacts
<1> DEFINE before == {i \in 1..n : Time(q, i) <= d}
           Later == {i \in 1..(n + 1) : i = n + 1 \/ Time(q, i) > d}
<1>5. PICK at \in Later : \A y \in Later : at <= y
  <2>1. Later \in SUBSET Nat /\ n + 1 \in Later  OBVIOUS
  <2> HIDE DEF Later
  <2> QED  BY <2>1, LeastNumber
<1>6. at \in 1..(n + 1) /\ (at = n + 1 \/ Time(q, at) > d)  BY <1>5
<1>7. \A i \in 1..n : i < at => Time(q, i) <= d
  <2> TAKE i \in 1..n
  <2> HAVE i < at
  <2>1. i \notin Later  BY <1>5, <1>6
  <2>2. ~(Time(q, i) > d)  BY <2>1
  <2>3. Time(q, i) \in Nat  BY <1>3
  <2> QED  BY <2>2, <2>3
<1>8. \A i \in 1..n : i >= at => Time(q, i) > d
  <2> TAKE i \in 1..n
  <2> HAVE i >= at
  <2>1. at \in 0..n /\ i \in 0..n /\ at # n + 1  BY <1>6
  <2>2. Time(q, at) <= Time(q, i) /\ Time(q, at) > d  BY <1>3, <1>6, <2>1
  <2>3. PICK x \in Nat, y \in Nat : x = Time(q, at) /\ y = Time(q, i)  BY <1>3, <2>1
  <2> QED  BY <2>2, <2>3
<1> HIDE DEF Later
<1>9. before = 1..(at - 1)
  <2>1. ASSUME NEW i \in 1..n  PROVE Time(q, i) <= d <=> i < at
    <3>1. PICK x \in Nat : x = Time(q, i)  BY <1>3
    <3>2. i < at \/ i >= at  BY <1>6
    <3>3. i < at => x <= d  BY <1>7, <3>1
    <3>4. i >= at => x > d  BY <1>8, <3>1
    <3> QED  BY <1>6, <3>1, <3>2, <3>3, <3>4
  <2>2. \A i \in Nat : i \in 1..n /\ i < at <=> i \in 1..(at - 1)  BY <1>6
  <2> QED  BY <1>6, <2>1, <2>2
<1>10. Cardinality(before) + 1 = at
  <2>1. Cardinality(1..(at - 1)) = IF 1 > at - 1 THEN 0 ELSE at - 1 - 1 + 1  BY <1>6, FS_Interval
  <2>2. (IF 1 > at - 1 THEN 0 ELSE at - 1 - 1 + 1) = at - 1  BY <1>6
  <2> HIDE DEF before
  <2>3. Cardinality(before) = at - 1  BY <1>9, <2>1, <2>2
  <2> QED  BY <1>6, <2>3
<1> DEFINE own == d - Time(q, at - 1)
           delta(i) == IF i = at THEN q[i].delta - own ELSE q[i].delta
           x == [i \in 1..n |-> [alarm |-> q[i].alarm, delta |-> delta(i)]]
           e == [alarm |-> a, delta |-> own]
           r == InsertAt(x, at, e)
           T == [i \in 0..(n + 1) |-> IF i < at THEN Time(q, i) ELSE IF i = at THEN d ELSE Time(q, i - 1)]
<1>11. own \in Nat /\ Time(q, at - 1) \in Nat
  <2>1. at - 1 \in 0..n /\ (at - 1 = 0 \/ (at - 1 \in 1..n /\ at - 1 < at))  BY <1>6
  <2>2. PICK y \in Nat : y = Time(q, at - 1)  BY <1>3, <2>1
  <2>3. y <= d  BY <1>4, <1>7, <2>1, <2>2
  <2> QED  BY <2>2, <2>3
<1>12. e \in Entries  BY <1>11 DEF Entries
<1>13. \A i \in 1..n : delta(i) \in Nat /\ (i = at => delta(i) = Time(q, at) - d)
  <2> TAKE i \in 1..n
  <2>1. CASE i # at
    BY <1>2, <2>1
  <2>2. CASE i = at
    <3>1. at \in 1..n /\ at \in 0..n  BY <2>2
    <3>2. PICK y \in Nat, z \in Nat, w \in Nat :
             y = Time(q, at - 1) /\ z = Time(q, at) /\ w = q[at].delta /\ z = y + w /\ z > d
      <4>1. Time(q, at) = Time(q, at - 1) + q[at].delta  BY <1>4, <3>1
      <4>2. q[at].delta \in Nat /\ Time(q, at) \in Nat /\ Time(q, at) > d  BY <1>2, <1>3, <1>8, <3>1
      <4> QED  BY <1>11, <4>1, <4>2
    <3>3. delta(i) = w - (d - y)  BY <2>2, <3>2
    <3> HIDE DEF delta
    <3> QED  BY <2>2, <3>2, <3>3
  <2> QED  BY <2>1, <2>2
<1>14. x \in [1..n -> Entries] /\ \A i \in 1..n : x[i].alarm = q[i].alarm /\ x[i].delta = delta(i)
  <2> HIDE DEF delta
  <2> QED  BY <1>2, <1>13 DEF Entries
<1>15. AddEntry(q, a, d) = r
  <2>1. DOMAIN q = 1..n  BY <1>1, LenProperties
  <2>2. \A i \in 1..n : [q[i] EXCEPT !.delta = delta(i)] = x[i]  BY <1>2, ChangedDelta
  <2>3. [i \in DOMAIN q |-> [q[i] EXCEPT !.delta = delta(i)]] = x  BY <2>1, <2>2
  <2>4. \A i \in DOMAIN q : [q[i] EXCEPT !.delta = IF i = at THEN @ - own ELSE @]
                            = [q[i] EXCEPT !.delta = delta(i)]
    BY <1>2, <2>1 DEF Entries
  <2>5. {i \in DOMAIN q : Time(q, i) <= d} = before  BY <2>1
  <2> HIDE DEF before
  <2>6. AddEntry(q, a, d) =
          InsertAt([i \in DOMAIN q |-> [q[i] EXCEPT !.delta = IF i = at THEN @ - own ELSE @]], at, e)
    BY <1>10, <2>5 DEF AddEntry
  <2> HIDE DEF delta, x, own, e
  <2> QED  BY <2>3, <2>4, <2>6
<1> HIDE DEF x, e
<1>16. x \in Seq(Entries) /\ Len(x) = n  BY <1>14, EntrySeq
<1>17. /\ r \in Seq(Entries) /\ Len(r) = n + 1
       /\ \A i \in 1..(n + 1) : r[i] = IF i < at THEN x[i] ELSE IF i = at THEN e ELSE x[i - 1]
  <2>1. at \in 1..(Len(x) + 1)  BY <1>6, <1>16
  <2>2. x \in Seq(Entries) /\ e \in Entries  BY <1>12, <1>16
  <2>3. r \in Seq(Entries) /\ Inserted(r, x, at, e)  BY <2>1, <2>2, InsertAtFacts
  <2> HIDE DEF r
  <2> QED  BY <1>16, <2>3 DEF Inserted
<1> HIDE DEF r
<1>18. T \in [0..(n + 1) -> Int] /\ T[0] = 0
  <2>1. \A i \in 0..(n + 1) : (i < at => i \in 0..n) /\ (i # at /\ ~(i < at) => i - 1 \in 0..n)
    BY <1>6
  <2>2. 0 \in 0..(n + 1) /\ 0 < at  BY <1>6
  <2> QED  BY <1>3, <1>4, <2>1, <2>2
<1>19. ASSUME NEW k \in 1..(n + 1)
       PROVE  T[k] = T[k - 1] + r[k].delta /\ r[k].delta \in Int
  <2>1. k \in 0..(n + 1) /\ k - 1 \in 0..(n + 1)  OBVIOUS
  <2>2. /\ T[k] = IF k < at THEN Time(q, k) ELSE IF k = at THEN d ELSE Time(q, k - 1)
        /\ T[k - 1] = IF k - 1 < at THEN Time(q, k - 1) ELSE IF k - 1 = at THEN d ELSE Time(q, k - 1 - 1)
    BY <2>1
  <2> HIDE DEF T
  <2>3. CASE k < at
    <3>1. k - 1 < at /\ k \in 1..n /\ k # at /\ k \in 0..n /\ k - 1 \in 0..n  BY <1>6, <2>3
    <3>2. PICK y \in Nat, z \in Nat, w \in Nat :
             y = Time(q, k - 1) /\ z = Time(q, k) /\ w = q[k].delta /\ z = y + w
      <4>1. Time(q, k) = Time(q, k - 1) + q[k].delta  BY <1>4, <3>1
      <4>2. q[k].delta \in Nat /\ Time(q, k) \in Nat /\ Time(q, k - 1) \in Nat  BY <1>2, <1>3, <3>1
      <4> QED  BY <4>1, <4>2
    <3>3. r[k].delta = w  BY <1>14, <1>17, <2>3, <3>1, <3>2
    <3> QED  BY <2>2, <2>3, <3>1, <3>2, <3>3
  <2>4. CASE k = at
    <3>1. ~(k < at) /\ k - 1 < at  BY <1>6, <2>4
    <3>2. r[k].delta = own
      <4>1. r[k] = e  BY <1>17, <2>4, <3>1
      <4> QED  BY <4>1 DEF e
    <3>3. PICK y \in Nat : y = Time(q, at - 1)  BY <1>11
    <3>4. T[k] = d /\ T[k - 1] = y  BY <2>2, <2>4, <3>1, <3>3
    <3>5. r[k].delta = d - y  BY <3>2, <3>3
    <3> QED  BY <3>3, <3>4, <3>5
  <2>5. CASE k = at + 1
    <3>1. ~(k < at) /\ k # at /\ ~(k - 1 < at) /\ k - 1 = at /\ at \in 1..n /\ at \in 0..n
      BY <1>6, <2>5
    <3>2. r[k].delta = delta(at)  BY <1>14, <1>17, <3>1
    <3>3. PICK z \in Nat : z = Time(q, at)  BY <1>3, <3>1
    <3>4. r[k].delta = z - d  BY <1>13, <3>1, <3>2, <3>3
    <3>5. T[k] = z /\ T[k - 1] = d  BY <2>2, <3>1, <3>3
    <3> QED  BY <3>3, <3>4, <3>5
  <2>6. CASE k > at + 1
    <3>1. /\ ~(k < at) /\ k # at /\ ~(k - 1 < at) /\ k - 1 # at
          /\ k - 1 \in 1..n /\ k - 1 \in 0..n /\ k - 1 - 1 \in 0..n
      BY <1>6, <2>6
    <3>2. PICK y \in Nat, z \in Nat, w \in Nat :
             y = Time(q, k - 1 - 1) /\ z = Time(q, k - 1) /\ w = q[k - 1].delta /\ z = y + w
      <4>1. Time(q, k - 1) = Time(q, k - 1 - 1) + q[k - 1].delta  BY <1>4, <3>1
      <4>2. q[k - 1].delta \in Nat /\ Time(q, k - 1) \in Nat /\ Time(q, k - 1 - 1) \in Nat
        BY <1>2, <1>3, <3>1
      <4> QED  BY <4>1, <4>2
    <3>3. r[k].delta = w
      <4>1. r[k].delta = delta(k - 1)  BY <1>14, <1>17, <3>1
      <4> QED  BY <3>1, <3>2, <4>1
    <3> QED  BY <2>2, <3>1, <3>2, <3>3
  <2>7. k < at \/ k = at \/ k = at + 1 \/ k > at + 1  BY <1>6
  <2> QED  BY <2>3, <2>4, <2>5, <2>6, <2>7
<1>20. \A m \in 0..(n + 1) : Time(r, m) = T[m]
  <2>1. n + 1 \in Nat  OBVIOUS
  <2> HIDE DEF T
  <2> QED  BY <1>18, <1>19, <2>1, TimeIs
<1>21. r[at].alarm = a /\ Time(r, at) = d
  <2>1. at \in 0..(n + 1) /\ ~(at < at) /\ at \in 1..(n + 1)  BY <1>6
  <2>2. r[at] = e /\ T[at] = d  BY <1>17, <2>1
  <2> QED  BY <1>20, <2>1, <2>2 DEF e
<1>22. ASSUME NEW i \in 1..(n + 1) \ {at}
       PROVE  LET j == IF i < at THEN i ELSE i - 1
              IN r[i].alarm = q[j].alarm /\ Time(r, i) = Time(q, j) /\ (i < at <=> Time(q, j) <= d)
  <2>1. i \in 0..(n + 1) /\ i \in 1..(n + 1) /\ i # at  OBVIOUS
  <2>2. Time(r, i) = T[i]  BY <1>20, <2>1
  <2>3. CASE i < at
    <3>1. i \in 1..n  BY <1>6, <2>3
    <3>2. Time(r, i) = Time(q, i) /\ r[i].alarm = q[i].alarm /\ Time(q, i) <= d
      BY <1>7, <1>14, <1>17, <2>1, <2>2, <2>3, <3>1
    <3> QED  BY <2>3, <3>2
  <2>4. CASE ~(i < at)
    <3>1. i - 1 \in 1..n /\ i - 1 >= at /\ i - 1 \in 0..n  BY <1>6, <2>1, <2>4
    <3>2. Time(r, i) = Time(q, i - 1)  BY <2>1, <2>2, <2>4
    <3>3. r[i].alarm = q[i - 1].alarm  BY <1>14, <1>17, <2>1, <2>4, <3>1
    <3>4. Time(q, i - 1) > d /\ Time(q, i - 1) \in Nat  BY <1>3, <1>8, <3>1
    <3>5. ~(Time(q, i - 1) <= d)  BY <3>4
    <3> QED  BY <2>4, <3>2, <3>3, <3>5
  <2> QED  BY <2>3, <2>4
<1>23. Joined(r, q, a, d, at)  BY <1>1, <1>21, <1>22 DEF Joined
<1> QED  BY <1>1, <1>6, <1>15, <1>17, <1>23

-----------------------------------------------------------------------------
(* The invariant.                                                          *)

\* The list q, e ticks of the clock after it was brought up to date, is right about the time l
\* that is really left to each alarm, with a clock set back by s in all.  It is never late by
\* itself: when e is negative, synchronizing takes it for 0.
Right(q, e, l, s) ==
    /\ \A i, j \in 1..Len(q) : q[i].alarm = q[j].alarm => i = j
    /\ \A i \in 1..Len(q) :
         LET real == l[q[i].alarm] IN
         /\ real <= Time(q, i) /\ real <= Time(q, i) - e
         /\ Time(q, i) - e <= s + (IF real > 0 THEN real ELSE 0)
    /\ s = 0 => \A i, j \in 1..Len(q) : i < j => l[q[i].alarm] <= l[q[j].alarm]

\* The invariant: the types, a list that is right, and a sleep that is not too long.
QueueInv ==
    /\ queue \in Seq(Entries) /\ elapsed \in Int /\ sleep \in Int
    /\ left \in [Alarms -> Int] /\ lost \in Nat
    /\ Right(queue, elapsed, left, lost)
    /\ NeverOversleeps

\* synchronize() keeps the list right.
LEMMA SyncRight ==
    ASSUME NEW q \in Seq(Entries), NEW e \in Int, NEW l \in [Alarms -> Int], NEW s \in Nat,
           Right(q, e, l, s)
    PROVE  Right(Synchronize(q, e), 0, l, s)
<1> DEFINE r == Synchronize(q, e)
<1>1. PICK n \in Nat : n = Len(q)  BY LenProperties
<1>2. /\ r \in Seq(Entries) /\ Len(r) = n /\ \A i \in 1..n : r[i].alarm = q[i].alarm
      /\ \A i \in 0..n : Time(r, i) = IF e < 0 THEN Time(q, i) ELSE Minus(Time(q, i), e)
  BY <1>1, SyncFacts
<1> HIDE DEF r
<1>3. \A i, j \in 1..n : r[i].alarm = r[j].alarm => i = j  BY <1>1, <1>2 DEF Right
<1>4. s = 0 => \A i, j \in 1..n : i < j => l[r[i].alarm] <= l[r[j].alarm]
  BY <1>1, <1>2 DEF Right
<1>5. ASSUME NEW i \in 1..n
      PROVE  LET real == l[r[i].alarm] IN
             /\ real <= Time(r, i) /\ real <= Time(r, i) - 0
             /\ Time(r, i) - 0 <= s + (IF real > 0 THEN real ELSE 0)
  <2>1. i \in 0..n /\ q[i].alarm \in Alarms /\ Time(q, i) \in Nat
    <3>1. i \in 0..n  OBVIOUS
    <3> QED  BY <1>1, <3>1, TimeFacts
  <2>2. PICK x \in Int, t \in Nat : x = l[q[i].alarm] /\ t = Time(q, i)  BY <2>1
  <2>3. x <= t /\ x <= t - e /\ t - e <= s + (IF x > 0 THEN x ELSE 0)
    BY <1>1, <2>2 DEF Right
  <2>4. l[r[i].alarm] = x  BY <1>2, <2>2
  <2>5. PICK u \in Int : u = Time(r, i) /\ u = IF e < 0 THEN t ELSE Minus(t, e)
    BY <1>2, <2>1, <2>2 DEF Minus
  <2>6. x <= u /\ x <= u - 0 /\ u - 0 <= s + (IF x > 0 THEN x ELSE 0)
    <3>1. u = IF e < 0 THEN t ELSE IF t > e THEN t - e ELSE 0  BY <2>5 DEF Minus
    <3> QED  BY <2>3, <3>1
  <2> QED  BY <2>4, <2>5, <2>6
<1> QED  BY <1>2, <1>3, <1>4, <1>5 DEF Right, r

\* removeEntry() leaves no entry of that alarm behind.
LEMMA RemoveGone ==
    ASSUME NEW q \in Seq(Entries), NEW e, NEW l, NEW s, NEW a, Right(q, e, l, s)
    PROVE  \A i \in 1..Len(RemoveEntry(q, a)) : RemoveEntry(q, a)[i].alarm # a
<1>1. PICK n \in Nat : n = Len(q)  BY LenProperties
<1>2. CASE Place(q, a) = 0
  <2>1. RemoveEntry(q, a) = q  BY <1>2 DEF RemoveEntry
  <2> QED  BY <1>2, <2>1, PlaceFacts
<1>3. CASE Place(q, a) # 0
  <2> DEFINE r == RemoveEntry(q, a)
             at == Place(q, a)
             from(i) == IF i < at THEN i ELSE i + 1
  <2>1. /\ at \in 1..n /\ q[at].alarm = a /\ Len(r) = n - 1
        /\ \A i \in 1..(n - 1) : r[i].alarm = q[from(i)].alarm
    BY <1>1, <1>3, RemoveFacts
  <2> HIDE DEF r, at
  <2>2. \A i \in 1..(n - 1) : from(i) \in 1..n /\ from(i) # at  BY <2>1
  <2> HIDE DEF from
  <2>3. ASSUME NEW i \in 1..(n - 1)  PROVE r[i].alarm # a
    <3>1. q[from(i)].alarm # q[at].alarm  BY <1>1, <2>1, <2>2 DEF Right
    <3> QED  BY <2>1, <3>1
  <2> QED  BY <2>1, <2>3 DEF r
<1> QED  BY <1>2, <1>3

\* removeEntry() keeps the list right, whatever time the alarm removed has left after that.
LEMMA RemoveRight ==
    ASSUME NEW q \in Seq(Entries), NEW e \in Int, NEW l, NEW k, NEW s, NEW a,
           Right(q, e, l, s), \A b \in Alarms \ {a} : k[b] = l[b]
    PROVE  /\ RemoveEntry(q, a) \in Seq(Entries)
           /\ Right(RemoveEntry(q, a), e, k, s)
<1>1. PICK n \in Nat : n = Len(q)  BY LenProperties
<1>2. \A i \in 1..n : q[i].alarm \in Alarms  BY <1>1, TimeFacts
<1>3. CASE Place(q, a) = 0
  <2>1. RemoveEntry(q, a) = q  BY <1>3 DEF RemoveEntry
  <2>2. \A i \in 1..n : q[i].alarm # a  BY <1>1, <1>3, PlaceFacts
  <2>3. \A i \in 1..n : k[q[i].alarm] = l[q[i].alarm]  BY <1>2, <2>2
  <2>4. Right(q, e, k, s)  BY <1>1, <2>3 DEF Right
  <2> QED  BY <2>1, <2>4
<1>4. CASE Place(q, a) # 0
  <2> DEFINE r == RemoveEntry(q, a)
             at == Place(q, a)
             from(i) == IF i < at THEN i ELSE i + 1
  <2>1. /\ at \in 1..n /\ q[at].alarm = a /\ r \in Seq(Entries) /\ Len(r) = n - 1
        /\ \A i \in 1..(n - 1) : r[i].alarm = q[from(i)].alarm /\ Time(r, i) = Time(q, from(i))
    BY <1>1, <1>4, RemoveFacts
  <2> HIDE DEF r, at
  <2>2. \A i \in 1..(n - 1) : from(i) \in 1..n /\ from(i) # at  BY <2>1
  <2>3. \A i, j \in 1..(n - 1) : (i < j => from(i) < from(j)) /\ (from(i) = from(j) => i = j)
    BY <2>1
  <2> HIDE DEF from
  <2>4. \A i \in 1..(n - 1) : r[i].alarm # a /\ r[i].alarm \in Alarms /\ k[r[i].alarm] = l[q[from(i)].alarm]
    <3> TAKE i \in 1..(n - 1)
    <3>1. q[from(i)].alarm # q[at].alarm  BY <1>1, <2>1, <2>2 DEF Right
    <3> QED  BY <1>2, <2>1, <2>2, <3>1
  <2>5. \A i, j \in 1..(n - 1) : r[i].alarm = r[j].alarm => i = j
    <3> TAKE i, j \in 1..(n - 1)
    <3> HAVE r[i].alarm = r[j].alarm
    <3>1. q[from(i)].alarm = q[from(j)].alarm /\ from(i) \in 1..n /\ from(j) \in 1..n  BY <2>1, <2>2
    <3>2. from(i) = from(j)  BY <1>1, <3>1 DEF Right
    <3> QED  BY <2>3, <3>2
  <2>6. \A i \in 1..(n - 1) :
          LET real == k[r[i].alarm] IN
          /\ real <= Time(r, i) /\ real <= Time(r, i) - e
          /\ Time(r, i) - e <= s + (IF real > 0 THEN real ELSE 0)
    BY <1>1, <2>1, <2>2, <2>4 DEF Right
  <2>7. s = 0 => \A i, j \in 1..(n - 1) : i < j => k[r[i].alarm] <= k[r[j].alarm]
    BY <1>1, <2>1, <2>2, <2>3, <2>4 DEF Right
  <2>8. Right(r, e, k, s)  BY <2>1, <2>5, <2>6, <2>7 DEF Right
  <2> QED  BY <2>1, <2>8 DEF r
<1> QED  BY <1>3, <1>4

\* addEntry() of an alarm that is not in the list keeps a synchronized list right.
LEMMA AddRight ==
    ASSUME NEW q \in Seq(Entries), NEW l \in [Alarms -> Int], NEW s \in Nat,
           NEW a \in Alarms, NEW d \in Nat,
           Right(q, 0, l, s), l[a] = d, \A i \in 1..Len(q) : q[i].alarm # a
    PROVE  AddEntry(q, a, d) \in Seq(Entries) /\ Right(AddEntry(q, a, d), 0, l, s)
<1> DEFINE r == AddEntry(q, a, d)
<1>1. PICK n \in Nat : n = Len(q)  BY LenProperties
<1>2. r \in Seq(Entries) /\ Len(r) = n + 1 /\ \E at \in 1..(n + 1) : Joined(r, q, a, d, at)
  BY <1>1, AddFacts
<1> HIDE DEF r
<1>3. PICK at \in 1..(n + 1) :
        /\ r[at].alarm = a /\ Time(r, at) = d
        /\ \A i \in 1..(n + 1) \ {at} :
             LET j == IF i < at THEN i ELSE i - 1
             IN r[i].alarm = q[j].alarm /\ Time(r, i) = Time(q, j) /\ (i < at <=> Time(q, j) <= d)
  BY <1>1, <1>2 DEF Joined
<1> DEFINE from(i) == IF i < at THEN i ELSE i - 1
<1>4. \A i \in 1..(n + 1) \ {at} :
        r[i].alarm = q[from(i)].alarm /\ Time(r, i) = Time(q, from(i)) /\ (i < at <=> Time(q, from(i)) <= d)
  BY <1>3
<1>5. \A i \in 1..(n + 1) \ {at} : from(i) \in 1..n  OBVIOUS
<1>6. \A i, j \in 1..(n + 1) \ {at} : (i < j => from(i) < from(j)) /\ (from(i) = from(j) => i = j)
  OBVIOUS
<1> HIDE DEF from
<1>7. \A i \in 1..n : q[i].alarm \in Alarms /\ q[i].alarm # a /\ Time(q, i) \in Nat
  <2>1. \A i \in 1..n : i \in 0..n  OBVIOUS
  <2> QED  BY <1>1, <2>1, TimeFacts
<1>8. \A i, j \in 1..(n + 1) : r[i].alarm = r[j].alarm => i = j
  <2>1. \A i, j \in 1..(n + 1) \ {at} : r[i].alarm = r[j].alarm => i = j
    <3> TAKE i, j \in 1..(n + 1) \ {at}
    <3> HAVE r[i].alarm = r[j].alarm
    <3>1. q[from(i)].alarm = q[from(j)].alarm /\ from(i) \in 1..n /\ from(j) \in 1..n
      BY <1>4, <1>5
    <3>2. from(i) = from(j)  BY <1>1, <3>1 DEF Right
    <3> QED  BY <1>6, <3>2
  <2>2. \A i \in 1..(n + 1) \ {at} : r[i].alarm # r[at].alarm
    <3> TAKE i \in 1..(n + 1) \ {at}
    <3>1. r[i].alarm = q[from(i)].alarm /\ q[from(i)].alarm # a  BY <1>4, <1>5, <1>7
    <3>2. r[at].alarm = a  BY <1>3
    <3> QED  BY <3>1, <3>2
  <2> QED  BY <2>1, <2>2
<1>9. ASSUME NEW i \in 1..(n + 1)
      PROVE  LET real == l[r[i].alarm] IN
             /\ real <= Time(r, i) /\ real <= Time(r, i) - 0
             /\ Time(r, i) - 0 <= s + (IF real > 0 THEN real ELSE 0)
  <2>1. CASE i = at
    <3>1. l[r[i].alarm] = d /\ Time(r, i) = d  BY <1>3, <2>1
    <3>2. d <= d /\ d <= d - 0 /\ d - 0 <= s + (IF d > 0 THEN d ELSE 0)  OBVIOUS
    <3> QED  BY <3>1, <3>2
  <2>2. CASE i # at
    <3>1. from(i) \in 1..n /\ r[i].alarm = q[from(i)].alarm /\ Time(r, i) = Time(q, from(i))
      BY <1>4, <1>5, <2>2
    <3> QED  BY <1>1, <3>1 DEF Right
  <2> QED  BY <2>1, <2>2
<1>10. ASSUME s = 0, NEW i \in 1..(n + 1), NEW j \in 1..(n + 1), i < j
       PROVE  l[r[i].alarm] <= l[r[j].alarm]
  <2>1. CASE i = at
    <3>1. j # at /\ ~(j < at)  BY <1>10, <2>1
    <3>2. from(j) \in 1..n /\ r[j].alarm = q[from(j)].alarm /\ ~(Time(q, from(j)) <= d)
      BY <1>4, <1>5, <3>1
    <3>3. PICK x \in Int, t \in Nat : x = l[q[from(j)].alarm] /\ t = Time(q, from(j))  BY <1>7, <3>2
    <3>4. t - 0 <= 0 + (IF x > 0 THEN x ELSE 0) /\ ~(t <= d)  BY <1>1, <1>10, <3>2, <3>3 DEF Right
    <3>5. d <= x  BY <3>4
    <3> QED  BY <1>3, <2>1, <3>2, <3>3, <3>5
  <2>2. CASE j = at
    <3>1. i # at /\ i < at  BY <1>10, <2>2
    <3>2. from(i) \in 1..n /\ r[i].alarm = q[from(i)].alarm /\ Time(q, from(i)) <= d
      BY <1>4, <1>5, <3>1
    <3>3. PICK x \in Int, t \in Nat : x = l[q[from(i)].alarm] /\ t = Time(q, from(i))  BY <1>7, <3>2
    <3>4. x <= t /\ t <= d  BY <1>1, <3>2, <3>3 DEF Right
    <3>5. x <= d  BY <3>4
    <3> QED  BY <1>3, <2>2, <3>2, <3>3, <3>5
  <2>3. CASE i # at /\ j # at
    BY <1>1, <1>4, <1>5, <1>6, <1>10, <2>3 DEF Right
  <2> QED  BY <2>1, <2>2, <2>3
<1> QED  BY <1>2, <1>8, <1>9, <1>10 DEF Right, r

\* The first alarm is due after its own delta.
LEMMA FirstTime ==
    ASSUME NEW q \in Seq(Entries), q # <<>>
    PROVE  1 \in 1..Len(q) /\ q[1].delta \in Nat /\ Time(q, 1) = q[1].delta
<1>1. Len(q) \in Nat /\ Len(q) # 0  BY EmptySeq, LenProperties
<1>2. 1 \in 1..Len(q) /\ 1 - 1 = 0  BY <1>1
<1>3. Time(q, 0) = 0 /\ Time(q, 1) = Time(q, 1 - 1) + q[1].delta /\ q[1].delta \in Nat
  BY <1>2, TimeFacts
<1>4. q[1].delta = 0 + q[1].delta  BY <1>3
<1> QED  BY <1>2, <1>3, <1>4

-----------------------------------------------------------------------------
(* Every action keeps the invariant.                                       *)

\* The empty list is right.
LEMMA InitInv ==
    ASSUME Init
    PROVE  QueueInv
<1>1. queue \in Seq(Entries) /\ Len(queue) = 0  BY EmptySeq DEF Init
<1>2. \A i \in 1..Len(queue) : FALSE  BY <1>1
<1>3. left \in [Alarms -> Int] /\ elapsed \in Int /\ sleep \in Int /\ lost \in Nat  BY DEF Init
<1>4. NeverOversleeps  BY DEF Init, NeverOversleeps
<1> QED  BY <1>1, <1>2, <1>3, <1>4 DEF QueueInv, Right

\* select() is given a time from a list brought up to date, or 0 when an alarm is due.
LEMMA TimeToNextAlarmStep ==
    ASSUME QueueInv, TimeToNextAlarm
    PROVE  QueueInv'
<1>1. left' = left /\ lost' = lost  BY DEF TimeToNextAlarm
<1>2. CASE Due(queue)
  <2>1. queue' = queue /\ elapsed' = elapsed /\ sleep' = 0  BY <1>2 DEF TimeToNextAlarm
  <2>2. Time(queue, 1) \in Nat  BY <1>2, FirstTime DEF Due, QueueInv
  <2>3. Time(queue', 1) - elapsed' \in Int  BY <2>1, <2>2 DEF QueueInv
  <2>4. NeverOversleeps'  BY <2>1, <2>3 DEF NeverOversleeps, DueIn
  <2> QED  BY <1>1, <2>1, <2>4 DEF QueueInv
<1>3. CASE ~Due(queue)
  <2>1. /\ queue' = Synchronize(queue, elapsed) /\ elapsed' = 0
        /\ sleep' = IF queue # <<>> /\ queue'[1].delta < MaxSleep
                      THEN queue'[1].delta ELSE MaxSleep
    BY <1>3 DEF TimeToNextAlarm
  <2>2. queue' \in Seq(Entries) /\ Len(queue') = Len(queue)  BY <2>1, SyncFacts DEF QueueInv
  <2>3. Right(queue', elapsed', left', lost')  BY <1>1, <2>1, SyncRight DEF QueueInv
  <2>4. queue # <<>> <=> queue' # <<>>  BY <2>2, EmptySeq DEF QueueInv
  <2>5. sleep' \in Int
    <3>1. CASE queue # <<>>
      <4>1. queue'[1].delta \in Nat  BY <2>2, <2>4, <3>1, FirstTime
      <4> QED  BY <2>1, <4>1, DelaysAssumption
    <3>2. CASE queue = <<>>
      BY <2>1, <3>2, DelaysAssumption
    <3> QED  BY <3>1, <3>2
  <2>6. NeverOversleeps'
    <3> SUFFICES ASSUME queue' # <<>>
                 PROVE  sleep' <= IF Time(queue', 1) - elapsed' > 0 THEN Time(queue', 1) - elapsed' ELSE 0
      BY DEF NeverOversleeps, DueIn
    <3>1. PICK t \in Nat : t = queue'[1].delta /\ Time(queue', 1) = t  BY <2>2, FirstTime
    <3>2. PICK m \in Nat : m = MaxSleep  BY DelaysAssumption
    <3>3. sleep' = IF t < m THEN t ELSE m  BY <2>1, <2>4, <3>1, <3>2
    <3>4. sleep' <= IF t - 0 > 0 THEN t - 0 ELSE 0  BY <3>3
    <3> QED  BY <2>1, <3>1, <3>4
  <2> QED  BY <1>1, <2>1, <2>2, <2>3, <2>5, <2>6 DEF QueueInv
<1> QED  BY <1>2, <1>3

\* Returning from select() or from a handler changes nothing in the list.
LEMMA SelectStep ==
    ASSUME QueueInv, Select \/ HandlerReturns
    PROVE  QueueInv'
<1>1. /\ queue' = queue /\ elapsed' = elapsed /\ left' = left /\ lost' = lost
      /\ loop' # "select" /\ sleep' \in Int
  BY DEF Select, HandlerReturns, QueueInv
<1>2. NeverOversleeps'  BY <1>1 DEF NeverOversleeps
<1> QED  BY <1>1, <1>2 DEF QueueInv

\* handleAlarm() without an alarm that is due synchronizes the list.
LEMMA NoAlarmStep ==
    ASSUME QueueInv, NoAlarm
    PROVE  QueueInv'
<1>1. queue' = Synchronize(queue, elapsed) /\ elapsed' = 0  BY DEF NoAlarm
<1>2. left' = left /\ lost' = lost /\ sleep' = sleep /\ loop' # "select"  BY DEF NoAlarm
<1>3. queue' \in Seq(Entries)  BY <1>1, SyncFacts DEF QueueInv
<1>4. Right(queue', elapsed', left', lost')  BY <1>1, <1>2, SyncRight DEF QueueInv
<1>5. NeverOversleeps'  BY <1>2 DEF NeverOversleeps
<1> QED  BY <1>1, <1>2, <1>3, <1>4, <1>5 DEF QueueInv

\* handleAlarm() with one removes it from the list, synchronized or not.
LEMMA RingStep ==
    ASSUME QueueInv, NEW a \in Alarms, Ring(a)
    PROVE  QueueInv'
<1> DEFINE q == IF Due(queue) THEN queue ELSE Synchronize(queue, elapsed)
           e == IF Due(queue) THEN elapsed ELSE 0
<1>1. queue' = RemoveEntry(q, a) /\ elapsed' = e  BY DEF Ring
<1>2. /\ left' = [left EXCEPT ![a] = 0] /\ lost' = lost /\ sleep' = sleep
      /\ loop' # "select"
  BY DEF Ring
<1>3. q \in Seq(Entries) /\ e \in Int  BY SyncFacts DEF QueueInv
<1>4. Right(q, e, left, lost)  BY SyncRight DEF QueueInv
<1> HIDE DEF q, e
<1>5. left' \in [Alarms -> Int] /\ \A b \in Alarms \ {a} : left'[b] = left[b]
  BY <1>2 DEF QueueInv
<1>6. queue' \in Seq(Entries) /\ Right(queue', elapsed', left', lost')
  <2>1. Right(RemoveEntry(q, a), e, left', lost) /\ RemoveEntry(q, a) \in Seq(Entries)
    BY <1>3, <1>4, <1>5, RemoveRight
  <2> QED  BY <1>1, <1>2, <2>1
<1>7. NeverOversleeps'  BY <1>2 DEF NeverOversleeps
<1> QED  BY <1>1, <1>2, <1>3, <1>5, <1>6, <1>7 DEF QueueInv

\* unscheduleDelayedTask() removes an entry from a list that need not be up to date.
LEMMA UnscheduleStep ==
    ASSUME QueueInv, NEW a \in Alarms, Unschedule(a)
    PROVE  QueueInv'
<1>1. /\ queue' = RemoveEntry(queue, a) /\ left' = [left EXCEPT ![a] = 0]
      /\ elapsed' = elapsed /\ lost' = lost /\ sleep' = sleep /\ loop' # "select"
  BY DEF Unschedule, Handling
<1>2. left' \in [Alarms -> Int] /\ \A b \in Alarms \ {a} : left'[b] = left[b]
  BY <1>1 DEF QueueInv
<1>3. queue' \in Seq(Entries) /\ Right(queue', elapsed', left', lost')
  BY <1>1, <1>2, RemoveRight DEF QueueInv
<1>4. NeverOversleeps'  BY <1>1 DEF NeverOversleeps
<1> QED  BY <1>1, <1>2, <1>3, <1>4 DEF QueueInv

\* scheduleDelayedTask() removes the alarm, synchronizes, and adds it.
LEMMA ScheduleStep ==
    ASSUME QueueInv, NEW a \in Alarms, NEW d \in Delays, Schedule(a, d)
    PROVE  QueueInv'
<1> DEFINE q == RemoveEntry(queue, a)
           r == Synchronize(q, elapsed)
<1>1. /\ queue' = AddEntry(r, a, d) /\ elapsed' = 0 /\ left' = [left EXCEPT ![a] = d]
      /\ lost' = lost /\ sleep' = sleep /\ loop' # "select"
  BY DEF Schedule, Handling
<1>2. d \in Nat  BY DelaysAssumption
<1>3. left' \in [Alarms -> Int] /\ left'[a] = d /\ \A b \in Alarms \ {a} : left'[b] = left[b]
  BY <1>1, <1>2 DEF QueueInv
<1>4. q \in Seq(Entries) /\ Right(q, elapsed, left', lost) /\ \A i \in 1..Len(q) : q[i].alarm # a
  <2>1. queue \in Seq(Entries) /\ elapsed \in Int /\ Right(queue, elapsed, left, lost)
    BY DEF QueueInv
  <2>2. RemoveEntry(queue, a) \in Seq(Entries) /\ Right(RemoveEntry(queue, a), elapsed, left', lost)
    BY <1>3, <2>1, RemoveRight
  <2>3. \A i \in 1..Len(RemoveEntry(queue, a)) : RemoveEntry(queue, a)[i].alarm # a
    BY <2>1, RemoveGone
  <2> QED  BY <2>2, <2>3
<1> HIDE DEF q
<1>5. /\ r \in Seq(Entries) /\ Right(r, 0, left', lost) /\ Len(r) = Len(q)
      /\ \A i \in 1..Len(q) : r[i].alarm = q[i].alarm
  BY <1>3, <1>4, SyncFacts, SyncRight DEF QueueInv
<1> HIDE DEF r
<1>6. queue' \in Seq(Entries) /\ Right(queue', elapsed', left', lost')
  <2>1. \A i \in 1..Len(r) : r[i].alarm # a  BY <1>4, <1>5
  <2>2. AddEntry(r, a, d) \in Seq(Entries) /\ Right(AddEntry(r, a, d), 0, left', lost)
    BY <1>2, <1>3, <1>5, <2>1, AddRight DEF QueueInv
  <2> QED  BY <1>1, <2>2
<1>7. NeverOversleeps'  BY <1>1 DEF NeverOversleeps
<1> QED  BY <1>1, <1>3, <1>6, <1>7 DEF QueueInv

\* When time passes, real and computed times go down together.
LEMMA TickStep ==
    ASSUME QueueInv, Tick
    PROVE  QueueInv'
<1>1. queue' = queue /\ elapsed' = elapsed + 1 /\ lost' = lost /\ loop' = loop
  BY DEF Tick
<1>2. sleep' = Minus(sleep, 1) /\ left' = [a \in Alarms |-> IF a \in Pending THEN left[a] - 1 ELSE left[a]]
  BY DEF Tick
<1>3. elapsed' \in Int /\ sleep' \in Int /\ left' \in [Alarms -> Int]
  <2>1. sleep' \in Int  BY <1>2 DEF Minus, QueueInv
  <2>2. elapsed' \in Int  BY <1>1 DEF QueueInv
  <2>3. left' \in [Alarms -> Int]  BY <1>2 DEF QueueInv
  <2> QED  BY <2>1, <2>2, <2>3
<1>4. PICK n \in Nat : n = Len(queue)  BY LenProperties DEF QueueInv
<1>5. ASSUME NEW i \in 1..n
      PROVE  /\ queue[i].alarm \in Alarms /\ left[queue[i].alarm] \in Int /\ Time(queue, i) \in Nat
             /\ left'[queue[i].alarm] = left[queue[i].alarm] - 1
  <2>1. i \in 0..n  OBVIOUS
  <2>2. queue[i].alarm \in Alarms /\ Time(queue, i) \in Nat  BY <1>4, <2>1, TimeFacts DEF QueueInv
  <2>3. queue[i].alarm \in Pending  BY <1>4, LenProperties DEF Pending, QueueInv
  <2> QED  BY <1>2, <2>2, <2>3 DEF QueueInv
<1>6. Right(queue, elapsed + 1, left', lost)
  <2>1. \A i, j \in 1..n : queue[i].alarm = queue[j].alarm => i = j  BY <1>4 DEF QueueInv, Right
  <2>2. ASSUME NEW i \in 1..n
        PROVE  LET real == left'[queue[i].alarm] IN
               /\ real <= Time(queue, i) /\ real <= Time(queue, i) - (elapsed + 1)
               /\ Time(queue, i) - (elapsed + 1) <= lost + (IF real > 0 THEN real ELSE 0)
    <3>1. PICK x \in Int, t \in Nat, e \in Int, s \in Nat :
            x = left[queue[i].alarm] /\ t = Time(queue, i) /\ e = elapsed /\ s = lost
      BY <1>5 DEF QueueInv
    <3>2. x <= t /\ x <= t - e /\ t - e <= s + (IF x > 0 THEN x ELSE 0)
      BY <1>4, <3>1 DEF QueueInv, Right
    <3>3. /\ x - 1 <= t /\ x - 1 <= t - (e + 1)
          /\ t - (e + 1) <= s + (IF x - 1 > 0 THEN x - 1 ELSE 0)
      BY <3>2
    <3>4. left'[queue[i].alarm] = x - 1  BY <1>5, <3>1
    <3> QED  BY <3>1, <3>3, <3>4
  <2>3. ASSUME lost = 0, NEW i \in 1..n, NEW j \in 1..n, i < j
        PROVE  left'[queue[i].alarm] <= left'[queue[j].alarm]
    <3>1. PICK x \in Int, y \in Int : x = left[queue[i].alarm] /\ y = left[queue[j].alarm]  BY <1>5
    <3>2. x <= y  BY <1>4, <2>3, <3>1 DEF QueueInv, Right
    <3>3. x - 1 <= y - 1  BY <3>2
    <3> QED  BY <1>5, <3>1, <3>3
  <2> QED  BY <1>4, <2>1, <2>2, <2>3 DEF Right
<1>7. NeverOversleeps'
  <2> SUFFICES ASSUME loop' = "select", queue' # <<>>
               PROVE  sleep' <= IF Time(queue', 1) - elapsed' > 0 THEN Time(queue', 1) - elapsed' ELSE 0
    BY DEF NeverOversleeps, DueIn
  <2>1. PICK t \in Nat, e \in Int, z \in Int : t = Time(queue, 1) /\ e = elapsed /\ z = sleep
    BY <1>1, FirstTime DEF QueueInv
  <2>2. z <= IF t - e > 0 THEN t - e ELSE 0  BY <1>1, <2>1 DEF QueueInv, NeverOversleeps, DueIn
  <2>3. sleep' = IF z > 1 THEN z - 1 ELSE 0  BY <1>2, <2>1 DEF Minus
  <2>4. sleep' <= IF t - (e + 1) > 0 THEN t - (e + 1) ELSE 0  BY <2>2, <2>3
  <2> QED  BY <1>1, <2>1, <2>4
<1>8. Right(queue', elapsed', left', lost')  BY <1>1, <1>6
<1> QED  BY <1>1, <1>3, <1>7, <1>8 DEF QueueInv

\* When the clock is set back, what the list adds to the times is added to lost too.
LEMMA SetBackStep ==
    ASSUME QueueInv, NEW n \in 1..MaxLost, SetBack(n)
    PROVE  QueueInv'
<1>1. /\ queue' = queue /\ elapsed' = elapsed - n /\ lost' = lost + n /\ loop' = loop
      /\ sleep' = sleep /\ left' = left
  BY DEF SetBack
<1>2. n \in Nat /\ n >= 1  BY DelaysAssumption
<1>3. elapsed' \in Int /\ lost' \in Nat /\ lost' # 0  BY <1>1, <1>2 DEF QueueInv
<1>4. PICK m \in Nat : m = Len(queue)  BY LenProperties DEF QueueInv
<1>5. Right(queue, elapsed - n, left, lost + n)
  <2>1. \A i, j \in 1..m : queue[i].alarm = queue[j].alarm => i = j  BY <1>4 DEF QueueInv, Right
  <2>2. ASSUME NEW i \in 1..m
        PROVE  LET real == left[queue[i].alarm] IN
               /\ real <= Time(queue, i) /\ real <= Time(queue, i) - (elapsed - n)
               /\ Time(queue, i) - (elapsed - n) <= lost + n + (IF real > 0 THEN real ELSE 0)
    <3>1. i \in 0..m  OBVIOUS
    <3>2. queue[i].alarm \in Alarms /\ Time(queue, i) \in Nat  BY <1>4, <3>1, TimeFacts DEF QueueInv
    <3>3. PICK x \in Int, t \in Nat, e \in Int, s \in Nat :
            x = left[queue[i].alarm] /\ t = Time(queue, i) /\ e = elapsed /\ s = lost
      BY <3>2 DEF QueueInv
    <3>4. x <= t /\ x <= t - e /\ t - e <= s + (IF x > 0 THEN x ELSE 0)
      BY <1>4, <3>3 DEF QueueInv, Right
    <3>5. x <= t /\ x <= t - (e - n) /\ t - (e - n) <= s + n + (IF x > 0 THEN x ELSE 0)
      BY <1>2, <3>4
    <3> QED  BY <3>3, <3>5
  <2>3. lost + n # 0  BY <1>1, <1>3
  <2> QED  BY <1>4, <2>1, <2>2, <2>3 DEF Right
<1>6. NeverOversleeps'
  <2> SUFFICES ASSUME loop' = "select", queue' # <<>>
               PROVE  sleep' <= IF Time(queue', 1) - elapsed' > 0 THEN Time(queue', 1) - elapsed' ELSE 0
    BY DEF NeverOversleeps, DueIn
  <2>1. PICK t \in Nat, e \in Int, z \in Int : t = Time(queue, 1) /\ e = elapsed /\ z = sleep
    BY <1>1, FirstTime DEF QueueInv
  <2>2. z <= IF t - e > 0 THEN t - e ELSE 0  BY <1>1, <2>1 DEF QueueInv, NeverOversleeps, DueIn
  <2>3. z <= IF t - (e - n) > 0 THEN t - (e - n) ELSE 0  BY <1>2, <2>2
  <2> QED  BY <1>1, <2>1, <2>3
<1>7. Right(queue', elapsed', left', lost')  BY <1>1, <1>5
<1> QED  BY <1>1, <1>3, <1>6, <1>7 DEF QueueInv

\* Every step keeps the invariant.
LEMMA QueueStep ==
    ASSUME QueueInv, [Next]_vars
    PROVE  QueueInv'
<1>1. ASSUME NEW a \in Alarms, Ring(a) \/ Unschedule(a) \/ \E d \in Delays : Schedule(a, d)
      PROVE  QueueInv'
  BY <1>1, RingStep, UnscheduleStep, ScheduleStep
<1>2. CASE TimeToNextAlarm
  BY <1>2, TimeToNextAlarmStep
<1>3. CASE Select \/ HandlerReturns
  BY <1>3, SelectStep
<1>4. CASE NoAlarm
  BY <1>4, NoAlarmStep
<1>5. CASE Tick
  BY <1>5, TickStep
<1>6. CASE \E n \in 1..MaxLost : SetBack(n)
  BY <1>6, SetBackStep
<1>7. CASE UNCHANGED vars
  BY <1>7 DEF vars, QueueInv, NeverOversleeps, DueIn
<1> QED  BY <1>1, <1>2, <1>3, <1>4, <1>5, <1>6, <1>7 DEF Next

\* The invariant holds.
THEOREM QueueInvariant == Spec => []QueueInv
<1>1. Init => QueueInv  BY InitInv
<1>2. QueueInv /\ [Next]_vars => QueueInv'  BY QueueStep
<1> QED  BY <1>1, <1>2, PTL DEF Spec

-----------------------------------------------------------------------------
(* What follows.                                                           *)

\* The deltas give the time each alarm is due: never too early, and late by no more than
\* the clock was set back.
THEOREM DueTimes == Spec => []DueTimesKept
<1>1. ASSUME QueueInv  PROVE DueTimesKept
  <2>1. DOMAIN queue = 1..Len(queue)  BY <1>1, LenProperties DEF QueueInv
  <2>2. ASSUME NEW i \in 1..Len(queue)
        PROVE  LET real == left[queue[i].alarm] IN
               real <= DueIn(i) /\ DueIn(i) <= lost + (IF real > 0 THEN real ELSE 0)
    BY <1>1 DEF QueueInv, Right, DueIn
  <2> QED  BY <2>1, <2>2 DEF DueTimesKept
<1> QED  BY <1>1, QueueInvariant, PTL

\* select() does not sleep through an alarm.
THEOREM SleepsInTime == Spec => []NeverOversleeps
<1>1. QueueInv => NeverOversleeps  BY DEF QueueInv
<1> QED  BY <1>1, QueueInvariant, PTL

\* Alarms ring neither before their time nor, unless the clock is set back, out of turn.
THEOREM InTurn == Spec => RingsInTurn
<1>1. ASSUME QueueInv, NEW a \in Alarms, Ring(a)
      PROVE  left[a] <= 0 /\ (lost = 0 => \A b \in Pending : left[a] <= left[b])
  <2>1. PICK n \in Nat : n = Len(queue)  BY <1>1, LenProperties DEF QueueInv
  <2>2. PICK q \in Seq(Entries), e \in Int :
          /\ Right(q, e, left, lost) /\ Due(q) /\ q[1].alarm = a /\ Len(q) = n
          /\ \A i \in 1..n : q[i].alarm = queue[i].alarm
    <3>1. CASE Due(queue)
      BY <1>1, <2>1, <3>1 DEF Ring, QueueInv
    <3>2. CASE ~Due(queue)
      <4> DEFINE r == Synchronize(queue, elapsed)
      <4>1. Due(r) /\ r[1].alarm = a  BY <1>1, <3>2 DEF Ring
      <4>2. r \in Seq(Entries) /\ Len(r) = n /\ \A i \in 1..n : r[i].alarm = queue[i].alarm
        BY <1>1, <2>1, SyncFacts DEF QueueInv
      <4>3. Right(r, 0, left, lost)  BY <1>1, SyncRight DEF QueueInv
      <4> HIDE DEF r
      <4> QED  BY <4>1, <4>2, <4>3
    <3> QED  BY <3>1, <3>2
  <2>3. 1 \in 1..n /\ Time(q, 1) = 0  BY <2>2, FirstTime DEF Due
  <2>4. left[a] <= 0  BY <2>2, <2>3 DEF Right
  <2>5. ASSUME lost = 0, NEW b \in Pending  PROVE left[a] <= left[b]
    <3>1. PICK j \in 1..n : b = queue[j].alarm  BY <1>1, <2>1, LenProperties DEF Pending, QueueInv
    <3>2. CASE j = 1
      <4>1. b = a  BY <2>2, <3>1, <3>2
      <4> QED  BY <1>1, <4>1 DEF QueueInv
    <3>3. CASE j # 1
      <4>1. 1 < j  BY <3>3
      <4> QED  BY <2>2, <2>3, <2>5, <3>1, <4>1 DEF Right
    <3> QED  BY <3>2, <3>3
  <2> QED  BY <2>4, <2>5
<1>2. QueueInv /\ [Next]_vars => [\A a \in Alarms : Ring(a) =>
                                     /\ left[a] <= 0
                                     /\ lost = 0 => \A b \in Pending : left[a] <= left[b]]_vars
  BY <1>1
<1> QED  BY <1>2, QueueInvariant, PTL DEF Spec, RingsInTurn
=============================================================================
