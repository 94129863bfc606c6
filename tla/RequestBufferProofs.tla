------------------------- MODULE RequestBufferProofs -------------------------
(***************************************************************************)
(* Proofs about RequestBuffer, for all requests, in any number, of any     *)
(* length and with any body, in a buffer of any size: in whatever pieces   *)
(* they arrive, each is handled once, in order and as it was sent; and the *)
(* buffer's counters and contents agree.                                   *)
(*                                                                         *)
(* The argument is about where things are: where each request begins in    *)
(* the stream of bytes (SumFacts), which line break the search has found   *)
(* last (Marks), and that a search from there on finds the end of the      *)
(* header that a search of the whole request would (SearchFinds).          *)
(***************************************************************************)
EXTENDS RequestBuffer, SumFacts, FiniteSetTheorems, SequenceTheorems, TLAPS

\* What a byte of the model is: a symbol, and the request it was sent in.
Byte == Symbols \X Nat

-----------------------------------------------------------------------------
(* The stream of bytes.                                                    *)

\* A sequence of requests, one of them at least.
Script(s) == s \in Seq(Shapes) /\ Len(s) > 0

\* Where the requests begin and end: BytesOf() is the sum of their lengths.
LEMMA BytesSums ==
    ASSUME NEW n \in Nat, NEW d, \A i \in 1..n : d[i] = Len(script[i]) /\ d[i] \in Int
    PROVE  \E f : Sums(d, n, f) /\ BytesOf(n) = f[n]
<1> DEFINE Body(f) == [k \in 0..n |-> IF k = 0 THEN 0 ELSE f[k - 1] + Len(script[k])]
           f == CHOOSE f : f = Body(f)
<1>1. \A g : [k \in 0..n |-> IF k = 0 THEN 0 ELSE g[k - 1] + d[k]] = Body(g)
  OBVIOUS
<1>2. f = Body(f)
  <2>1. PICK g : Sums(d, n, g)  BY SumsExist
  <2>2. g = Body(g)  BY <1>1, <2>1 DEF Sums
  <2> QED  BY <2>2
<1>3. Sums(d, n, f)  BY <1>1, <1>2 DEF Sums
<1>4. BytesOf(n) = f[n]  BY DEF BytesOf
<1> QED  BY <1>3, <1>4

\* T is where each of the first n requests ends.
Ends(T, n) ==
    /\ T[0] = 0 /\ \A k \in 1..n : T[k] = T[k - 1] + Len(script[k])
    /\ \A m \in 0..n : BytesOf(m) = T[m]

\* There is such a function.
LEMMA EndsExist ==
    ASSUME NEW n \in Nat, \A i \in 1..n : Len(script[i]) \in Nat
    PROVE  \E T \in [0..n -> Int] : Ends(T, n)
<1> DEFINE d == [i \in 1..n |-> Len(script[i])]
<1>1. \A i \in 1..n : d[i] = Len(script[i]) /\ d[i] \in Int  OBVIOUS
<1> HIDE DEF d
<1>2. PICK T \in [0..n -> Int] : Sums(d, n, T)  BY <1>1, SumsExist
<1>3. T[0] = 0  BY <1>2, SumsStep
<1>4. \A k \in 1..n : T[k] = T[k - 1] + d[k]  BY <1>2, SumsStep
<1>5. ASSUME NEW m \in 0..n  PROVE BytesOf(m) = T[m]
  <2>1. m \in Nat /\ \A i \in 1..m : i \in 1..n  OBVIOUS
  <2>2. \A i \in 1..m : d[i] = Len(script[i]) /\ d[i] \in Int  BY <1>1, <2>1
  <2>3. PICK f : Sums(d, m, f) /\ BytesOf(m) = f[m]  BY <2>1, <2>2, BytesSums
  <2>4. \A i \in 1..n : d[i] \in Int  BY <1>1
  <2>5. f[m] = T[m]  BY <1>3, <1>4, <2>3, <2>4, SumsAgree
  <2> QED  BY <2>3, <2>5
<1>6. \A k \in 1..n : T[k] = T[k - 1] + Len(script[k])  BY <1>1, <1>4
<1> QED  BY <1>3, <1>5, <1>6 DEF Ends

\* Each request begins where the one before it ends.
LEMMA BytesFacts ==
    ASSUME Script(script)
    PROVE  /\ BytesOf(0) = 0
           /\ \A i \in 0..Len(script) : BytesOf(i) \in Nat
           /\ \A i \in 1..Len(script) :
                BytesOf(i) = BytesOf(i - 1) + Len(script[i]) /\ Len(script[i]) \in Nat
           /\ \A i, j \in 0..Len(script) : i <= j => BytesOf(i) <= BytesOf(j)
<1>1. PICK n \in Nat : n = Len(script)  BY LenProperties DEF Script
<1>2. \A i \in 1..n : Len(script[i]) \in Nat
  <2>1. \A i \in 1..n : script[i] \in Shapes  BY <1>1, ElementOfSeq DEF Script
  <2>2. \A shape \in Shapes : Len(shape) \in Nat  BY ShapesAssumption, LenProperties
  <2> QED  BY <2>1, <2>2
<1>3. PICK T \in [0..n -> Int] : Ends(T, n)  BY <1>2, EndsExist
<1>4. (\A k \in 0..n : T[k] \in Nat) /\ \A i, j \in 0..n : i <= j => T[i] <= T[j]
  <2> DEFINE d == [i \in 1..n |-> Len(script[i])]
  <2>1. \A i \in 1..n : d[i] \in Nat  BY <1>2
  <2>2. \A k \in 1..n : T[k] = T[k - 1] + d[k]  BY <1>3 DEF Ends
  <2>3. T[0] = 0  BY <1>3 DEF Ends
  <2> HIDE DEF d
  <2> QED  BY <2>1, <2>2, <2>3, SumsGrow
<1>5. \A i \in 1..n : i \in 0..n /\ i - 1 \in 0..n  OBVIOUS
<1>6. 0 \in 0..n  OBVIOUS
<1> QED  BY <1>1, <1>2, <1>3, <1>4, <1>5, <1>6 DEF Ends

\* f joins the first i sequences of q.
Joins(q, n, f) == f = [i \in 1..n |-> IF i = 1 THEN q[i] ELSE f[i - 1] \o q[i]]

\* There is such a function.
LEMMA JoinsExist ==
    ASSUME NEW q, NEW n \in Nat
    PROVE  \E f : Joins(q, n, f)
<1> DEFINE Bad == {m \in 0..n : ~\E f : Joins(q, m, f)}
<1> SUFFICES Bad = {}
  OBVIOUS
<1> SUFFICES ASSUME Bad # {}  PROVE FALSE
  OBVIOUS
<1>1. PICK m \in Bad : \A y \in Bad : m <= y
  <2>1. Bad \in SUBSET Nat  OBVIOUS
  <2> HIDE DEF Bad
  <2> QED  BY <2>1, LeastNumber
<1>2. m # 0
  <2> DEFINE e == [i \in 1..0 |-> 0]
  <2>1. e = [i \in 1..0 |-> IF i = 1 THEN q[i] ELSE e[i - 1] \o q[i]]  OBVIOUS
  <2>2. Joins(q, 0, e)  BY <2>1 DEF Joins
  <2> QED  BY <2>2
<1>3. m - 1 \in 0..n /\ m - 1 \notin Bad  BY <1>1, <1>2
<1>4. PICK f : Joins(q, m - 1, f)  BY <1>3
<1> DEFINE g == [i \in 1..m |-> IF i = m THEN IF m = 1 THEN q[1] ELSE f[m - 1] \o q[m] ELSE f[i]]
<1>5. \A i \in 1..(m - 1) : f[i] = IF i = 1 THEN q[i] ELSE f[i - 1] \o q[i]
  <2> DEFINE h == [i \in 1..(m - 1) |-> IF i = 1 THEN q[i] ELSE f[i - 1] \o q[i]]
  <2>1. f = h  BY <1>4 DEF Joins
  <2>2. \A i \in 1..(m - 1) : h[i] = IF i = 1 THEN q[i] ELSE f[i - 1] \o q[i]  OBVIOUS
  <2> HIDE DEF h
  <2> QED  BY <2>1, <2>2
<1>6. ASSUME NEW i \in 1..m  PROVE g[i] = IF i = 1 THEN q[i] ELSE g[i - 1] \o q[i]
  <2>1. CASE i = m
    <3>1. g[i] = IF m = 1 THEN q[1] ELSE f[m - 1] \o q[m]  BY <2>1
    <3>2. m # 1 => g[m - 1] = f[m - 1]  BY <1>2
    <3> QED  BY <2>1, <3>1, <3>2
  <2>2. CASE i # m
    <3>1. i \in 1..(m - 1)  BY <2>2
    <3>2. i # 1 => i - 1 \in 1..m /\ i - 1 # m  BY <3>1
    <3>3. g[i] = f[i] /\ (i # 1 => g[i - 1] = f[i - 1])  BY <2>2, <3>2
    <3> HIDE DEF g
    <3> QED  BY <1>5, <3>1, <3>3
  <2> QED  BY <2>1, <2>2
<1>7. Joins(q, m, g)
  <2>1. g = [i \in 1..m |-> g[i]]  OBVIOUS
  <2> HIDE DEF g
  <2> QED  BY <1>6, <2>1 DEF Joins
<1>8. ~\E h : Joins(q, m, h)  BY <1>1
<1> QED  BY <1>7, <1>8

\* r is the sequences of q one after the other; the i-th ends at place T[i].
Joined(r, q, n, T) ==
    /\ Len(r) = T[n]
    /\ \A i \in 1..n : \A k \in 1..Len(q[i]) : r[T[i - 1] + k] = q[i][k]

\* One after the other, sequences keep their elements and their order.
LEMMA FlattenFacts ==
    ASSUME NEW S, NEW n \in Nat \ {0}, NEW q \in Seq(Seq(S)), Len(q) = n,
           NEW T \in [0..n -> Int], T[0] = 0, \A k \in 1..n : T[k] = T[k - 1] + Len(q[k])
    PROVE  FlattenSeq(q) \in Seq(S) /\ Joined(FlattenSeq(q), q, n, T)
<1> DEFINE f == CHOOSE f : Joins(q, n, f)
<1>1. Joins(q, n, f)  BY JoinsExist
<1>2. FlattenSeq(q) = f[n]  BY DEF FlattenSeq, Joins
<1> HIDE DEF f
<1>3. \A i \in 1..n : f[i] = IF i = 1 THEN q[i] ELSE f[i - 1] \o q[i]
  <2> DEFINE h == [i \in 1..n |-> IF i = 1 THEN q[i] ELSE f[i - 1] \o q[i]]
  <2>1. f = h  BY <1>1 DEF Joins
  <2>2. \A i \in 1..n : h[i] = IF i = 1 THEN q[i] ELSE f[i - 1] \o q[i]  OBVIOUS
  <2> HIDE DEF h
  <2> QED  BY <2>1, <2>2
<1>4. \A i \in 1..n : q[i] \in Seq(S) /\ Len(q[i]) \in Nat  BY ElementOfSeq, LenProperties
<1>5. (\A k \in 0..n : T[k] \in Nat) /\ \A i, j \in 0..n : i <= j => T[i] <= T[j]
  <2> DEFINE d == [i \in 1..n |-> Len(q[i])]
  <2>1. \A i \in 1..n : d[i] \in Nat  BY <1>4
  <2>2. \A k \in 1..n : T[k] = T[k - 1] + d[k]  OBVIOUS
  <2> HIDE DEF d
  <2>3. n \in Nat  OBVIOUS
  <2> QED  BY <2>1, <2>2, <2>3, SumsGrow
<1> DEFINE Good(m) == /\ f[m] \in Seq(S) /\ Len(f[m]) = T[m]
                      /\ \A i \in 1..m : \A k \in 1..Len(q[i]) : f[m][T[i - 1] + k] = q[i][k]
<1>6. ASSUME NEW m \in 1..n, \A y \in 1..n : y < m => Good(y)
      PROVE  Good(m)
  <2> HIDE DEF Good
  <2>1. CASE m = 1
    <3>1. f[1] = q[1] /\ 1 \in 1..n /\ 1 - 1 = 0  BY <1>3, <2>1
    <3>2. T[1] = 0 + Len(q[1]) /\ Len(q[1]) \in Nat /\ q[1] \in Seq(S)  BY <1>4, <3>1
    <3>3. \A k \in 1..Len(q[1]) : f[1][T[0] + k] = q[1][k]
      <4>1. \A k \in 1..Len(q[1]) : 0 + k = k  BY <3>2
      <4> QED  BY <3>1, <4>1
    <3>4. \A i \in 1..1 : i = 1  OBVIOUS
    <3> QED  BY <2>1, <3>1, <3>2, <3>3, <3>4 DEF Good
  <2>2. CASE m # 1
    <3>1. PICK p \in 1..n : p = m - 1  BY <2>2
    <3>2. p \in 0..n /\ m \in 0..n /\ p + 1 = m /\ p < m  BY <3>1
    <3>3. Good(p)  BY <1>6, <3>2
    <3>4. f[m] = f[p] \o q[m] /\ T[m] = T[p] + Len(q[m])  BY <1>3, <2>2, <3>1
    <3>5. PICK u \in Nat, v \in Nat : u = T[p] /\ v = Len(q[m])  BY <1>4, <1>5, <3>2
    <3>6. PICK s1 \in Seq(S), s2 \in Seq(S) :
             s1 = f[p] /\ s2 = q[m] /\ Len(s1) = u /\ Len(s2) = v /\ f[m] = s1 \o s2
      BY <1>4, <3>3, <3>4, <3>5 DEF Good
    <3>7. /\ s1 \o s2 \in Seq(S) /\ Len(s1 \o s2) = Len(s1) + Len(s2)
          /\ \A x \in 1..(Len(s1) + Len(s2)) :
               (s1 \o s2)[x] = IF x <= Len(s1) THEN s1[x] ELSE s2[x - Len(s1)]
      BY ConcatProperties
    <3>8. /\ f[m] \in Seq(S) /\ Len(f[m]) = u + v
          /\ \A x \in 1..(u + v) : f[m][x] = IF x <= u THEN f[p][x] ELSE q[m][x - u]
      BY <3>6, <3>7
    <3>9. ASSUME NEW i \in 1..m, NEW k \in 1..Len(q[i])  PROVE f[m][T[i - 1] + k] = q[i][k]
      <4>1. CASE i = m
        <5>1. T[i - 1] = u /\ k \in 1..v  BY <3>1, <3>5, <4>1
        <5>2. PICK x \in Nat : x = u + k  BY <5>1
        <5>3. x \in 1..(u + v) /\ ~(x <= u) /\ x - u = k  BY <5>1, <5>2
        <5>4. f[m][x] = q[m][k]  BY <3>8, <5>3
        <5> QED  BY <4>1, <5>1, <5>2, <5>4
      <4>2. CASE i # m
        <5>1. i \in 1..p /\ i \in 1..n /\ i - 1 \in 0..n /\ i \in 0..n /\ i <= p  BY <3>1, <4>2
        <5>2. PICK x \in Nat, y \in Nat : x = T[i - 1] /\ y = Len(q[i])  BY <1>4, <1>5, <5>1
        <5>3. T[i] = x + y /\ T[i] <= T[p]  BY <1>5, <3>2, <5>1, <5>2
        <5>4. x + y <= u /\ k \in 1..y  BY <3>5, <5>2, <5>3
        <5>5. x + k \in 1..(u + v) /\ x + k <= u  BY <5>4
        <5>6. f[p][x + k] = q[i][k]  BY <3>3, <5>1, <5>2 DEF Good
        <5> QED  BY <3>8, <5>2, <5>5, <5>6
      <4> QED  BY <4>1, <4>2
    <3> QED  BY <3>4, <3>5, <3>8, <3>9 DEF Good
  <2> QED  BY <2>1, <2>2
<1> HIDE DEF Good
<1> DEFINE Bad == {m \in 1..n : ~Good(m)}
<1>7. Bad = {}
  <2> SUFFICES ASSUME Bad # {}  PROVE FALSE
    OBVIOUS
  <2>1. PICK m \in Bad : \A y \in Bad : m <= y
    <3>1. Bad \in SUBSET Nat  OBVIOUS
    <3> HIDE DEF Bad
    <3> QED  BY <3>1, LeastNumber
  <2>2. \A y \in 1..n : y < m => Good(y)  BY <2>1
  <2> QED  BY <1>6, <2>1, <2>2
<1>8. Good(n)
  <2>1. n \in 1..n  OBVIOUS
  <2> QED  BY <1>7, <2>1
<1> QED  BY <1>2, <1>8 DEF Good, Joined

\* The bytes of a request as it is sent.
LEMMA SentFacts ==
    ASSUME Script(script), NEW i \in 1..Len(script)
    PROVE  /\ script[i] \in Shapes /\ Len(script[i]) \in Nat
           /\ Sent(i) \in Seq(Byte) /\ Len(Sent(i)) = Len(script[i])
           /\ \A k \in 1..Len(script[i]) : Sent(i)[k] = <<script[i][k], i>>
<1>1. i \in Nat /\ script[i] \in Shapes  BY ElementOfSeq, LenProperties DEF Script
<1>2. PICK n \in Nat : n = Len(script[i]) /\ script[i] \in Seq(Symbols) /\ DOMAIN script[i] = 1..n
  BY <1>1, ShapesAssumption, LenProperties
<1> DEFINE s == [k \in 1..n |-> <<script[i][k], i>>]
<1>3. Sent(i) = s  BY <1>2 DEF Sent
<1>4. \A k \in 1..n : script[i][k] \in Symbols  BY <1>2, ElementOfSeq
<1>5. s \in [1..n -> Byte] /\ \A k \in 1..n : s[k] = <<script[i][k], i>>  BY <1>1, <1>4 DEF Byte
<1>6. DOMAIN s = 1..n  OBVIOUS
<1> HIDE DEF s
<1>7. s \in Seq(Byte)  BY <1>5, SeqDef
<1>8. Len(s) = n  BY <1>6, <1>7, LenProperties
<1> QED  BY <1>1, <1>2, <1>3, <1>5, <1>7, <1>8

\* Where each byte of each request is in the stream.
LEMMA StreamFacts ==
    ASSUME Script(script), stream = FlattenSeq([i \in DOMAIN script |-> Sent(i)])
    PROVE  /\ stream \in Seq(Byte) /\ Len(stream) = BytesOf(Len(script))
           /\ \A i \in 1..Len(script) : \A k \in 1..Len(script[i]) :
                stream[BytesOf(i - 1) + k] = <<script[i][k], i>>
<1>1. PICK n \in Nat \ {0} : n = Len(script) /\ DOMAIN script = 1..n  BY LenProperties DEF Script
<1> DEFINE q == [i \in 1..n |-> Sent(i)]
<1>2. stream = FlattenSeq(q)  BY <1>1
<1>3. \A i \in 1..n : /\ Sent(i) \in Seq(Byte) /\ Len(Sent(i)) = Len(script[i])
                      /\ Len(script[i]) \in Nat
                      /\ \A k \in 1..Len(script[i]) : Sent(i)[k] = <<script[i][k], i>>
  BY <1>1, SentFacts
<1>4. q \in Seq(Seq(Byte)) /\ Len(q) = n /\ \A i \in 1..n : q[i] = Sent(i)
  <2>1. q \in [1..n -> Seq(Byte)] /\ DOMAIN q = 1..n /\ \A i \in 1..n : q[i] = Sent(i)  BY <1>3
  <2> HIDE DEF q
  <2>2. q \in Seq(Seq(Byte))  BY <2>1, SeqDef
  <2>3. Len(q) = n  BY <2>1, <2>2, LenProperties
  <2> QED  BY <2>1, <2>2, <2>3
<1> HIDE DEF q
<1>5. PICK T \in [0..n -> Int] : Ends(T, n)  BY <1>3, EndsExist
<1>6. FlattenSeq(q) \in Seq(Byte) /\ Joined(FlattenSeq(q), q, n, T)
  <2>1. T[0] = 0 /\ \A k \in 1..n : T[k] = T[k - 1] + Len(q[k])  BY <1>3, <1>4, <1>5 DEF Ends
  <2>2. T[0] = 0  BY <2>1
  <2>3. \A k \in 1..n : T[k] = T[k - 1] + Len(q[k])  BY <2>1
  <2>4. q \in Seq(Seq(Byte)) /\ Len(q) = n  BY <1>4
  <2> QED  BY <2>2, <2>3, <2>4, FlattenFacts
<1>7. BytesOf(n) = T[n] /\ \A i \in 1..n : BytesOf(i - 1) = T[i - 1]
  <2>1. n \in 0..n /\ \A i \in 1..n : i - 1 \in 0..n  OBVIOUS
  <2> QED  BY <1>5, <2>1 DEF Ends
<1>8. ASSUME NEW i \in 1..n, NEW k \in 1..Len(script[i])
      PROVE  stream[BytesOf(i - 1) + k] = <<script[i][k], i>>
  <2>1. Len(q[i]) = Len(script[i]) /\ q[i][k] = <<script[i][k], i>>  BY <1>3, <1>4
  <2>2. FlattenSeq(q)[T[i - 1] + k] = q[i][k]  BY <1>6, <2>1 DEF Joined
  <2> QED  BY <1>2, <1>7, <2>1, <2>2
<1> QED  BY <1>1, <1>2, <1>6, <1>7, <1>8 DEF Joined

-----------------------------------------------------------------------------
(* The search.                                                             *)

\* x is the last line break of the header within the first n bytes, if there is one.
Marks(shape, end, n, x) ==
    /\ x = NoCRLF \/ (x \in Breaks(shape) /\ x < end /\ x < n)
    /\ \A k \in Breaks(shape) : k < end /\ k < n => k <= x

\* Every request has a header.
LEMMA HeaderExists ==
    ASSUME NEW shape \in Shapes
    PROVE  \E end \in Nat : Header(shape, end)
<1>1. PICK end \in Blanks(shape) : Header(shape, end)  BY ShapesAssumption
<1>2. end \in Nat  BY DEF Blanks, Breaks
<1> QED  BY <1>1, <1>2

\* What the end of a header looks like.
LEMMA HeaderFacts ==
    ASSUME NEW shape \in Shapes, NEW end \in Nat, Header(shape, end)
    PROVE  /\ Len(shape) \in Nat /\ end + 1 <= Len(shape)
           /\ end \in Breaks(shape) /\ end - 2 \in Breaks(shape) /\ end - 2 >= 1
           /\ \A k \in Breaks(shape) : k \in 1..(Len(shape) - 1) /\ shape[k] = "cr" /\ shape[k + 1] = "lf"
           /\ \A k \in Breaks(shape) : k + 1 \notin Breaks(shape)
<1>1. Len(shape) \in Nat  BY ShapesAssumption, LenProperties
<1>2. \A k \in Breaks(shape) : k \in 1..(Len(shape) - 1) /\ shape[k] = "cr" /\ shape[k + 1] = "lf"
  BY DEF Breaks
<1>3. end \in Breaks(shape) /\ end - 2 \in Breaks(shape)  BY DEF Header, Blanks
<1>4. "cr" # "lf"  OBVIOUS
<1>5. \A k \in Breaks(shape) : k + 1 \notin Breaks(shape)  BY <1>2, <1>4
<1>6. end + 1 <= Len(shape) /\ end - 2 >= 1  BY <1>1, <1>2, <1>3
<1> QED  BY <1>1, <1>2, <1>3, <1>5, <1>6

\* Max() of a set with a greatest element.
LEMMA MaxIs ==
    ASSUME NEW T \in SUBSET Int, NEW x \in T, \A y \in T : x >= y
    PROVE  Max(T) = x
<1>1. PICK m \in Int : m = Max(T) /\ m \in T /\ \A y \in T : m >= y  BY DEF Max
<1>2. m >= x /\ x >= m /\ x \in Int  BY <1>1
<1> QED  BY <1>1, <1>2

\* The place where the search starts is behind the last line break found.
LEMMA SearchFromIs ==
    ASSUME lastCRLF \in Int
    PROVE  SearchFrom = IF lastCRLF + 2 >= 1 THEN lastCRLF + 2 ELSE 1
<1>1. PICK x \in Int : x = lastCRLF + 2  OBVIOUS
<1>2. CASE x >= 1
  <2>1. Max({x, 1}) = x  BY <1>2, MaxIs
  <2> QED  BY <1>1, <1>2, <2>1 DEF SearchFrom
<1>3. CASE ~(x >= 1)
  <2>1. Max({x, 1}) = 1  BY <1>3, MaxIs
  <2> QED  BY <1>1, <1>3, <2>1 DEF SearchFrom
<1> QED  BY <1>2, <1>3

\* The search comes to the end of a header just when it has been read, wherever the search
\* starts and however much is searched; until then it keeps the last line break.
LEMMA SearchFinds ==
    ASSUME NEW shape \in Shapes, NEW end \in Nat, Header(shape, end),
           seen \in Nat, fresh \in Nat, NEW m \in Nat, m = seen + fresh, lastCRLF \in Int,
           Marks(shape, end, seen, lastCRLF),
           \A k \in 1..m : k <= Len(shape) => buffer[k][1] = shape[k]
    PROVE  /\ EndOfMsg <=> end < m
           /\ EndOfMsg => HeaderEnd = end /\ Found = end - 2
           /\ Marks(shape, end, m, Found) /\ Found \in Int
<1> DEFINE B == Breaks(shape)
<1>1. PICK n \in Nat : n = Len(shape) /\ end + 1 <= n  BY HeaderFacts
<1>2. end \in B /\ end - 2 \in B /\ end - 2 >= 1  BY HeaderFacts
<1>3. \A k \in B : k \in 1..(n - 1) /\ k + 1 \notin B  BY <1>1, HeaderFacts
<1>4. \A k \in 1..(n - 1) : k \in B <=> shape[k] = "cr" /\ shape[k + 1] = "lf"  BY <1>1 DEF Breaks
<1>5. PICK x \in Int : x = lastCRLF  OBVIOUS
<1>6. x = NoCRLF \/ (x \in B /\ x < end /\ x < seen)  BY <1>5 DEF Marks
<1>7. \A k \in B : k < end /\ k < seen => k <= x  BY <1>5 DEF Marks
<1>8. \A k \in Blanks(shape) : end <= k  BY DEF Header
<1>9. PICK f \in Int : f = SearchFrom /\ f = IF x + 2 >= 1 THEN x + 2 ELSE 1  BY <1>5, SearchFromIs
<1>10. NoCRLF = -2  BY DEF NoCRLF
<1> HIDE DEF B
\* What the search looks at, as far as the header goes, are the request's own line breaks.
<1>11. \A k \in LineBreaks : k \in f..(m - 1)  BY <1>9 DEF LineBreaks
<1>12. \A k \in f..(m - 1) : k <= end => (k \in LineBreaks <=> k \in B)
  <2> TAKE k \in f..(m - 1)
  <2> HAVE k <= end
  <2>0. f >= 1  BY <1>9
  <2>1. k \in 1..(n - 1) /\ k \in 1..m /\ k + 1 \in 1..m /\ k <= n /\ k + 1 <= n  BY <1>1, <2>0
  <2>2. buffer[k][1] = shape[k] /\ buffer[k + 1][1] = shape[k + 1]  BY <1>1, <2>1
  <2> QED  BY <1>4, <1>9, <2>1, <2>2 DEF LineBreaks
\* Those that are not looked at have been found.
<1>13. \A k \in B : k < f => x \in B /\ k <= x
  <2> TAKE k \in B
  <2> HAVE k < f
  <2>1. k \in Int /\ k >= 1 /\ k + 1 \notin B  BY <1>1, <1>3
  <2>2. x # NoCRLF  BY <1>9, <1>10, <2>1
  <2>3. x \in B /\ x + 1 \notin B  BY <1>3, <1>6, <2>2
  <2>4. k <= x + 1 /\ k # x + 1  BY <1>9, <2>1, <2>3
  <2> QED  BY <2>1, <2>3, <2>4
<1>14. ASSUME NEW k \in BlankLines  PROVE end <= k /\ k < m
  <2>1. k \in LineBreaks /\ k - 2 \in LineBreaks \cup {x}  BY <1>5 DEF BlankLines
  <2>2. k \in f..(m - 1) /\ k >= 1 /\ k < m  BY <1>9, <1>11, <2>1
  <2>3. CASE k < end
    <3>1. k \in B  BY <1>12, <2>1, <2>2, <2>3
    <3>2. k - 2 \in B
      <4>1. CASE k - 2 \in LineBreaks
        <5>1. k - 2 \in f..(m - 1) /\ k - 2 <= end  BY <1>11, <2>2, <2>3, <4>1
        <5> QED  BY <1>12, <4>1, <5>1
      <4>2. CASE k - 2 = x
        <5>1. x # NoCRLF  BY <1>10, <2>2, <4>2
        <5> QED  BY <1>6, <4>2, <5>1
      <4> QED  BY <2>1, <4>1, <4>2
    <3>3. end <= k  BY <1>8, <3>1, <3>2 DEF Blanks, B
    <3> QED  BY <2>2, <3>3
  <2>4. CASE ~(k < end)
    BY <2>2, <2>4
  <2> QED  BY <2>3, <2>4
<1>15. end < m => end \in BlankLines
  <2> HAVE end < m
  <2>1. f <= end
    <3>1. ~(end < f)
      <4>1. ASSUME end < f  PROVE FALSE
        <5>1. x \in B /\ end <= x  BY <1>2, <1>13, <4>1
        <5>2. x < end  BY <1>3, <1>6, <1>10, <5>1
        <5> QED  BY <5>1, <5>2
      <4> QED  BY <4>1
    <3> QED  BY <3>1
  <2>2. end \in f..(m - 1) /\ end <= end  BY <2>1
  <2>3. end \in LineBreaks  BY <1>2, <1>12, <2>2
  <2>4. end - 2 \in LineBreaks \cup {x}
    <3>1. CASE end - 2 < f
      <4>1. x \in B /\ end - 2 <= x  BY <1>2, <1>13, <3>1
      <4>2. x < end /\ x + 1 \notin B  BY <1>3, <1>6, <1>10, <4>1
      <4>3. end - 2 + 1 \notin B  BY <1>2, <1>3
      <4>4. end - 2 + 1 = end - 1  OBVIOUS
      <4>5. x # end - 1  BY <4>1, <4>3, <4>4
      <4>6. x = end - 2  BY <4>1, <4>2, <4>5
      <4> QED  BY <4>6
    <3>2. CASE ~(end - 2 < f)
      <4>1. end - 2 \in f..(m - 1) /\ end - 2 <= end  BY <2>1, <3>2
      <4> QED  BY <1>2, <1>12, <4>1
    <3> QED  BY <3>1, <3>2
  <2> QED  BY <1>5, <2>3, <2>4 DEF BlankLines
<1>16. EndOfMsg <=> end < m
  <2>1. EndOfMsg => end < m
    <3> HAVE EndOfMsg
    <3>1. PICK k \in BlankLines : TRUE  BY DEF EndOfMsg
    <3>2. k \in Int  BY <1>11, <3>1 DEF BlankLines
    <3>3. end <= k /\ k < m  BY <1>14, <3>1
    <3> QED  BY <3>2, <3>3
  <2> QED  BY <1>15, <2>1 DEF EndOfMsg
<1>17. EndOfMsg => HeaderEnd = end /\ Found = end - 2
  <2> HAVE EndOfMsg
  <2>1. end \in BlankLines /\ \A k \in BlankLines : end <= k /\ k \in Int
    <3>1. \A k \in BlankLines : k \in Int  BY <1>11 DEF BlankLines
    <3> QED  BY <1>14, <1>15, <1>16, <3>1
  <2>2. PICK h : h = HeaderEnd /\ h \in BlankLines /\ \A k \in BlankLines : h <= k
    BY <2>1 DEF HeaderEnd, Min
  <2>3. h \in Int /\ h <= end /\ end <= h  BY <2>1, <2>2
  <2>4. h = end  BY <2>3
  <2> QED  BY <2>2, <2>4 DEF Found
<1>18. Marks(shape, end, m, Found) /\ Found \in Int
  <2>1. CASE EndOfMsg
    <3>1. Found = end - 2 /\ end < m  BY <1>16, <1>17, <2>1
    <3>2. \A k \in B : k < end => k <= end - 2
      <4>1. end - 2 + 1 \notin B /\ end - 2 + 1 = end - 1  BY <1>2, <1>3
      <4> TAKE k \in B
      <4> HAVE k < end
      <4>2. k \in Int /\ k # end - 1  BY <1>3, <4>1
      <4> QED  BY <4>2
    <3>3. end - 2 \in B /\ end - 2 < end /\ end - 2 < m /\ end - 2 \in Int  BY <1>2, <3>1
    <3> QED  BY <3>1, <3>2, <3>3 DEF Marks, B
  <2>2. CASE ~EndOfMsg
    <3>1. m <= end  BY <1>16, <2>2
    <3>2. Found = Max({x} \cup LineBreaks)  BY <1>5, <2>2 DEF Found
    <3>3. \A k \in LineBreaks : k \in B /\ k \in Int /\ k >= f /\ k < m /\ k >= 1
      <4> TAKE k \in LineBreaks
      <4>1. k \in f..(m - 1) /\ k <= end  BY <1>11, <3>1
      <4> QED  BY <1>9, <1>12, <4>1
    <3>4. \A k \in B : k < end /\ k < m => k \in LineBreaks \/ (k <= x /\ x \in B)
      <4> TAKE k \in B
      <4> HAVE k < end /\ k < m
      <4>1. k \in Int  BY <1>3
      <4>2. CASE k < f
        BY <1>13, <4>2
      <4>3. CASE ~(k < f)
        <5>1. k \in f..(m - 1) /\ k <= end  BY <4>1, <4>3
        <5> QED  BY <1>12, <5>1
      <4> QED  BY <4>2, <4>3
    <3>5. CASE LineBreaks = {}
      <4>1. Max({x}) = x
        <5>1. {x} \in SUBSET Int /\ x \in {x} /\ \A y \in {x} : x >= y  OBVIOUS
        <5> QED  BY <5>1, MaxIs
      <4>2. Found = x  BY <3>2, <3>5, <4>1
      <4>3. \A k \in B : k < end /\ k < m => k <= x  BY <3>4, <3>5
      <4>4. x = NoCRLF \/ (x \in B /\ x < end /\ x < m)  BY <1>6
      <4> QED  BY <4>2, <4>3, <4>4 DEF Marks, B
    <3>6. CASE LineBreaks # {}
      <4>1. PICK g \in LineBreaks : \A k \in LineBreaks : g >= k
        <5>1. LineBreaks \in SUBSET (0..m)  BY <3>3
        <5> QED  BY <3>6, <5>1, GreatestNumber
      <4>2. g \in B /\ g \in Int /\ g >= f /\ g < m /\ g < end  BY <3>1, <3>3
      <4>3. g >= x  BY <1>9, <4>2
      <4>4. Max({x} \cup LineBreaks) = g
        <5>1. {x} \cup LineBreaks \in SUBSET Int  BY <3>3
        <5>2. g \in {x} \cup LineBreaks /\ \A k \in {x} \cup LineBreaks : g >= k  BY <4>1, <4>3
        <5> QED  BY <5>1, <5>2, MaxIs
      <4>5. \A k \in B : k < end /\ k < m => k <= g
        <5> TAKE k \in B
        <5> HAVE k < end /\ k < m
        <5>1. k \in Int  BY <1>3
        <5>2. CASE k \in LineBreaks
          BY <4>1, <4>2, <5>1, <5>2
        <5>3. CASE k <= x
          BY <4>2, <4>3, <5>1, <5>3
        <5> QED  BY <3>4, <5>2, <5>3
      <4> QED  BY <3>2, <4>2, <4>4, <4>5 DEF Marks, B
    <3> QED  BY <3>5, <3>6
  <2> QED  BY <2>1, <2>2
<1> QED  BY <1>16, <1>17, <1>18

\* How long the request at the front of the buffer is, when its header has been read.
LEMMA SizeIs ==
    ASSUME NEW shape \in Shapes, NEW end \in Nat, Header(shape, end),
           NEW m \in Nat, end < m, Found = end - 2,
           \A k \in 1..m : k <= Len(shape) => buffer[k][1] = shape[k]
    PROVE  RequestSize = Len(shape) /\ ContentLength = Len(shape) - (end + 1)
<1> DEFINE F == Fields(shape, end)
           G == {k \in 1..Found : buffer[k][1] \in DOMAIN LengthFields}
<1>1. PICK n \in Nat : n = Len(shape) /\ end + 1 <= n /\ end - 2 >= 1  BY HeaderFacts
<1>2. \A k \in 1..(end - 2) : buffer[k][1] = shape[k]
  <2>1. \A k \in 1..(end - 2) : k \in 1..m /\ k <= n  BY <1>1
  <2> QED  BY <1>1, <2>1
<1>3. G = F  BY <1>2 DEF Fields
<1>4. F # {} => Max(F) \in F
  <2>1. F \in SUBSET (0..end)  BY DEF Fields
  <2>2. F # {} => \E z \in F : \A y \in F : z >= y
    <3> HIDE DEF F
    <3> QED  BY <2>1, GreatestNumber
  <2> HIDE DEF F
  <2> QED  BY <2>2 DEF Max
<1>5. F # {} => buffer[Max(F)][1] = shape[Max(F)]  BY <1>2, <1>4 DEF Fields
<1> HIDE DEF F
<1>6. ContentLength = IF F = {} THEN 0 ELSE LengthFields[shape[Max(F)]]
  <2>1. ContentLength = IF G = {} THEN 0 ELSE LengthFields[buffer[Max(G)][1]]  BY DEF ContentLength
  <2> HIDE DEF G
  <2> QED  BY <1>3, <1>5, <2>1
<1>7. PICK c \in Nat : c = ContentLength
  <2>1. CASE F = {}
    BY <1>6, <2>1
  <2>2. CASE F # {}
    <3>1. shape[Max(F)] \in DOMAIN LengthFields  BY <1>4, <2>2 DEF F, Fields
    <3> QED  BY <1>6, <2>2, <3>1, ShapesAssumption
  <2> QED  BY <2>1, <2>2
<1>8. n = end + 1 + c  BY <1>1, <1>6, <1>7 DEF Header, BodyLength, F
<1>9. RequestSize = end - 2 + 3 + c  BY <1>7 DEF RequestSize
<1>10. end - 2 + 3 + c = n /\ c = n - (end + 1)  BY <1>8
<1> QED  BY <1>1, <1>7, <1>9, <1>10

-----------------------------------------------------------------------------
(* The invariant.                                                          *)

\* The types; and the stream is that of the script.
TypeInv ==
    /\ Script(script) /\ stream = FlattenSeq([i \in DOMAIN script |-> Sent(i)])
    /\ taken \in Nat /\ seen \in Nat /\ fresh \in Nat /\ left \in Int /\ lastCRLF \in Int
    /\ buffer \in Seq(Byte) /\ handled \in Seq(Seq(Byte))
    /\ pc \in {"idle", "handle", "dropped", "died"}

\* The buffer holds what has been read behind the requests that have been handled.
PlaceInv ==
    /\ Len(handled) <= Len(script) /\ \A i \in 1..Len(handled) : handled[i] = Sent(i)
    /\ taken = BytesOf(Len(handled)) + seen + fresh /\ taken <= Len(stream)
    /\ Len(buffer) = seen + fresh
    /\ \A k \in 1..(seen + fresh) : buffer[k] = stream[BytesOf(Len(handled)) + k]
    /\ seen + left = BufferSize

\* fLastCRLF is the last line break in the part of the header that has been searched.
SearchInv ==
    Len(handled) < Len(script) =>
      \A end \in Nat : LET shape == script[Len(handled) + 1] IN
         Header(shape, end) => Marks(shape, end, seen, lastCRLF)

\* Between two reads there is no whole request in the buffer.
PhaseInv ==
    /\ pc = "idle" => /\ left > 0 /\ fresh = 0
                      /\ Len(handled) < Len(script) => taken < BytesOf(Len(handled) + 1)
    /\ pc = "handle" => fresh > 0
    /\ pc = "dropped" => seen + fresh >= BufferSize

ReqInv == TypeInv /\ PlaceInv /\ SearchInv /\ PhaseInv

\* The request whose bytes are at the front of the buffer.
LEMMA Current ==
    ASSUME ReqInv, pc = "handle"
    PROVE  /\ Len(handled) + 1 \in 1..Len(script)
           /\ \A k \in 1..(seen + fresh) :
                k <= Len(script[Len(handled) + 1]) =>
                  buffer[k] = <<script[Len(handled) + 1][k], Len(handled) + 1>>
<1>1. PICK h \in Nat, N \in Nat : h = Len(handled) /\ N = Len(script)
  BY LenProperties DEF ReqInv, TypeInv, Script
<1>2. Script(script) /\ h <= N  BY <1>1 DEF ReqInv, TypeInv, PlaceInv
<1>3. /\ Len(stream) = BytesOf(N)
      /\ \A i \in 1..N : \A k \in 1..Len(script[i]) : stream[BytesOf(i - 1) + k] = <<script[i][k], i>>
  BY <1>1, StreamFacts DEF ReqInv, TypeInv
<1>4. h # N
  <2>1. PICK b \in Nat, s \in Nat, f \in Nat : b = BytesOf(h) /\ s = seen /\ f = fresh
    <3>1. h \in 0..N  BY <1>2
    <3> QED  BY <1>1, <1>2, <3>1, BytesFacts DEF ReqInv, TypeInv
  <2>2. b + s + f <= Len(stream) /\ f > 0  BY <1>1, <2>1 DEF ReqInv, PlaceInv, PhaseInv
  <2>3. h = N => b + s + f <= b  BY <1>3, <2>1, <2>2
  <2> QED  BY <2>2, <2>3
<1>5. h + 1 \in 1..N /\ h + 1 - 1 = h  BY <1>2, <1>4
<1>6. ASSUME NEW k \in 1..(seen + fresh), k <= Len(script[h + 1])
      PROVE  buffer[k] = <<script[h + 1][k], h + 1>>
  <2>1. buffer[k] = stream[BytesOf(h) + k]  BY <1>1 DEF ReqInv, PlaceInv
  <2>2. Len(script[h + 1]) \in Nat  BY <1>1, <1>2, <1>5, SentFacts
  <2>3. k \in 1..Len(script[h + 1])  BY <1>6, <2>2 DEF ReqInv, TypeInv
  <2> QED  BY <1>3, <1>5, <2>1, <2>3
<1> QED  BY <1>1, <1>5, <1>6

\* What handleRequestBytes() finds: whether that request is whole, and then its size.
LEMMA Finds ==
    ASSUME ReqInv, pc = "handle", NEW shape, shape = script[Len(handled) + 1],
           NEW m \in Nat, m = seen + fresh
    PROVE  /\ Complete <=> Len(shape) <= m
           /\ Complete => RequestSize = Len(shape)
           /\ \A end \in Nat : Header(shape, end) => Marks(shape, end, m, Found)
           /\ Found \in Int
<1>1. shape \in Shapes /\ Len(shape) \in Nat  BY Current, SentFacts DEF ReqInv, TypeInv
<1>2. \A k \in 1..m : k <= Len(shape) => buffer[k][1] = shape[k]  BY Current
<1>3. Len(handled) < Len(script)
  <2>1. Len(handled) \in Nat /\ Len(script) \in Nat  BY LenProperties DEF ReqInv, TypeInv, Script
  <2> QED  BY <2>1, Current
<1>4. ASSUME NEW end \in Nat, Header(shape, end)
      PROVE  /\ EndOfMsg <=> end < m
             /\ EndOfMsg => HeaderEnd = end /\ Found = end - 2
             /\ Marks(shape, end, m, Found) /\ Found \in Int
  <2>1. seen \in Nat /\ fresh \in Nat /\ lastCRLF \in Int  BY DEF ReqInv, TypeInv
  <2>2. Marks(shape, end, seen, lastCRLF)  BY <1>3, <1>4 DEF ReqInv, SearchInv
  <2> QED  BY <1>1, <1>2, <1>4, <2>1, <2>2, SearchFinds
<1>5. PICK end \in Nat : Header(shape, end)  BY <1>1, HeaderExists
<1>6. (EndOfMsg <=> end < m) /\ (EndOfMsg => HeaderEnd = end /\ Found = end - 2) /\ Found \in Int
  BY <1>4, <1>5
<1>7. PICK n \in Nat : n = Len(shape) /\ end + 1 <= n  BY <1>1, <1>5, HeaderFacts
<1>8. CASE EndOfMsg
  <2>1. RequestSize = n /\ ContentLength = n - (end + 1)
    <3>1. end < m /\ Found = end - 2  BY <1>6, <1>8
    <3> QED  BY <1>1, <1>2, <1>5, <1>7, <3>1, SizeIs
  <2>2. Complete <=> m >= end + 1 + (n - (end + 1))  BY <1>6, <1>8, <2>1 DEF Complete
  <2>3. end + 1 + (n - (end + 1)) = n  OBVIOUS
  <2>4. Complete <=> n <= m  BY <2>2, <2>3
  <2> QED  BY <1>4, <1>6, <1>7, <2>1, <2>4
<1>9. CASE ~EndOfMsg
  <2>1. ~Complete /\ ~(n <= m)  BY <1>6, <1>7, <1>9 DEF Complete
  <2> QED  BY <1>4, <1>6, <1>7, <2>1
<1> QED  BY <1>8, <1>9

\* While the script stays as it is, so do its requests and where they begin.
LEMMA SameStream ==
    ASSUME script' = script
    PROVE  /\ BytesOf(Len(handled))' = BytesOf(Len(handled'))
           /\ BytesOf(Len(handled) + 1)' = BytesOf(Len(handled') + 1)
           /\ \A i : Sent(i)' = Sent(i)
<1>1. BytesOf(Len(handled))' = BytesOf(Len(handled'))  BY DEF BytesOf
<1>2. BytesOf(Len(handled) + 1)' = BytesOf(Len(handled') + 1)  BY DEF BytesOf
<1>3. \A i : Sent(i)' = Sent(i)  BY DEF Sent
<1> QED  BY <1>1, <1>2, <1>3

-----------------------------------------------------------------------------
(* Every action keeps the invariant.                                       *)

\* Nothing has been read at first.
LEMMA InitInv ==
    ASSUME Init
    PROVE  ReqInv
<1>1. Script(script)
  <2>1. PICK n \in 1..MaxRequests : script \in [1..n -> Shapes]  BY DEF Init
  <2>2. n \in Nat /\ n > 0  BY BufferAssumption
  <2>3. script \in Seq(Shapes)  BY <2>1, <2>2, SeqDef
  <2>4. Len(script) = n  BY <2>1, <2>2, <2>3, LenProperties
  <2> QED  BY <2>2, <2>3, <2>4 DEF Script
<1>2. PICK n \in Nat : n = Len(script) /\ n > 0  BY <1>1, LenProperties DEF Script
<1>3. /\ taken = 0 /\ seen = 0 /\ fresh = 0 /\ left = BufferSize /\ lastCRLF = NoCRLF
      /\ buffer = <<>> /\ handled = <<>> /\ pc = "idle"
      /\ stream = FlattenSeq([i \in DOMAIN script |-> Sent(i)])
  BY DEF Init
<1>4. buffer \in Seq(Byte) /\ Len(buffer) = 0 /\ handled \in Seq(Seq(Byte)) /\ Len(handled) = 0
  BY <1>3, EmptySeq
<1>5. TypeInv  BY <1>1, <1>3, <1>4, BufferAssumption DEF TypeInv, NoCRLF
<1>6. BytesOf(0) = 0 /\ BytesOf(1) > 0 /\ BytesOf(n) \in Nat
  <2>1. 1 \in 1..n /\ 1 - 1 = 0 /\ n \in 0..n  BY <1>2
  <2>2. BytesOf(0) = 0 /\ BytesOf(1) = BytesOf(0) + Len(script[1]) /\ BytesOf(n) \in Nat
    BY <1>1, <1>2, <2>1, BytesFacts
  <2>3. script[1] \in Shapes  BY <1>1, <1>2, <2>1, SentFacts
  <2>4. Len(script[1]) \in Nat /\ Len(script[1]) > 0
    <3>1. PICK end \in Nat : Header(script[1], end)  BY <2>3, HeaderExists
    <3>2. PICK z \in Nat : z = Len(script[1]) /\ end + 1 <= z  BY <2>3, <3>1, HeaderFacts
    <3> QED  BY <3>2
  <2> QED  BY <2>2, <2>4
<1>7. PlaceInv
  <2>1. Len(stream) = BytesOf(n)  BY <1>1, <1>2, <1>3, StreamFacts
  <2>2. \A i \in 1..0 : FALSE  OBVIOUS
  <2>3. 0 <= n /\ 0 = BytesOf(0) + 0 + 0 /\ 0 <= Len(stream) /\ 0 + BufferSize = BufferSize /\ 0 + 0 = 0
    BY <1>2, <1>6, <2>1, BufferAssumption
  <2> QED  BY <1>2, <1>3, <1>4, <2>2, <2>3 DEF PlaceInv
<1>8. SearchInv
  <2>1. \A shape : \A k \in Breaks(shape) : ~(k < 0)  BY DEF Breaks
  <2> QED  BY <1>3, <2>1 DEF SearchInv, Marks
<1>9. PhaseInv  BY <1>3, <1>4, <1>6, BufferAssumption DEF PhaseInv
<1> QED  BY <1>5, <1>7, <1>8, <1>9 DEF ReqInv

\* Reading adds bytes of the stream behind those that are there.
LEMMA ReadStep ==
    ASSUME ReqInv, NEW n \in 1..BufferSize, Read(n)
    PROVE  ReqInv'
<1>1. /\ script' = script /\ stream' = stream /\ seen' = seen /\ left' = left
      /\ lastCRLF' = lastCRLF /\ handled' = handled /\ pc' = "handle"
      /\ taken' = taken + n /\ fresh' = n /\ taken + n <= Len(stream)
      /\ buffer' = SubSeq(buffer, 1, seen) \o SubSeq(stream, taken + 1, taken + n)
  BY DEF Read
<1>2. n \in Nat /\ n > 0  BY BufferAssumption
<1>3. PICK b \in Nat, s \in Nat, L \in Nat :
         /\ b = BytesOf(Len(handled)) /\ s = seen /\ L = Len(stream) /\ stream \in Seq(Byte)
  <2>1. Len(handled) \in 0..Len(script)
    BY LenProperties DEF ReqInv, TypeInv, PlaceInv, Script
  <2>2. Len(stream) \in Nat /\ stream \in Seq(Byte)  BY StreamFacts, LenProperties DEF ReqInv, TypeInv
  <2> QED  BY <2>1, <2>2, BytesFacts DEF ReqInv, TypeInv
<1>4. /\ fresh = 0 /\ taken = b + s /\ Len(buffer) = s /\ b + s + n <= L
      /\ buffer \in Seq(Byte) /\ \A k \in 1..s : buffer[k] = stream[b + k]
  <2>1. fresh = 0  BY DEF Read, ReqInv, PhaseInv
  <2>2. taken = b + s + 0 /\ Len(buffer) = s + 0 /\ \A k \in 1..(s + 0) : buffer[k] = stream[b + k]
    BY <1>3, <2>1 DEF ReqInv, PlaceInv
  <2>3. buffer \in Seq(Byte)  BY DEF ReqInv, TypeInv
  <2> QED  BY <1>1, <1>3, <2>1, <2>2, <2>3
<1> DEFINE old == SubSeq(buffer, 1, s)
           new == SubSeq(stream, b + s + 1, b + s + n)
<1>5. old \in Seq(Byte) /\ Len(old) = s /\ \A k \in 1..s : old[k] = buffer[k]
  <2>1. \A k \in 1..s : buffer[k] \in Byte  BY <1>4, ElementOfSeq
  <2>2. old \in Seq(Byte) /\ Len(old) = (IF 1 <= s THEN s - 1 + 1 ELSE 0)
    BY <2>1, SubSeqProperties
  <2>3. \A k \in 1..(s - 1 + 1) : old[k] = buffer[1 + k - 1]  BY <2>1, SubSeqProperties
  <2>4. (IF 1 <= s THEN s - 1 + 1 ELSE 0) = s /\ s - 1 + 1 = s /\ \A k \in 1..s : 1 + k - 1 = k
    OBVIOUS
  <2> HIDE DEF old
  <2> QED  BY <2>2, <2>3, <2>4
<1>6. new \in Seq(Byte) /\ Len(new) = n /\ \A k \in 1..n : new[k] = stream[b + s + k]
  <2>1. \A k \in (b + s + 1)..(b + s + n) : stream[k] \in Byte
    <3>1. \A k \in (b + s + 1)..(b + s + n) : k \in 1..L  BY <1>4
    <3> QED  BY <1>3, <3>1, ElementOfSeq
  <2>2. PICK x \in Int, y \in Int : x = b + s + 1 /\ y = b + s + n  BY <1>2
  <2>3. SubSeq(stream, x, y) \in Seq(Byte) /\ Len(SubSeq(stream, x, y)) = (IF x <= y THEN y - x + 1 ELSE 0)
    BY <2>1, <2>2, SubSeqProperties
  <2>4. \A k \in 1..(y - x + 1) : SubSeq(stream, x, y)[k] = stream[x + k - 1]
    BY <2>1, <2>2, SubSeqProperties
  <2>5. (IF x <= y THEN y - x + 1 ELSE 0) = n /\ y - x + 1 = n  BY <1>2, <2>2
  <2>6. \A k \in 1..n : x + k - 1 = b + s + k  BY <1>2, <2>2
  <2>7. new = SubSeq(stream, x, y)  BY <2>2
  <2> HIDE DEF new
  <2> QED  BY <2>3, <2>4, <2>5, <2>6, <2>7
<1> HIDE DEF old, new
<1>7. /\ buffer' \in Seq(Byte) /\ Len(buffer') = s + n
      /\ \A k \in 1..(s + n) : buffer'[k] = stream[b + k]
  <2>1. buffer' = old \o new  BY <1>1, <1>3, <1>4 DEF old, new
  <2>2. /\ old \o new \in Seq(Byte) /\ Len(old \o new) = Len(old) + Len(new)
        /\ \A k \in 1..(Len(old) + Len(new)) :
             (old \o new)[k] = IF k <= Len(old) THEN old[k] ELSE new[k - Len(old)]
    BY <1>5, <1>6, ConcatProperties
  <2>3. \A k \in 1..(s + n) : buffer'[k] = IF k <= s THEN old[k] ELSE new[k - s]
    BY <1>5, <1>6, <2>1, <2>2
  <2>4. ASSUME NEW k \in 1..(s + n)  PROVE buffer'[k] = stream[b + k]
    <3>1. CASE k <= s
      <4>1. k \in 1..s  BY <3>1
      <4> QED  BY <1>4, <1>5, <2>3, <3>1, <4>1
    <3>2. CASE ~(k <= s)
      <4>1. k - s \in 1..n /\ b + s + (k - s) = b + k  BY <1>2, <3>2
      <4> QED  BY <1>6, <2>3, <3>2, <4>1
    <3> QED  BY <3>1, <3>2
  <2> QED  BY <1>5, <1>6, <2>1, <2>2, <2>4
<1>8. TypeInv'
  <2>1. [i \in DOMAIN script |-> Sent(i)]' = [i \in DOMAIN script |-> Sent(i)]
    BY <1>1, SameStream
  <2>2. stream' = FlattenSeq([i \in DOMAIN script |-> Sent(i)]')  BY <1>1, <2>1 DEF ReqInv, TypeInv
  <2>3. taken' \in Nat  BY <1>1, <1>2 DEF ReqInv, TypeInv
  <2> QED  BY <1>1, <1>2, <1>7, <2>2, <2>3 DEF ReqInv, TypeInv
<1>9. PlaceInv'
  <2>1. BytesOf(Len(handled))' = b  BY <1>1, <1>3, SameStream
  <2>2. taken' = b + seen' + fresh' /\ taken' <= Len(stream')
    BY <1>1, <1>2, <1>3, <1>4
  <2>3. Len(buffer') = seen' + fresh' /\ \A k \in 1..(seen' + fresh') : buffer'[k] = stream'[b + k]
    BY <1>1, <1>3, <1>7
  <2>4. Len(handled') <= Len(script') /\ \A i \in 1..Len(handled') : handled'[i] = Sent(i)'
    BY <1>1, SameStream DEF ReqInv, PlaceInv
  <2>5. seen' + left' = BufferSize  BY <1>1 DEF ReqInv, PlaceInv
  <2> QED  BY <2>1, <2>2, <2>3, <2>4, <2>5 DEF PlaceInv
<1>10. SearchInv'  BY <1>1 DEF ReqInv, SearchInv
<1>11. PhaseInv'  BY <1>1, <1>2 DEF PhaseInv
<1> QED  BY <1>8, <1>9, <1>10, <1>11 DEF ReqInv

\* A request of which bytes are missing is searched further when they come.
LEMMA IncompleteStep ==
    ASSUME ReqInv, Incomplete
    PROVE  ReqInv'
<1>1. /\ script' = script /\ stream' = stream /\ taken' = taken /\ buffer' = buffer
      /\ handled' = handled /\ left' = left - fresh /\ seen' = seen + fresh
      /\ lastCRLF' = Found /\ fresh' = 0 /\ pc' = "idle"
      /\ fresh < left /\ ~Complete /\ pc = "handle"
  BY DEF Incomplete
<1>2. PICK s \in Nat, f \in Nat, l \in Int : s = seen /\ f = fresh /\ l = left
  BY DEF ReqInv, TypeInv
<1>3. PICK m \in Nat : m = s + f /\ m = seen + fresh  BY <1>2
<1>4. PICK shape : shape = script[Len(handled) + 1]  OBVIOUS
<1>5. /\ ~(Len(shape) <= m) /\ Found \in Int
      /\ \A end \in Nat : Header(shape, end) => Marks(shape, end, m, Found)
  BY <1>1, <1>3, <1>4, Finds
<1>6. Script(script) /\ Len(handled) + 1 \in 1..Len(script) /\ Len(handled) \in Nat
  BY <1>1, Current, LenProperties DEF ReqInv, TypeInv
<1>7. PICK b \in Nat, n \in Nat : b = BytesOf(Len(handled)) /\ n = Len(shape)
                                  /\ BytesOf(Len(handled) + 1) = b + n
  <2>1. PICK h \in Nat, N \in Nat : h = Len(handled) /\ N = Len(script)
    BY <1>6, LenProperties DEF Script
  <2>2. h + 1 \in 1..N /\ h \in 0..N /\ h + 1 - 1 = h  BY <1>6, <2>1
  <2>3. BytesOf(h) \in Nat /\ BytesOf(h + 1) = BytesOf(h + 1 - 1) + Len(script[h + 1])
        /\ Len(script[h + 1]) \in Nat
    BY <1>6, <2>1, <2>2, BytesFacts
  <2> QED  BY <1>4, <2>1, <2>2, <2>3
<1>8. BytesOf(Len(handled))' = b /\ BytesOf(Len(handled) + 1)' = b + n
  BY <1>1, <1>7, SameStream
<1>9. TypeInv'
  <2>1. [i \in DOMAIN script |-> Sent(i)]' = [i \in DOMAIN script |-> Sent(i)]
    BY <1>1, SameStream
  <2>2. stream' = FlattenSeq([i \in DOMAIN script |-> Sent(i)]')  BY <1>1, <2>1 DEF ReqInv, TypeInv
  <2>3. left' \in Int /\ seen' \in Nat /\ fresh' \in Nat  BY <1>1, <1>2
  <2> QED  BY <1>1, <1>5, <2>2, <2>3 DEF ReqInv, TypeInv
<1>10. PlaceInv'
  <2>1. taken = b + s + f /\ s + l = BufferSize  BY <1>2, <1>7 DEF ReqInv, PlaceInv
  <2>2. taken' = b + seen' + fresh' /\ seen' + left' = BufferSize  BY <1>1, <1>2, <2>1
  <2>3. seen' + fresh' = seen + fresh  BY <1>1, <1>2
  <2>4. Len(buffer') = seen' + fresh'
        /\ \A k \in 1..(seen' + fresh') : buffer'[k] = stream'[b + k]
    BY <1>1, <1>7, <2>3 DEF ReqInv, PlaceInv
  <2>5. /\ taken' <= Len(stream') /\ Len(handled') <= Len(script')
        /\ \A i \in 1..Len(handled') : handled'[i] = Sent(i)'
    BY <1>1, SameStream DEF ReqInv, PlaceInv
  <2> QED  BY <1>8, <2>2, <2>4, <2>5 DEF PlaceInv
<1>11. SearchInv'
  <2>1. seen' = m /\ lastCRLF' = Found /\ script'[Len(handled') + 1] = shape
    BY <1>1, <1>3, <1>4
  <2> QED  BY <1>5, <2>1 DEF SearchInv
<1>12. PhaseInv'
  <2>1. left' > 0  BY <1>1, <1>2
  <2>2. taken' < b + n
    <3>1. taken = b + s + f  BY <1>2, <1>7 DEF ReqInv, PlaceInv
    <3>2. ~(n <= m)  BY <1>5, <1>7
    <3>3. b + s + f < b + n  BY <1>3, <3>2
    <3> QED  BY <1>1, <3>1, <3>3
  <2> QED  BY <1>1, <1>8, <2>1, <2>2 DEF PhaseInv
<1> QED  BY <1>9, <1>10, <1>11, <1>12 DEF ReqInv

\* Handling a request leaves what is behind it at the front of the buffer.
LEMMA HandleStep ==
    ASSUME ReqInv, HandleRequest
    PROVE  ReqInv'
<1>1. /\ script' = script /\ stream' = stream /\ taken' = taken
      /\ seen' = 0 /\ left' = BufferSize /\ lastCRLF' = NoCRLF
      /\ pc = "handle" /\ Complete /\ pc' = IF fresh' > 0 THEN "handle" ELSE "idle"
      /\ handled' = Append(handled, SubSeq(buffer, 1, RequestSize))
      /\ buffer' = SubSeq(buffer, RequestSize + 1, seen + fresh)
      /\ fresh' = seen + fresh - RequestSize
  BY DEF HandleRequest
<1>2. PICK s \in Nat, f \in Nat : s = seen /\ f = fresh  BY DEF ReqInv, TypeInv
<1>3. PICK m \in Nat : m = s + f /\ m = seen + fresh  BY <1>2
<1>4. PICK h \in Nat, N \in Nat : h = Len(handled) /\ N = Len(script)
  BY LenProperties DEF ReqInv, TypeInv, Script
<1>5. PICK i \in Nat : i = h + 1 /\ i \in 1..N /\ i - 1 = h /\ h \in 0..N
  BY <1>1, <1>4, Current
<1>6. PICK shape : shape = script[i] /\ shape = script[Len(handled) + 1]  BY <1>4, <1>5
<1>7. Script(script) /\ handled \in Seq(Seq(Byte)) /\ buffer \in Seq(Byte)
      /\ Len(buffer) = m
  BY <1>3 DEF ReqInv, TypeInv, PlaceInv
<1>8. PICK n \in Nat : /\ n = Len(shape) /\ n <= m /\ n > 0 /\ RequestSize = n
  <2>1. shape \in Shapes /\ Len(shape) \in Nat  BY <1>4, <1>5, <1>6, <1>7, SentFacts
  <2>2. PICK end \in Nat : Header(shape, end)  BY <2>1, HeaderExists
  <2>3. end + 1 <= Len(shape)  BY <2>1, <2>2, HeaderFacts
  <2>4. Len(shape) <= m /\ RequestSize = Len(shape)  BY <1>1, <1>3, <1>6, Finds
  <2> QED  BY <2>1, <2>3, <2>4
<1>9. PICK b \in Nat : b = BytesOf(h) /\ BytesOf(i) = b + n
  <2>1. BytesOf(h) \in Nat /\ BytesOf(i) = BytesOf(i - 1) + Len(script[i])
    BY <1>4, <1>5, <1>7, BytesFacts
  <2> QED  BY <1>5, <1>6, <1>8, <2>1
<1>10. \A k \in 1..m : buffer[k] \in Byte /\ buffer[k] = stream[b + k]
  <2>1. \A k \in 1..m : buffer[k] \in Byte  BY <1>7, ElementOfSeq
  <2>2. \A k \in 1..m : buffer[k] = stream[b + k]  BY <1>3, <1>4, <1>9 DEF ReqInv, PlaceInv
  <2> QED  BY <2>1, <2>2
\* The request that is handled is the one that was sent.
<1>11. SubSeq(buffer, 1, n) = Sent(i)
  <2> DEFINE r == SubSeq(buffer, 1, n)
  <2>1. \A k \in 1..n : k \in 1..m /\ buffer[k] \in Byte  BY <1>8, <1>10
  <2>2. r \in Seq(Byte) /\ Len(r) = (IF 1 <= n THEN n - 1 + 1 ELSE 0)
    BY <2>1, SubSeqProperties
  <2>3. \A k \in 1..(n - 1 + 1) : r[k] = buffer[1 + k - 1]  BY <2>1, SubSeqProperties
  <2> HIDE DEF r
  <2>4. Len(r) = n /\ \A k \in 1..n : r[k] = buffer[k]
    <3>1. (IF 1 <= n THEN n - 1 + 1 ELSE 0) = n /\ n - 1 + 1 = n /\ \A k \in 1..n : 1 + k - 1 = k
      OBVIOUS
    <3> QED  BY <2>2, <2>3, <3>1
  <2>5. \A k \in 1..n : buffer[k] = <<shape[k], i>>
    <3>1. \A k \in 1..n : k \in 1..(seen + fresh) /\ k <= Len(script[Len(handled) + 1])
      BY <1>3, <1>6, <1>8
    <3>2. \A k \in 1..(seen + fresh) :
            k <= Len(script[Len(handled) + 1]) =>
              buffer[k] = <<script[Len(handled) + 1][k], Len(handled) + 1>>
      BY <1>1, Current
    <3> QED  BY <1>4, <1>5, <1>6, <3>1, <3>2
  <2>6. /\ Sent(i) \in Seq(Byte) /\ Len(Sent(i)) = n
        /\ \A k \in 1..n : Sent(i)[k] = <<shape[k], i>>
    BY <1>4, <1>5, <1>6, <1>7, <1>8, SentFacts
  <2>7. r = Sent(i)  BY <2>2, <2>4, <2>5, <2>6, SeqEqual
  <2> QED  BY <2>7 DEF r
<1>12. /\ handled' \in Seq(Seq(Byte)) /\ Len(handled') = i
       /\ \A j \in 1..i : handled'[j] = Sent(j)
  <2>1. Sent(i) \in Seq(Byte) /\ handled' = Append(handled, Sent(i))
    BY <1>1, <1>4, <1>5, <1>7, <1>8, <1>11, SentFacts
  <2>2. handled' \in Seq(Seq(Byte)) /\ Len(handled') = h + 1 /\ handled'[h + 1] = Sent(i)
        /\ \A j \in 1..h : handled'[j] = handled[j]
    BY <1>4, <1>7, <2>1, AppendProperties
  <2>3. \A j \in 1..h : handled[j] = Sent(j)  BY <1>4 DEF ReqInv, PlaceInv
  <2>4. \A j \in 1..i : j \in 1..h \/ j = i  BY <1>5
  <2> QED  BY <1>5, <2>2, <2>3, <2>4
<1>13. /\ buffer' \in Seq(Byte) /\ Len(buffer') = m - n
       /\ \A k \in 1..(m - n) : buffer'[k] = stream[b + n + k]
  <2>1. PICK x \in Int : x = n + 1  OBVIOUS
  <2>2. \A k \in x..m : k \in 1..m /\ buffer[k] \in Byte  BY <1>8, <1>10, <2>1
  <2>3. SubSeq(buffer, x, m) \in Seq(Byte) /\ Len(SubSeq(buffer, x, m)) = (IF x <= m THEN m - x + 1 ELSE 0)
    BY <2>1, <2>2, SubSeqProperties
  <2>4. \A k \in 1..(m - x + 1) : SubSeq(buffer, x, m)[k] = buffer[x + k - 1]
    BY <2>1, <2>2, SubSeqProperties
  <2>5. buffer' = SubSeq(buffer, x, m)  BY <1>1, <1>3, <1>8, <2>1
  <2>6. (IF x <= m THEN m - x + 1 ELSE 0) = m - n /\ m - x + 1 = m - n  BY <1>8, <2>1
  <2>7. \A k \in 1..(m - n) : x + k - 1 \in 1..m /\ b + (x + k - 1) = b + n + k
    BY <1>8, <2>1
  <2>8. \A k \in 1..(m - n) : buffer'[k] = buffer[x + k - 1]  BY <2>4, <2>5, <2>6
  <2>9. ASSUME NEW k \in 1..(m - n)  PROVE buffer'[k] = stream[b + n + k]
    <3>1. x + k - 1 \in 1..m /\ b + (x + k - 1) = b + n + k  BY <2>7
    <3> QED  BY <1>10, <2>8, <3>1
  <2> QED  BY <2>3, <2>5, <2>6, <2>9
<1>14. seen' = 0 /\ fresh' = m - n /\ fresh' \in Nat /\ left' = BufferSize
  <2>1. seen + fresh - RequestSize = m - n
    <3>1. s + f - n = m - n  BY <1>3
    <3>2. RequestSize = n  BY <1>8
    <3> QED  BY <1>2, <3>1, <3>2
  <2>2. m - n \in Nat  BY <1>8
  <2>3. fresh' = m - n  BY <1>1, <2>1
  <2> QED  BY <1>1, <2>2, <2>3
<1>15. BytesOf(Len(handled))' = b + n /\ BytesOf(Len(handled) + 1)' = BytesOf(i + 1)
  BY <1>1, <1>9, <1>12, SameStream
<1>16. TypeInv'
  <2>1. [j \in DOMAIN script |-> Sent(j)]' = [j \in DOMAIN script |-> Sent(j)]
    BY <1>1, SameStream
  <2>2. stream' = FlattenSeq([j \in DOMAIN script |-> Sent(j)]')  BY <1>1, <2>1 DEF ReqInv, TypeInv
  <2>3. pc' \in {"idle", "handle", "dropped", "died"}  BY <1>1
  <2>4. left' \in Int /\ seen' \in Nat /\ lastCRLF' \in Int
    BY <1>1, <1>14, BufferAssumption DEF NoCRLF
  <2> QED  BY <1>1, <1>7, <1>12, <1>13, <1>14, <2>2, <2>3, <2>4 DEF ReqInv, TypeInv
<1>17. PlaceInv'
  <2>1. taken = b + s + f /\ taken <= Len(stream)  BY <1>2, <1>4, <1>9 DEF ReqInv, PlaceInv
  <2>2. b + s + f = b + n + 0 + (m - n) /\ 0 + (m - n) = m - n /\ 0 + BufferSize = BufferSize
    BY <1>3, BufferAssumption
  <2>3. taken' = b + n + seen' + fresh' /\ seen' + fresh' = m - n /\ seen' + left' = BufferSize
    BY <1>1, <1>14, <2>1, <2>2
  <2>4. Len(handled') <= Len(script') /\ \A j \in 1..Len(handled') : handled'[j] = Sent(j)'
    BY <1>1, <1>4, <1>5, <1>12, SameStream
  <2>5. Len(buffer') = seen' + fresh'
        /\ \A k \in 1..(seen' + fresh') : buffer'[k] = stream'[b + n + k]
    BY <1>1, <1>13, <2>3
  <2> QED  BY <1>1, <1>15, <2>1, <2>3, <2>4, <2>5 DEF PlaceInv
<1>18. SearchInv'
  <2>1. \A sh : \A k \in Breaks(sh) : ~(k < 0)  BY DEF Breaks
  <2>2. \A sh, end : Marks(sh, end, 0, NoCRLF)  BY <2>1 DEF Marks
  <2> QED  BY <1>1, <2>2 DEF SearchInv
<1>19. PhaseInv'
  <2>1. CASE fresh' > 0
    BY <1>1, <2>1 DEF PhaseInv
  <2>2. CASE ~(fresh' > 0)
    <3>1. fresh' = 0 /\ pc' = "idle" /\ left' > 0  BY <1>1, <1>14, <2>2, BufferAssumption
    <3>2. ASSUME i < N  PROVE taken < BytesOf(i + 1)
      <4>1. PICK j \in Nat : j = i + 1 /\ j \in 1..N /\ j - 1 = i  BY <1>5, <3>2
      <4>2. script[j] \in Shapes /\ Len(script[j]) \in Nat  BY <1>4, <1>7, <4>1, SentFacts
      <4>3. PICK end \in Nat : Header(script[j], end)  BY <4>2, HeaderExists
      <4>4. end + 1 <= Len(script[j])  BY <4>2, <4>3, HeaderFacts
      <4>5. BytesOf(j) = BytesOf(j - 1) + Len(script[j])  BY <1>4, <1>7, <4>1, BytesFacts
      <4>6. PICK z \in Nat : z = Len(script[j]) /\ z > 0  BY <4>2, <4>4
      <4>7. BytesOf(j) = b + n + z  BY <1>9, <4>1, <4>5, <4>6
      <4>8. m = n
        <5>1. m - n = 0  BY <1>14, <3>1
        <5> QED  BY <5>1
      <4>9. taken = b + s + f  BY <1>2, <1>4, <1>9 DEF ReqInv, PlaceInv
      <4>10. b + s + f < b + n + z
        <5>1. s + f = n  BY <1>3, <4>8
        <5>2. z > 0  BY <4>6
        <5> QED  BY <5>1, <5>2
      <4> QED  BY <4>1, <4>7, <4>9, <4>10
    <3> QED  BY <1>1, <1>4, <1>12, <1>15, <3>1, <3>2 DEF PhaseInv
  <2> QED  BY <2>1, <2>2
<1> QED  BY <1>16, <1>17, <1>18, <1>19 DEF ReqInv

\* The end of a connection, and stuttering, change nothing else.
LEMMA EndStep ==
    ASSUME ReqInv, ReadError \/ TooBig \/ UNCHANGED vars
    PROVE  ReqInv'
<1>1. /\ script' = script /\ stream' = stream /\ taken' = taken /\ buffer' = buffer
      /\ handled' = handled /\ left' = left /\ seen' = seen /\ lastCRLF' = lastCRLF
      /\ fresh' = fresh
  BY DEF ReadError, TooBig, vars, bufferVars
<1>2. /\ BytesOf(Len(handled))' = BytesOf(Len(handled))
      /\ BytesOf(Len(handled) + 1)' = BytesOf(Len(handled) + 1)
  BY <1>1, SameStream
<1>3. TypeInv'
  <2>1. [i \in DOMAIN script |-> Sent(i)]' = [i \in DOMAIN script |-> Sent(i)]
    BY <1>1, SameStream
  <2>2. stream' = FlattenSeq([i \in DOMAIN script |-> Sent(i)]')  BY <1>1, <2>1 DEF ReqInv, TypeInv
  <2>3. pc' \in {"idle", "handle", "dropped", "died"}
    BY DEF ReadError, TooBig, vars, ReqInv, TypeInv
  <2> QED  BY <1>1, <2>2, <2>3 DEF ReqInv, TypeInv
<1>4. PlaceInv'
  <2>1. \A i \in 1..Len(handled') : handled'[i] = Sent(i)'
    BY <1>1, SameStream DEF ReqInv, PlaceInv
  <2> QED  BY <1>1, <1>2, <2>1 DEF ReqInv, PlaceInv
<1>5. SearchInv'  BY <1>1 DEF ReqInv, SearchInv
<1>6. PhaseInv'
  <2>1. CASE ReadError
    BY <2>1 DEF ReadError, PhaseInv
  <2>2. CASE TooBig
    <3>1. PICK s \in Nat, f \in Nat, l \in Int : s = seen /\ f = fresh /\ l = left
      BY DEF ReqInv, TypeInv
    <3>2. s + l = BufferSize /\ f >= l  BY <2>2, <3>1 DEF TooBig, ReqInv, PlaceInv
    <3>3. s + f >= BufferSize  BY <3>1, <3>2, BufferAssumption
    <3> QED  BY <1>1, <2>2, <3>1, <3>3 DEF TooBig, PhaseInv
  <2>3. CASE UNCHANGED vars
    BY <1>1, <1>2, <2>3 DEF vars, ReqInv, PhaseInv
  <2> QED  BY <2>1, <2>2, <2>3
<1> QED  BY <1>3, <1>4, <1>5, <1>6 DEF ReqInv

\* The invariant of the request buffer.
THEOREM ReqInvariant == Spec => []ReqInv
<1>1. Init => ReqInv  BY InitInv
<1>2. ReqInv /\ [Next]_vars => ReqInv'
  <2> SUFFICES ASSUME ReqInv, [Next]_vars  PROVE ReqInv'
    OBVIOUS
  <2>1. CASE \E n \in 1..BufferSize : Read(n)
    BY <2>1, ReadStep
  <2>2. CASE Incomplete
    BY <2>2, IncompleteStep
  <2>3. CASE HandleRequest
    BY <2>3, HandleStep
  <2>4. CASE ReadError \/ TooBig \/ UNCHANGED vars
    BY <2>4, EndStep
  <2> QED  BY <2>1, <2>2, <2>3, <2>4 DEF Next
<1> QED  BY <1>1, <1>2, PTL DEF Spec

-----------------------------------------------------------------------------
(* The properties.                                                         *)

\* In whatever pieces the requests arrive, between two reads just those that have arrived
\* whole have been handled, once each, in order, and each with its own body
\* (src/live/liveMedia/RTSPServer.cpp:864-1157).
THEOREM HandledRight == Spec => []HandledAsSent
<1>1. ReqInv => HandledAsSent
  <2> SUFFICES ASSUME ReqInv  PROVE HandledAsSent
    OBVIOUS
  <2>1. PICK h \in Nat, N \in Nat :
          h = Len(handled) /\ N = Len(script) /\ DOMAIN handled = 1..h /\ DOMAIN script = 1..N /\ h <= N
    BY LenProperties DEF ReqInv, TypeInv, PlaceInv, Script
  <2>2. \A i \in DOMAIN handled : handled[i] = Sent(i)  BY <2>1 DEF ReqInv, PlaceInv
  <2>3. ASSUME pc = "idle"  PROVE h = Cardinality(Whole)
    <3>1. Script(script)  BY DEF ReqInv, TypeInv
    <3>2. /\ \A i \in 0..N : BytesOf(i) \in Nat
          /\ \A i, j \in 0..N : i <= j => BytesOf(i) <= BytesOf(j)
      BY <2>1, <3>1, BytesFacts
    <3>3. PICK t \in Nat, s \in Nat, f \in Nat : t = taken /\ s = seen /\ f = fresh
      BY DEF ReqInv, TypeInv
    <3>4. BytesOf(h) <= t
      <4>1. h \in 0..N  BY <2>1
      <4>2. PICK b \in Nat : b = BytesOf(h)  BY <3>2, <4>1
      <4>3. t = b + s + f  BY <2>1, <3>3, <4>2 DEF ReqInv, PlaceInv
      <4> QED  BY <4>2, <4>3
    <3>5. h < N => t < BytesOf(h + 1)  BY <2>1, <2>3, <3>3 DEF ReqInv, PhaseInv
    <3>6. ASSUME NEW i \in 1..N  PROVE BytesOf(i) <= t <=> i <= h
      <4>1. i \in 0..N /\ h \in 0..N  BY <2>1
      <4>2. PICK x \in Nat, b \in Nat : x = BytesOf(i) /\ b = BytesOf(h)  BY <3>2, <4>1
      <4>3. CASE i <= h
        <5>1. x <= b /\ b <= t  BY <3>2, <3>4, <4>1, <4>2, <4>3
        <5>2. x <= t  BY <5>1
        <5> QED  BY <4>2, <4>3, <5>2
      <4>4. CASE ~(i <= h)
        <5>1. h < N /\ h + 1 \in 0..N /\ h + 1 <= i  BY <2>1, <4>4
        <5>2. PICK y \in Nat : y = BytesOf(h + 1) /\ y <= x /\ t < y
          BY <3>2, <3>5, <4>1, <4>2, <5>1
        <5>3. ~(x <= t)  BY <5>2
        <5> QED  BY <4>2, <4>4, <5>3
      <4> QED  BY <4>3, <4>4
    <3>7. Whole = 1..h
      <4>1. Whole = {i \in 1..N : BytesOf(i) <= t}  BY <2>1, <3>3 DEF Whole
      <4>2. \A i \in 1..h : i \in 1..N  BY <2>1
      <4>3. Whole = {i \in 1..N : i <= h}  BY <3>6, <4>1
      <4> QED  BY <4>2, <4>3
    <3>8. Cardinality(1..h) = h
      <4>1. Cardinality(1..h) = IF 1 > h THEN 0 ELSE h - 1 + 1  BY FS_Interval
      <4> QED  BY <4>1
    <3> QED  BY <3>7, <3>8
  <2> QED  BY <2>1, <2>2, <2>3 DEF HandledAsSent
<1> QED  BY <1>1, ReqInvariant, PTL

\* The buffer's two counters and its contents agree: it holds what has been read of the
\* requests that are still to be handled, there is always room for a read, and for the byte
\* that ends the string (src/live/liveMedia/RTSPServer.cpp:946-952).
THEOREM KeptRight == Spec => []BufferKept
<1>1. ReqInv => BufferKept
  <2> SUFFICES ASSUME ReqInv  PROVE BufferKept
    OBVIOUS
  <2>1. seen + left = BufferSize /\ (pc = "idle" => left > 0)  BY DEF ReqInv, PlaceInv, PhaseInv
  <2>2. ASSUME pc = "idle"
        PROVE  SubSeq(buffer, 1, seen) = SubSeq(stream, BytesOf(Len(handled)) + 1, taken)
    <3>1. PICK s \in Nat, t \in Nat, L \in Nat :
            s = seen /\ t = taken /\ L = Len(stream) /\ stream \in Seq(Byte) /\ buffer \in Seq(Byte)
      BY StreamFacts, LenProperties DEF ReqInv, TypeInv
    <3>2. fresh = 0  BY <2>2 DEF ReqInv, PhaseInv
    <3>3. PICK b \in Nat : b = BytesOf(Len(handled))
      <4>1. Len(handled) \in 0..Len(script)
        BY LenProperties DEF ReqInv, TypeInv, PlaceInv, Script
      <4> QED  BY <4>1, BytesFacts DEF ReqInv, TypeInv
    <3>4. t = b + s /\ b + s <= L /\ Len(buffer) = s /\ \A k \in 1..s : buffer[k] = stream[b + k]
      <4>1. t = b + s + 0 /\ t <= L /\ Len(buffer) = s + 0
            /\ \A k \in 1..(s + 0) : buffer[k] = stream[b + k]
        BY <3>1, <3>2, <3>3 DEF ReqInv, PlaceInv
      <4> QED  BY <4>1
    <3> DEFINE p == SubSeq(buffer, 1, s)
               q == SubSeq(stream, b + 1, t)
    <3>5. p \in Seq(Byte) /\ Len(p) = s /\ \A k \in 1..s : p[k] = buffer[k]
      <4>1. \A k \in 1..s : buffer[k] \in Byte  BY <3>1, <3>4, ElementOfSeq
      <4>2. p \in Seq(Byte) /\ Len(p) = (IF 1 <= s THEN s - 1 + 1 ELSE 0)
        BY <4>1, SubSeqProperties
      <4>3. \A k \in 1..(s - 1 + 1) : p[k] = buffer[1 + k - 1]  BY <4>1, SubSeqProperties
      <4>4. (IF 1 <= s THEN s - 1 + 1 ELSE 0) = s /\ s - 1 + 1 = s /\ \A k \in 1..s : 1 + k - 1 = k
        OBVIOUS
      <4> HIDE DEF p
      <4> QED  BY <4>2, <4>3, <4>4
    <3>6. q \in Seq(Byte) /\ Len(q) = s /\ \A k \in 1..s : q[k] = stream[b + k]
      <4>1. PICK x \in Int : x = b + 1  OBVIOUS
      <4>2. \A k \in x..t : k \in 1..L /\ stream[k] \in Byte
        <5>1. \A k \in x..t : k \in 1..L  BY <3>4, <4>1
        <5> QED  BY <3>1, <5>1, ElementOfSeq
      <4>3. SubSeq(stream, x, t) \in Seq(Byte) /\ Len(SubSeq(stream, x, t)) = (IF x <= t THEN t - x + 1 ELSE 0)
        BY <4>2, SubSeqProperties
      <4>4. \A k \in 1..(t - x + 1) : SubSeq(stream, x, t)[k] = stream[x + k - 1]
        BY <4>2, SubSeqProperties
      <4>5. (IF x <= t THEN t - x + 1 ELSE 0) = s /\ t - x + 1 = s /\ \A k \in 1..s : x + k - 1 = b + k
        BY <3>4, <4>1
      <4>6. q = SubSeq(stream, x, t)  BY <4>1
      <4> HIDE DEF q
      <4> QED  BY <4>3, <4>4, <4>5, <4>6
    <3> HIDE DEF p, q
    <3>7. p = q  BY <3>4, <3>5, <3>6, SeqEqual
    <3> QED  BY <3>1, <3>3, <3>7 DEF p, q
  <2> QED  BY <2>1, <2>2 DEF BufferKept
<1> QED  BY <1>1, ReqInvariant, PTL

\* A connection is only terminated with as many bytes read since the last request as the
\* buffer holds (src/live/liveMedia/RTSPServer.cpp:871-879).
THEOREM DroppedFull == Spec => []DroppedWhenFull
<1>1. ReqInv => DroppedWhenFull
  <2> SUFFICES ASSUME ReqInv, pc = "dropped"
               PROVE  taken - BytesOf(Len(handled)) >= BufferSize
    BY DEF DroppedWhenFull
  <2>1. PICK s \in Nat, f \in Nat : s = seen /\ f = fresh  BY DEF ReqInv, TypeInv
  <2>2. PICK b \in Nat : b = BytesOf(Len(handled))
    <3>1. Len(handled) \in 0..Len(script)
      BY LenProperties DEF ReqInv, TypeInv, PlaceInv, Script
    <3> QED  BY <3>1, BytesFacts DEF ReqInv, TypeInv
  <2>3. taken = b + s + f  BY <2>1, <2>2 DEF ReqInv, PlaceInv
  <2>4. s + f >= BufferSize  BY <2>1 DEF ReqInv, PhaseInv
  <2>5. b + s + f - b >= BufferSize  BY <2>4, BufferAssumption
  <2> QED  BY <2>2, <2>3, <2>5
<1> QED  BY <1>1, ReqInvariant, PTL
=============================================================================
