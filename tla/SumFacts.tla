------------------------------ MODULE SumFacts ------------------------------
(***************************************************************************)
(* Facts about sums over lists of any length, which the proofs about       *)
(* DelayQueue (when an alarm is due) and RequestBuffer (where a request    *)
(* begins) need.  They rest on the fact that a set of numbers has a least  *)
(* one: the first place at which a statement fails cannot exist.           *)
(***************************************************************************)
EXTENDS Integers, FiniteSetTheorems, TLAPS

\* A set of natural numbers that is not empty has a least element.
LEMMA LeastNumber ==
    ASSUME NEW T \in SUBSET Nat, T # {}
    PROVE  \E x \in T : \A y \in T : x <= y
<1> DEFINE R == StrictSubsetOrdering(Nat)
           U == {0..n : n \in T}
<1>1. IsWellFoundedOn(R, FiniteSubsetsOf(Nat))  BY FS_StrictSubsetOrderingWellFounded
<1>2. U \subseteq FiniteSubsetsOf(Nat) /\ U # {}
  <2>1. \A n \in Nat : IsFiniteSet(0..n) /\ 0..n \in SUBSET Nat  BY FS_Interval
  <2> QED  BY <2>1 DEF FiniteSubsetsOf
<1>3. PICK u \in U : \A v \in U : ~(<<v, u>> \in R)
  <2> HIDE DEF U, R
  <2> QED  BY <1>1, <1>2, WFMin
<1>4. PICK n \in T : u = 0..n  OBVIOUS
<1>5. ASSUME NEW m \in T, ~(n <= m)  PROVE FALSE
  <2>1. 0..m \in SUBSET Nat /\ 0..n \in SUBSET Nat /\ 0..m \subseteq 0..n /\ 0..m # 0..n
    BY <1>5
  <2>2. <<0..m, 0..n>> \in R  BY <2>1 DEF StrictSubsetOrdering
  <2> QED  BY <1>3, <1>4, <2>2
<1> QED  BY <1>5

\* A set of natural numbers with a bound, if it is not empty, has a greatest element.
LEMMA GreatestNumber ==
    ASSUME NEW n \in Nat, NEW T \in SUBSET (0..n), T # {}
    PROVE  \E x \in T : \A y \in T : x >= y
<1> DEFINE U == {u \in 0..n : n - u \in T}
<1>1. U \in SUBSET Nat /\ U # {}
  <2>1. PICK y \in T : TRUE  OBVIOUS
  <2>2. n - y \in 0..n /\ n - (n - y) = y  OBVIOUS
  <2>3. n - y \in U  BY <2>2
  <2>4. U \in SUBSET Nat  OBVIOUS
  <2> HIDE DEF U
  <2> QED  BY <2>3, <2>4
<1>2. PICK u \in U : \A v \in U : u <= v
  <2> HIDE DEF U
  <2> QED  BY <1>1, LeastNumber
<1>3. n - u \in T /\ u \in 0..n  OBVIOUS
<1>4. ASSUME NEW y \in T  PROVE n - u >= y
  <2>1. n - y \in 0..n /\ n - (n - y) = y /\ y \in 0..n  OBVIOUS
  <2>2. u <= n - y  BY <1>2, <2>1
  <2> QED  BY <1>3, <2>1, <2>2
<1> QED  BY <1>3, <1>4

-----------------------------------------------------------------------------
\* f sums up the first n values of d.
Sums(d, n, f) == f = [k \in 0..n |-> IF k = 0 THEN 0 ELSE f[k - 1] + d[k]]

\* The recursion of such a function, value by value.
LEMMA SumsStep ==
    ASSUME NEW d, NEW n \in Nat, NEW f, Sums(d, n, f)
    PROVE  f[0] = 0 /\ \A k \in 1..n : f[k] = f[k - 1] + d[k]
<1> DEFINE g == [k \in 0..n |-> IF k = 0 THEN 0 ELSE f[k - 1] + d[k]]
<1>1. f = g  BY DEF Sums
<1>2. g[0] = 0 /\ \A k \in 1..n : g[k] = f[k - 1] + d[k]  OBVIOUS
<1> HIDE DEF g
<1> QED  BY <1>1, <1>2

\* There is such a function for every list of integers.
LEMMA SumsExist ==
    ASSUME NEW d, NEW n \in Nat, \A i \in 1..n : d[i] \in Int
    PROVE  \E f \in [0..n -> Int] : Sums(d, n, f)
<1> DEFINE Bad == {m \in 0..n : ~\E f \in [0..m -> Int] : Sums(d, m, f)}
<1> SUFFICES Bad = {}
  OBVIOUS
<1> SUFFICES ASSUME Bad # {}  PROVE FALSE
  OBVIOUS
<1>1. PICK m \in Bad : \A y \in Bad : m <= y
  <2>1. Bad \in SUBSET Nat  OBVIOUS
  <2> HIDE DEF Bad
  <2> QED  BY <2>1, LeastNumber
<1>2. m # 0
  <2>1. [k \in 0..0 |-> 0] \in [0..0 -> Int] /\ Sums(d, 0, [k \in 0..0 |-> 0])  BY DEF Sums
  <2> QED  BY <2>1
<1>3. m - 1 \in 0..n /\ m - 1 \in Nat /\ m - 1 \notin Bad  BY <1>1, <1>2
<1>4. PICK f \in [0..(m - 1) -> Int] : Sums(d, m - 1, f)  BY <1>3
<1> DEFINE g == [k \in 0..m |-> IF k = m THEN f[m - 1] + d[m] ELSE f[k]]
<1>5. f[0] = 0 /\ \A k \in 1..(m - 1) : f[k] = f[k - 1] + d[k]
  <2> HIDE DEF Bad
  <2> QED  BY <1>3, <1>4, SumsStep
<1>6. g \in [0..m -> Int]  BY <1>2, <1>4
<1>7. Sums(d, m, g)
  <2>1. ASSUME NEW k \in 0..m  PROVE g[k] = IF k = 0 THEN 0 ELSE g[k - 1] + d[k]
    <3>1. CASE k = 0
      BY <1>2, <1>5, <3>1
    <3>2. CASE k = m
      <4>1. m - 1 \in 0..m /\ m - 1 # m  BY <1>2
      <4> QED  BY <1>2, <3>2, <4>1
    <3>3. CASE k # 0 /\ k # m
      <4>1. k \in 1..(m - 1) /\ k - 1 \in 0..m /\ k - 1 # m  BY <3>3
      <4> QED  BY <1>5, <3>3, <4>1
    <3> QED  BY <3>1, <3>2, <3>3
  <2> HIDE DEF g
  <2> QED  BY <1>6, <2>1 DEF Sums
<1>8. m \in 0..n /\ ~\E h \in [0..m -> Int] : Sums(d, m, h)  BY <1>1
<1> QED  BY <1>6, <1>7, <1>8

\* Sums up to different places agree where both are defined.
LEMMA SumsAgree ==
    ASSUME NEW d, NEW n \in Nat, \A i \in 1..n : d[i] \in Int,
           NEW T \in [0..n -> Int], T[0] = 0, \A k \in 1..n : T[k] = T[k - 1] + d[k],
           NEW m \in 0..n, NEW f, Sums(d, m, f)
    PROVE  f[m] = T[m]
<1>1. \A i \in 1..m : i \in 1..n  OBVIOUS
<1>2. f[0] = 0 /\ \A k \in 1..m : f[k] = f[k - 1] + d[k]  BY SumsStep
<1> DEFINE Bad == {k \in 0..m : f[k] # T[k]}
<1>3. Bad = {}
  <2> SUFFICES ASSUME Bad # {}  PROVE FALSE
    OBVIOUS
  <2>1. PICK k \in Bad : \A y \in Bad : k <= y
    <3>1. Bad \in SUBSET Nat  OBVIOUS
    <3> HIDE DEF Bad
    <3> QED  BY <3>1, LeastNumber
  <2>2. k # 0  BY <1>2, <2>1
  <2>3. k \in 1..m /\ k - 1 \in 0..m /\ k - 1 \notin Bad  BY <2>1, <2>2
  <2>4. f[k] = f[k - 1] + d[k] /\ T[k] = T[k - 1] + d[k]  BY <1>1, <1>2, <2>3
  <2>5. f[k - 1] = T[k - 1] /\ f[k] # T[k]  BY <2>1, <2>3
  <2> QED  BY <2>4, <2>5
<1>4. m \in 0..m  OBVIOUS
<1> QED  BY <1>3, <1>4

\* Sums of natural numbers never decrease.
LEMMA SumsGrow ==
    ASSUME NEW d, NEW n \in Nat, \A i \in 1..n : d[i] \in Nat,
           NEW T \in [0..n -> Int], T[0] = 0, \A k \in 1..n : T[k] = T[k - 1] + d[k]
    PROVE  /\ \A k \in 0..n : T[k] \in Nat
           /\ \A i, j \in 0..n : i <= j => T[i] <= T[j]
<1> DEFINE Bad == {j \in 0..n : \E i \in 0..n : i <= j /\ ~(T[i] <= T[j])}
<1>1. Bad = {}
  <2> SUFFICES ASSUME Bad # {}  PROVE FALSE
    OBVIOUS
  <2>1. PICK j \in Bad : \A y \in Bad : j <= y
    <3>1. Bad \in SUBSET Nat  OBVIOUS
    <3> HIDE DEF Bad
    <3> QED  BY <3>1, LeastNumber
  <2>2. PICK i \in 0..n : i <= j /\ ~(T[i] <= T[j])  BY <2>1
  <2>3. i # j /\ j - 1 \in 0..n /\ j \in 1..n /\ i <= j - 1  BY <2>2
  <2>4. j - 1 \notin Bad  BY <2>1
  <2>5. T[i] <= T[j - 1]  BY <2>3, <2>4
  <2>6. T[j] = T[j - 1] + d[j] /\ d[j] \in Nat  BY <2>3
  <2>7. PICK x \in Int, y \in Int, z \in Int, e \in Nat :
           x = T[i] /\ y = T[j - 1] /\ z = T[j] /\ e = d[j]
    BY <2>3
  <2>8. x <= y /\ z = y + e /\ ~(x <= z)  BY <2>2, <2>5, <2>6, <2>7
  <2> QED  BY <2>8
<1>2. \A i, j \in 0..n : i <= j => T[i] <= T[j]  BY <1>1
<1>3. ASSUME NEW k \in 0..n  PROVE T[k] \in Nat
  <2>1. T[0] <= T[k]  BY <1>2
  <2> QED  BY <2>1
<1> QED  BY <1>2, <1>3
=============================================================================
