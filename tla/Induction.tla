------------------------------ MODULE Induction ------------------------------
(* What the proofs about lists need and the library states for operators      *)
(* only: the naturals are well ordered, so a set of them that has 0 and every *)
(* successor is all of them; a recursion over the prefixes of a list defines  *)
(* a function; and so what Lists' sort and sum return.                        *)
EXTENDS Lists, FiniteSetTheorems, TLAPS

\* Of the sets 0..n a smallest one exists, for they are finite.
LEMMA LeastElement ==
    ASSUME NEW T, T \subseteq Nat, T # {}
    PROVE  \E n \in T : \A m \in T : n <= m
<1> DEFINE F == {0..m : m \in T}
<1>1. F \subseteq FiniteSubsetsOf(Nat)
  <2>1. ASSUME NEW m \in T PROVE 0..m \in SUBSET Nat /\ IsFiniteSet(0..m)
      BY FS_Interval
  <2> QED
      BY <2>1 DEF FiniteSubsetsOf
<1>2. F # {}
    OBVIOUS
<1> HIDE DEF F
<1>3. PICK x \in F : \A y \in F : ~(<<y, x>> \in StrictSubsetOrdering(Nat))
    BY <1>1, <1>2, WFMin, FS_StrictSubsetOrderingWellFounded
<1>4. PICK n \in T : x = 0..n
    BY DEF F
<1>5. ASSUME NEW m \in T, m < n PROVE FALSE
  <2>1. n \in 0..n /\ n \notin 0..m
      BY <1>5
  <2>2. 0..m \in SUBSET Nat /\ 0..n \in SUBSET Nat /\ 0..m \subseteq 0..n /\ 0..m # 0..n
      BY <1>5, <2>1
  <2>3. <<0..m, 0..n>> \in StrictSubsetOrdering(Nat)
      BY <2>2 DEF StrictSubsetOrdering
  <2>4. 0..m \in F
      BY DEF F
  <2> QED
      BY <2>3, <2>4, <1>3, <1>4
<1> QED
    BY <1>5

\* A set of naturals that has 0 and every successor is all of them.
LEMMA NatIsInductive ==
    ASSUME NEW S, 0 \in S, \A n \in Nat : n \in S => n + 1 \in S
    PROVE  \A n \in Nat : n \in S
<1>1. SUFFICES ASSUME Nat \ S # {} PROVE FALSE
    OBVIOUS
<1>2. PICK n \in Nat \ S : \A m \in Nat \ S : n <= m
    BY <1>1, LeastElement
<1>3. n - 1 \in Nat /\ n - 1 \in S
    BY <1>2
<1> QED
    BY <1>2, <1>3

\* Finitely many naturals can be put in order: the least one first, then the others.
LEMMA InOrder ==
    ASSUME NEW S, S \subseteq Nat, IsFiniteSet(S)
    PROVE  \E q \in [1..Cardinality(S) -> S] : \A i, j \in DOMAIN q : i < j => q[i] < q[j]
<1> DEFINE Rises(q) == \A i, j \in DOMAIN q : i < j => q[i] < q[j]
           Sized(n) == {T \in SUBSET Nat : IsFiniteSet(T) /\ Cardinality(T) = n}
           D == {n \in Nat : \A T \in Sized(n) : \E q \in [1..n -> T] : Rises(q)}
<1>1. 0 \in D
  <2>1. \A T : \A q \in [1..0 -> T] : Rises(q)
      OBVIOUS
  <2>2. \A T : [i \in 1..0 |-> 0] \in [1..0 -> T]
      OBVIOUS
  <2> HIDE DEF Rises
  <2> QED
      BY <2>1, <2>2
<1>2. ASSUME NEW n \in Nat, n \in D PROVE n + 1 \in D
  <2> SUFFICES ASSUME NEW T \in Sized(n + 1) PROVE \E q \in [1..(n + 1) -> T] : Rises(q)
      OBVIOUS
  <2>1. T \subseteq Nat /\ IsFiniteSet(T) /\ Cardinality(T) = n + 1
      OBVIOUS
  <2>0. T # {}
      BY <2>1, FS_EmptySet
  <2>2. PICK least \in T : \A m \in T : least <= m
      BY <2>0, <2>1, LeastElement
  <2>3. T \ {least} \in Sized(n)
    <3>1. IsFiniteSet(T \ {least}) /\ Cardinality(T \ {least}) = Cardinality(T) - 1
        BY <2>1, FS_RemoveElement
    <3>2. Cardinality(T \ {least}) = n
        BY <2>1, <3>1
    <3> QED
        BY <2>1, <3>1, <3>2
  <2>4. PICK p \in [1..n -> T \ {least}] : Rises(p)
      BY <1>2, <2>3
  <2> DEFINE q == [i \in 1..(n + 1) |-> IF i = 1 THEN least ELSE p[i - 1]]
  <2>5. q \in [1..(n + 1) -> T]
      BY <2>2
  <2>6. Rises(q)
    <3> SUFFICES ASSUME NEW i \in 1..(n + 1), NEW j \in 1..(n + 1), i < j PROVE q[i] < q[j]
        OBVIOUS
    <3>1. j - 1 \in 1..n /\ q[j] = p[j - 1] /\ p[j - 1] \in T \ {least}
        OBVIOUS
    <3>2. CASE i = 1
      <4>1. q[i] = least /\ least \in Nat /\ p[j - 1] \in Nat /\ least <= p[j - 1] /\ least # p[j - 1]
          BY <2>1, <2>2, <3>1, <3>2
      <4> QED
          BY <3>1, <4>1
    <3>3. CASE i # 1
      <4>1. i - 1 \in 1..n /\ q[i] = p[i - 1] /\ i - 1 < j - 1
          BY <3>3
      <4> QED
          BY <2>4, <3>1, <4>1
    <3> QED
        BY <3>2, <3>3
  <2> QED
      BY <2>5, <2>6
<1> HIDE DEF D
<1>3. \A n \in Nat : n \in D
    BY <1>1, <1>2, NatIsInductive
<1>4. Cardinality(S) \in D
    BY <1>3, FS_CardinalityType
<1> QED
    BY <1>4 DEF D

\* Put in order, they are all there.
LEMMA AllInOrder ==
    ASSUME NEW S, S \subseteq Nat, IsFiniteSet(S),
           NEW q \in [1..Cardinality(S) -> S], \A i, j \in DOMAIN q : i < j => q[i] < q[j]
    PROVE  \A s \in S : \E i \in DOMAIN q : q[i] = s
<1>1. Cardinality(S) \in Nat
    BY FS_CardinalityType
<1>2. \A i, j \in 1..Cardinality(S) : q[i] = q[j] => i = j
  <2> SUFFICES ASSUME NEW i \in 1..Cardinality(S), NEW j \in 1..Cardinality(S), i < j PROVE q[i] # q[j]
      BY <1>1
  <2>1. q[i] < q[j] /\ q[i] \in Nat /\ q[j] \in Nat
      OBVIOUS
  <2> QED
      BY <2>1
<1>3. q \in Injection(1..Cardinality(S), S)
    BY <1>2 DEF Injection, IsInjective
<1>4. Cardinality(1..Cardinality(S)) = Cardinality(S)
    BY <1>1, FS_Interval
<1>5. q \in Surjection(1..Cardinality(S), S)
    BY <1>3, <1>4, FS_Injection
<1> QED
    BY <1>5 DEF Surjection

LEMMA BijectionExists ==
    ASSUME NEW S, NEW T, NEW f \in [S -> T],
           \A x, y \in S : f[x] = f[y] => x = y, \A t \in T : \E x \in S : f[x] = t
    PROVE  ExistsBijection(S, T)
    BY DEF ExistsBijection, Bijection, Injection, Surjection, IsInjective

\* Samples at different times, in the order of time.
LEMMA ByTimeIs ==
    ASSUME NEW S, IsFiniteSet(S), \A s \in S : s.at \in Nat, \A r, s \in S : r.at = s.at => r = s
    PROVE  /\ Cardinality(S) \in Nat /\ ByTime(S) \in [1..Cardinality(S) -> S]
           /\ \A i, j \in 1..Cardinality(S) : i < j => ByTime(S)[i].at < ByTime(S)[j].at
           /\ \A s \in S : \E i \in 1..Cardinality(S) : ByTime(S)[i] = s
<1> DEFINE A == {s.at : s \in S}
           n == Cardinality(S)
           f == [s \in S |-> s.at]
<1>1. ExistsBijection(S, A)
  <2>1. f \in [S -> A] /\ \A x \in S : f[x] = x.at
      OBVIOUS
  <2>2. \A t \in A : \E x \in S : f[x] = t
      OBVIOUS
  <2>3. \A x, y \in S : f[x] = f[y] => x = y
      BY <2>1
  <2> HIDE DEF f, A
  <2> QED
      BY <2>1, <2>2, <2>3, BijectionExists
<1>2. IsFiniteSet(A) /\ Cardinality(A) = n /\ A \subseteq Nat /\ n \in Nat
    BY <1>1, FS_Bijection, FS_CardinalityType
<1>3. PICK q \in [1..n -> A] : \A i, j \in 1..n : i < j => q[i] < q[j]
  <2> HIDE DEF A
  <2>1. \E q \in [1..Cardinality(A) -> A] : \A i, j \in DOMAIN q : i < j => q[i] < q[j]
      BY <1>2, InOrder
  <2> QED
      BY <1>2, <2>1
<1>4. \A a \in A : \E i \in 1..n : q[i] = a
  <2> HIDE DEF A
  <2>1. q \in [1..Cardinality(A) -> A] /\ \A i, j \in DOMAIN q : i < j => q[i] < q[j]
      BY <1>2, <1>3
  <2>2. \A a \in A : \E i \in DOMAIN q : q[i] = a
      BY <1>2, <2>1, AllInOrder
  <2> QED
      BY <2>2
<1> DEFINE g == [i \in 1..n |-> CHOOSE s \in S : s.at = q[i]]
<1>5. g \in [1..n -> S] /\ \A i \in 1..n : g[i].at = q[i]
  <2>1. ASSUME NEW i \in 1..n PROVE \E s \in S : s.at = q[i]
      BY <1>3
  <2> QED
      BY <2>1
<1>6. \A s \in S : \E i \in 1..n : g[i] = s
    BY <1>3, <1>4, <1>5
<1>7. \A i, j \in 1..n : i < j => g[i].at < g[j].at
    BY <1>3, <1>5
<1>8. \A i, j \in 1..n : g[i].at < g[j].at => i < j
  <2> SUFFICES ASSUME NEW i \in 1..n, NEW j \in 1..n, g[i].at < g[j].at, ~(i < j) PROVE FALSE
      OBVIOUS
  <2>1. g[i].at \in Nat /\ g[j].at \in Nat
      BY <1>5
  <2>2. CASE i = j
      BY <2>1, <2>2
  <2>3. CASE j < i
      BY <1>7, <2>1, <2>3
  <2> QED
      BY <1>2, <2>2, <2>3
<1> HIDE DEF g, A
<1> DEFINE Before(s) == {r \in S : r.at < s.at}
<1>9. ASSUME NEW i \in 1..n PROVE Cardinality(Before(g[i])) = i - 1
  <2> DEFINE h == [j \in 1..(i - 1) |-> g[j]]
  <2>1. i - 1 \in Nat /\ \A j \in 1..(i - 1) : j \in 1..n /\ j < i
      BY <1>2
  <2>2. h \in [1..(i - 1) -> Before(g[i])] /\ \A j \in 1..(i - 1) : h[j] = g[j]
      BY <1>5, <1>7, <2>1
  <2>3. \A j, k \in 1..(i - 1) : h[j] = h[k] => j = k
    <3> SUFFICES ASSUME NEW j \in 1..(i - 1), NEW k \in 1..(i - 1), g[j] = g[k], j # k PROVE FALSE
        BY <2>2
    <3>1. j < k \/ k < j
        OBVIOUS
    <3>2. g[j].at < g[k].at \/ g[k].at < g[j].at
        BY <1>7, <2>1, <3>1
    <3>3. g[j].at \in Nat /\ g[k].at \in Nat
        BY <1>5, <2>1
    <3> QED
        BY <3>2, <3>3
  <2>4. \A t \in Before(g[i]) : \E j \in 1..(i - 1) : h[j] = t
    <3> SUFFICES ASSUME NEW t \in Before(g[i]) PROVE \E j \in 1..(i - 1) : g[j] = t
        BY <2>2
    <3>1. PICK j \in 1..n : g[j] = t
        BY <1>6
    <3>2. j < i
        BY <1>8, <3>1
    <3> QED
        BY <3>1, <3>2
  <2> HIDE DEF h, Before
  <2>5. ExistsBijection(1..(i - 1), Before(g[i]))
      BY <2>2, <2>3, <2>4, BijectionExists
  <2> QED
      BY <2>1, <2>5, FS_CountingElements
<1> HIDE DEF Before
<1>10. ASSUME NEW i \in 1..n PROVE (CHOOSE s \in S : Cardinality(Before(s)) = i - 1) = g[i]
  <2>1. g[i] \in S /\ Cardinality(Before(g[i])) = i - 1
      BY <1>5, <1>9
  <2>2. ASSUME NEW s \in S, Cardinality(Before(s)) = i - 1 PROVE s = g[i]
    <3>1. PICK j \in 1..n : g[j] = s
        BY <1>6
    <3>2. j - 1 = i - 1
        BY <1>9, <2>2, <3>1
    <3> QED
        BY <3>1, <3>2
  <2> QED
      BY <2>1, <2>2
<1>11. ByTime(S) = g
  <2>1. ByTime(S) = [i \in 1..n |-> CHOOSE s \in S : Cardinality(Before(s)) = i - 1]
      BY DEF ByTime, Before
  <2>2. ByTime(S) = [i \in 1..n |-> g[i]]
      BY <1>10, <2>1
  <2> QED
      BY <1>5, <2>2
<1> QED
    BY <1>2, <1>5, <1>6, <1>7, <1>11

-----------------------------------------------------------------------------
\* A recursion over 0..n that stays in S, with its step as a function, defines one.
StaysIn(S, step, n) == \A k \in 1..n : \A x \in S : step[<<k, x>>] \in S
Recursion(S, base, step, n, f) ==
    f \in [0..n -> S] /\ f[0] = base /\ \A k \in 1..n : f[k] = step[<<k, f[k - 1]>>]

LEMMA RecursionExists ==
    ASSUME NEW S, NEW base \in S, NEW step, NEW n \in Nat, StaysIn(S, step, n)
    PROVE  \E f : Recursion(S, base, step, n, f)
<1> DEFINE Fits(f, m) == f[0] = base /\ \A k \in 1..m : f[k] = step[<<k, f[k - 1]>>]
           D == {m \in Nat : m <= n => \E f \in [0..m -> S] : Fits(f, m)}
<1>1. 0 \in D
  <2>1. [k \in 0..0 |-> base] \in [0..0 -> S] /\ Fits([k \in 0..0 |-> base], 0)
      OBVIOUS
  <2> QED
      BY <2>1
<1>2. ASSUME NEW m \in Nat, m \in D PROVE m + 1 \in D
  <2> SUFFICES ASSUME m + 1 <= n PROVE \E f \in [0..(m + 1) -> S] : Fits(f, m + 1)
      OBVIOUS
  <2>1. PICK f \in [0..m -> S] : Fits(f, m)
      BY <1>2
  <2> DEFINE x == step[<<m + 1, f[m]>>]
             g == [k \in 0..(m + 1) |-> IF k = m + 1 THEN x ELSE f[k]]
  <2>2. x \in S
      BY <2>1 DEF StaysIn
  <2>3. g \in [0..(m + 1) -> S] /\ g[m + 1] = x /\ \A k \in 0..m : g[k] = f[k]
      BY <2>1, <2>2
  <2> HIDE DEF g
  <2>4. ASSUME NEW k \in 1..(m + 1) PROVE g[k] = step[<<k, g[k - 1]>>]
    <3>1. CASE k = m + 1
      <4>1. k - 1 = m /\ m \in 0..m
          BY <3>1
      <4> QED
          BY <2>3, <3>1, <4>1
    <3>2. CASE k # m + 1
      <4>1. k \in 1..m /\ k \in 0..m /\ k - 1 \in 0..m
          BY <3>2
      <4> QED
          BY <2>1, <2>3, <4>1
    <3> QED
        BY <3>1, <3>2
  <2>5. g[0] = base
      BY <2>1, <2>3
  <2> QED
      BY <2>3, <2>4, <2>5
<1> HIDE DEF D
<1>3. n \in D
    BY <1>1, <1>2, NatIsInductive
<1> QED
    BY <1>3 DEF D, Recursion

\* What a sum is made of.
TotalStep(q, f, i) == IF i = 0 THEN 0 ELSE f[i - 1] + q[i]
AddsUp(q, f) == f = [i \in 0..Len(q) |-> TotalStep(q, f, i)]
Totals(q, f) ==
    /\ f[0] = 0
    /\ \A k \in 1..Len(q) : f[k] = f[k - 1] + q[k]
    /\ \A k \in 0..Len(q) : f[k] \in Int

LEMMA TotalIs ==
    ASSUME NEW q, Len(q) \in Nat, \A k \in 1..Len(q) : q[k] \in Int
    PROVE  \E f : Totals(q, f) /\ Total(q) = f[Len(q)]
<1> DEFINE Z == Int
           n == Len(q)
           step == [p \in (1..n) \X Z |-> p[2] + q[p[1]]]
<1>1. n \in Nat /\ \A k \in 1..n : \A x \in Z : step[<<k, x>>] = x + q[k] /\ x + q[k] \in Z
    OBVIOUS
<1>2. 0 \in Z
    OBVIOUS
<1> HIDE DEF step, n, Z
<1>3. StaysIn(Z, step, n)
    BY <1>1 DEF StaysIn
<1>4. PICK f : Recursion(Z, 0, step, n, f)
    BY <1>1, <1>2, <1>3, RecursionExists
<1>5. f \in [0..n -> Z] /\ f[0] = 0 /\ \A k \in 1..n : f[k] = step[<<k, f[k - 1]>>]
    BY <1>4 DEF Recursion
<1>6. ASSUME NEW k \in 1..n PROVE f[k] = f[k - 1] + q[k]
  <2>1. k - 1 \in 0..n
      BY <1>1
  <2> QED
      BY <1>1, <1>5, <2>1
<1>7. ASSUME NEW k \in 0..n PROVE f[k] = TotalStep(q, f, k)
    BY <1>1, <1>5, <1>6 DEF TotalStep
<1>8. f = [k \in 0..n |-> f[k]]
    BY <1>5
<1>9. AddsUp(q, f)
    BY <1>7, <1>8 DEF AddsUp, n
<1> DEFINE g == CHOOSE h : AddsUp(q, h)
<1>10. AddsUp(q, g)
    BY <1>9
<1>11. Total(q) = g[n]
    BY DEF Total, AddsUp, TotalStep, n
<1> HIDE DEF g
<1>12. g[0] = 0 /\ \A k \in 1..n : g[k] = g[k - 1] + q[k]
    BY <1>1, <1>10 DEF AddsUp, TotalStep, n
<1> DEFINE D == {k \in Nat : k <= n => g[k] \in Z}
<1>13. 0 \in D
    BY <1>2, <1>12
<1>14. ASSUME NEW k \in Nat, k \in D PROVE k + 1 \in D
  <2> SUFFICES ASSUME k + 1 <= n PROVE g[k + 1] \in Z
      OBVIOUS
  <2>1. g[k] \in Z /\ k + 1 \in 1..n /\ (k + 1) - 1 = k
      BY <1>1, <1>14
  <2>2. g[k + 1] = g[k] + q[k + 1]
      BY <1>12, <2>1
  <2> QED
      BY <1>1, <2>1, <2>2
<1> HIDE DEF D
<1>15. \A k \in Nat : k \in D
    BY <1>13, <1>14, NatIsInductive
<1>16. \A k \in 0..n : g[k] \in Z
    BY <1>15 DEF D
<1>17. Totals(q, g)
    BY <1>12, <1>16 DEF Totals, n, Z
<1> QED
    BY <1>11, <1>17 DEF n
=============================================================================
