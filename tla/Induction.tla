----------------------------- MODULE Induction -----------------------------
(* Induction over the natural numbers, stated for sets: the proofs about   *)
(* streams need it, and the library's induction theorems are stated for    *)
(* operators.  It follows from the well-foundedness of strict inclusion.   *)
EXTENDS Integers, SequencesExt, FiniteSetTheorems, WellFoundedInduction, TLAPS

\* Every set of natural numbers has a least one.
THEOREM LeastNumber ==
    ASSUME NEW T, T \subseteq Nat, T # {}
    PROVE  \E x \in T : \A y \in T : x <= y
  <1> DEFINE R == StrictSubsetOrdering(Nat)
             U == {1..n : n \in T}
  <1>1. IsWellFoundedOn(R, FiniteSubsetsOf(Nat))
    BY FS_StrictSubsetOrderingWellFounded
  <1>2. U \subseteq FiniteSubsetsOf(Nat) /\ U # {}
    <2>1. \A n \in Nat : IsFiniteSet(1..n) /\ 1..n \in SUBSET Nat
      BY FS_Interval
    <2> QED BY <2>1 DEF FiniteSubsetsOf
  <1>3. \A x, y \in Nat : x < y => <<1..x, 1..y>> \in R
    <2> SUFFICES ASSUME NEW x \in Nat, NEW y \in Nat, x < y
                 PROVE  <<1..x, 1..y>> \in R
      OBVIOUS
    <2>1. 1..x \subseteq 1..y /\ y \in 1..y /\ y \notin 1..x
      OBVIOUS
    <2> QED BY <2>1 DEF StrictSubsetOrdering
  <1> HIDE DEF R
  <1>4. PICK u \in U : \A v \in U : ~(<<v, u>> \in R)
    <2> HIDE DEF U
    <2> QED BY <1>1, <1>2, WFMin
  <1>5. PICK x \in T : u = 1..x
    OBVIOUS
  <1>6. \A y \in T : ~(y < x)
    BY <1>3, <1>4, <1>5
  <1> QED BY <1>6

\* A set that contains every number all smaller ones of which it contains
\* contains them all.
THEOREM CompleteInduction ==
    ASSUME NEW T, \A n \in Nat : (\A m \in Nat : m < n => m \in T) => n \in T
    PROVE  Nat \subseteq T
  <1> SUFFICES ASSUME Nat \ T # {} PROVE FALSE
    OBVIOUS
  <1>1. PICK n \in Nat \ T : \A m \in Nat \ T : n <= m
    <2> DEFINE S == Nat \ T
    <2>1. S \subseteq Nat /\ S # {}
      OBVIOUS
    <2> HIDE DEF S
    <2>2. \E n \in S : \A m \in S : n <= m
      BY <2>1, LeastNumber
    <2> QED BY <2>2 DEF S
  <1> QED BY <1>1

\* Min and Max of the community modules find what they are to find.
THEOREM MinOfNumbers ==
    ASSUME NEW T, T \subseteq Nat, T # {}
    PROVE  Min(T) \in T /\ \A y \in T : Min(T) <= y
  BY LeastNumber DEF Min

THEOREM MaxOfTwo ==
    ASSUME NEW a \in Int, NEW b \in Int
    PROVE  Max({a, b}) = IF a < b THEN b ELSE a
  <1> DEFINE m == IF a < b THEN b ELSE a
  <1>1. m \in {a, b} /\ \A y \in {a, b} : m >= y
    OBVIOUS
  <1>2. \A x \in {a, b} : (\A y \in {a, b} : x >= y) => x = m
    OBVIOUS
  <1> HIDE DEF m
  <1>3. Max({a, b}) = m
    BY <1>1, <1>2 DEF Max
  <1> QED BY <1>3 DEF m

\* How a function on 0..L with values in V is given: by g at the numbers in
\* Stop, and at the others by its value at the smaller number h.
Steps(L, V, Stop, g, h, Step) ==
    /\ Step \in [(0..L) \X V -> V]
    /\ \A m \in 0..L : m \in Stop => g[m] \in V
    /\ \A m \in 0..L : m \notin Stop => h[m] \in 0..(m - 1)

Follows(f, L, Stop, g, h, Step) ==
    \A m \in 0..L : f[m] = IF m \in Stop THEN g[m] ELSE Step[<<m, f[h[m]]>>]

\* There is such a function.
THEOREM StepsDefine ==
    ASSUME NEW L \in Nat, NEW V, NEW Stop, NEW g, NEW h, NEW Step,
           Steps(L, V, Stop, g, h, Step)
    PROVE  \E f \in [0..L -> V] : Follows(f, L, Stop, g, h, Step)
  <1> USE DEF Steps, Follows
  <1> DEFINE Good(n, f) ==
               \A m \in 0..n : f[m] = IF m \in Stop THEN g[m] ELSE Step[<<m, f[h[m]]>>]
             T == {n \in Nat : n <= L => \E f \in [0..n -> V] : Good(n, f)}
  <1>1. ASSUME NEW n \in Nat, \A k \in Nat : k < n => k \in T PROVE n \in T
    <2> SUFFICES ASSUME n <= L PROVE \E f \in [0..n -> V] : Good(n, f)
      OBVIOUS
    <2>1. \E old \in [0..(n - 1) -> V] : Good(n - 1, old)
      <3>1. CASE n = 0
        <4>1. 0..(n - 1) = {}
          BY <3>1
        <4>2. [m \in 0..(n - 1) |-> g[m]] \in [0..(n - 1) -> V]
          BY <4>1
        <4> QED BY <4>1, <4>2
      <3>2. CASE n # 0
        <4>1. n - 1 \in Nat /\ n - 1 < n /\ n - 1 <= L
          BY <3>2
        <4>2. n - 1 \in T
          BY <1>1, <4>1
        <4> QED BY <4>1, <4>2
      <3> QED BY <3>1, <3>2
    <2>2. PICK old \in [0..(n - 1) -> V] : Good(n - 1, old)
      BY <2>1
    <2> DEFINE last == IF n \in Stop THEN g[n] ELSE Step[<<n, old[h[n]]>>]
               f == [m \in 0..n |-> IF m = n THEN last ELSE old[m]]
    <2>3. last \in V
      <3>1. CASE n \in Stop
        BY <3>1
      <3>2. CASE n \notin Stop
        <4>1. h[n] \in 0..(n - 1) /\ n \in 0..L
          BY <3>2
        <4>2. old[h[n]] \in V
          BY <4>1
        <4>3. <<n, old[h[n]]>> \in (0..L) \X V
          BY <4>1, <4>2
        <4>4. Step[<<n, old[h[n]]>>] \in V
          BY <4>3
        <4> QED BY <3>2, <4>4
      <3> QED BY <3>1, <3>2
    <2> HIDE DEF last
    <2>4. f \in [0..n -> V]
      <3>1. \A m \in 0..n : m = n \/ m \in 0..(n - 1)
        OBVIOUS
      <3> QED BY <2>3, <3>1
    <2>5. ASSUME NEW m \in 0..n
          PROVE  f[m] = IF m \in Stop THEN g[m] ELSE Step[<<m, f[h[m]]>>]
      <3>1. m \notin Stop => h[m] \in 0..(m - 1) /\ h[m] \in 0..n /\ h[m] # n
        OBVIOUS
      <3>2. m \notin Stop => f[h[m]] = old[h[m]]
        BY <3>1
      <3>3. CASE m = n
        BY <3>2, <3>3 DEF last
      <3>4. CASE m # n
        <4>1. m \in 0..(n - 1) /\ f[m] = old[m]
          BY <3>4
        <4>2. old[m] = IF m \in Stop THEN g[m] ELSE Step[<<m, old[h[m]]>>]
          BY <2>2, <4>1
        <4> QED BY <3>2, <4>1, <4>2
      <3> QED BY <3>3, <3>4
    <2> QED BY <2>4, <2>5
  <1> HIDE DEF T
  <1>2. L \in T
    BY <1>1, CompleteInduction
  <1>3. PICK f \in [0..L -> V] : Good(L, f)
    BY <1>2 DEF T
  <1> QED BY <1>3

\* The powers of two: a set with one element more has twice the subsets.
THEOREM PowerDoubles ==
    ASSUME NEW n \in Nat
    PROVE  2^n \in Nat \ {0} /\ 2^(n + 1) = 2 * 2^n
  <1> DEFINE S == 1..n
             x == n + 1
             A == SUBSET S
             B == {U \union {x} : U \in A}
             f == [U \in A |-> U \union {x}]
  <1>1. IsFiniteSet(S) /\ Cardinality(S) = n
    BY FS_Interval
  <1>2. IsFiniteSet(A) /\ Cardinality(A) = 2^n
    BY <1>1, FS_SUBSET
  <1>3. IsFiniteSet(SUBSET (1..x)) /\ Cardinality(SUBSET (1..x)) = 2^x
    <2>1. IsFiniteSet(1..x) /\ Cardinality(1..x) = x
      BY FS_Interval
    <2> QED BY <2>1, FS_SUBSET
  <1>4. x \notin S /\ 1..x = S \union {x}
    OBVIOUS
  <1> HIDE DEF S, x
  <1>5. ExistsBijection(A, B)
    <2>1. f \in [A -> B]
      OBVIOUS
    <2>2. \A U, V \in A : f[U] = f[V] => U = V
      BY <1>4
    <2>3. \A W \in B : \E U \in A : f[U] = W
      OBVIOUS
    <2> HIDE DEF f, A, B
    <2>4. f \in Bijection(A, B)
      BY <2>1, <2>2, <2>3 DEF Bijection, Injection, Surjection, IsInjective
    <2> QED BY <2>4 DEF ExistsBijection
  <1>6. IsFiniteSet(B) /\ Cardinality(B) = 2^n
    BY <1>2, <1>5, FS_Bijection
  <1>7. A \intersect B = {}
    BY <1>4
  <1>8. A \union B = SUBSET (1..x)
    <2>1. ASSUME NEW W \in SUBSET (1..x), x \in W PROVE W \in B
      <3>1. W \ {x} \in A /\ W = (W \ {x}) \union {x}
        BY <1>4, <2>1
      <3> QED BY <3>1
    <2>2. ASSUME NEW W \in SUBSET (1..x), x \notin W PROVE W \in A
      BY <1>4, <2>2
    <2>3. A \union B \subseteq SUBSET (1..x)
      BY <1>4
    <2> QED BY <2>1, <2>2, <2>3
  <1>9. Cardinality(A \union B) = Cardinality(A) + Cardinality(B) - Cardinality(A \intersect B)
    <2> HIDE DEF A, B
    <2> QED BY <1>2, <1>6, FS_Union
  <1>10. Cardinality({}) = 0
    BY FS_EmptySet
  <1>11. 2^n \in Nat /\ 2^n # 0
    <2>1. Cardinality(A) \in Nat
      BY <1>2, FS_CardinalityType
    <2>2. Cardinality(A) # 0
      <3>1. {} \in A
        OBVIOUS
      <3> HIDE DEF A
      <3> QED BY <1>2, <3>1, FS_EmptySet
    <2> QED BY <1>2, <2>1, <2>2
  <1> HIDE DEF A, B
  <1> DEFINE p == 2^n
             q == 2^x
  <1>12. q = Cardinality(A \union B) /\ Cardinality(A) = p /\ Cardinality(B) = p
    BY <1>2, <1>3, <1>6, <1>8
  <1>13. p \in Nat
    BY <1>11
  <1> HIDE DEF p, q
  <1>14. q = p + p
    <2>1. Cardinality(A \union B) = Cardinality(A) + Cardinality(B) - 0
      BY <1>7, <1>9, <1>10
    <2>2. q = p + p - 0
      BY <1>12, <2>1
    <2> QED BY <1>13, <2>2
  <1>15. q = 2 * p
    BY <1>13, <1>14
  <1> QED BY <1>11, <1>15 DEF p, q, x

THEOREM PowerOfZero == 2^0 = 1
  <1>1. IsFiniteSet({}) /\ Cardinality({}) = 0
    BY FS_EmptySet
  <1>2. Cardinality(SUBSET {}) = 2^Cardinality({})
    BY <1>1, FS_SUBSET
  <1>3. SUBSET {} = {{}}
    OBVIOUS
  <1>4. Cardinality({{}}) = 1
    BY FS_Singleton
  <1> QED BY <1>1, <1>2, <1>3, <1>4

THEOREM PowerGrows ==
    ASSUME NEW a \in Nat, NEW b \in Nat, a <= b
    PROVE  2^a <= 2^b
  <1> DEFINE p(n) == 2^n
             T == {n \in Nat : a <= n => p(a) <= p(n)}
  <1>1. \A n \in Nat : p(n) \in Nat /\ p(n + 1) = 2 * p(n)
    BY PowerDoubles
  <1> HIDE DEF p
  <1>2. ASSUME NEW n \in Nat, \A m \in Nat : m < n => m \in T PROVE n \in T
    <2> SUFFICES ASSUME a <= n, a # n PROVE p(a) <= p(n)
      BY <1>1
    <2>1. n - 1 \in Nat /\ n - 1 < n /\ a <= n - 1 /\ (n - 1) + 1 = n
      OBVIOUS
    <2>2. p(a) <= p(n - 1)
      BY <1>2, <2>1
    <2>3. p(n - 1) \in Nat /\ p(n) = 2 * p(n - 1) /\ p(a) \in Nat
      BY <1>1, <2>1
    <2> QED BY <2>2, <2>3
  <1> HIDE DEF T
  <1>3. Nat \subseteq T
    BY <1>2, CompleteInduction
  <1> QED BY <1>3 DEF T, p
============================================================================
