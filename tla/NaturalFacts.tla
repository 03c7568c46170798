---------------------------- MODULE NaturalFacts ----------------------------
(***************************************************************************)
(* What the proofs of several components need of sets of natural numbers:  *)
(* that the days, counts and volumes the code takes a least or a greatest  *)
(* of have one.  The least is the library's well-founded minimum; with it  *)
(* a proof argues by a smallest counterexample where it would by           *)
(* induction.                                                              *)
(***************************************************************************)
EXTENDS Integers, FiniteSets, FiniteSetTheorems, WellFoundedInduction, TLAPS

\* A set of natural numbers that has any has a least one.
LEMMA LeastNatural ==
  ASSUME NEW S, S \subseteq Nat, S # {}
  PROVE  \E x \in S : \A y \in S : x <= y
<1>1. IsWellFoundedOn(OpToRel(<, Nat), Nat)
  BY NatLessThanWellFounded
<1>2. PICK x \in S : \A y \in S : ~(<<y, x>> \in OpToRel(<, Nat))
  BY <1>1, WFMin
<1>3. \A y \in S : ~(y < x)
  BY <1>2, Zenon DEF OpToRel
<1>4. \A y \in S : x <= y
  <2>1. x \in Nat /\ \A y \in S : y \in Nat
    BY Zenon
  <2>2. QED
    BY ONLY <1>3, <2>1
<1>5. QED
  BY ONLY <1>4, x \in S

\* A finite set of natural numbers has a bound: else a smallest set without one
\* has none either once a number of it is left out.
LEMMA FiniteIsBounded ==
  ASSUME NEW S, S \subseteq Nat, IsFiniteSet(S)
  PROVE  \E b \in Nat : \A x \in S : x <= b
<1> DEFINE Bounded(A) == \E b \in Nat : \A x \in A : x <= b
           Sizes == {n \in Nat : \E A \in SUBSET S : Cardinality(A) = n /\ ~Bounded(A)}
<1>1. SUFFICES ASSUME ~Bounded(S) PROVE FALSE
  OBVIOUS
<1>2. Cardinality(S) \in Sizes
  BY <1>1, FS_CardinalityType
<1>3. PICK n \in Sizes : \A m \in Sizes : n <= m
  BY <1>2, LeastNatural
<1>4. PICK A \in SUBSET S : Cardinality(A) = n /\ ~Bounded(A)
  BY <1>3
<1>5. IsFiniteSet(A)
  BY FS_Subset
<1>6. A # {}
  BY <1>4
<1>7. PICK a \in A : TRUE
  BY <1>6
<1>8. Cardinality(A \ {a}) = n - 1 /\ A \ {a} \in SUBSET S /\ n \in Nat
  BY <1>3, <1>4, <1>5, FS_RemoveElement
<1>9. Bounded(A \ {a})
  <2>1. n - 1 \in Nat
    BY <1>5, <1>8, FS_CardinalityType, FS_Subset
  <2>2. n - 1 \notin Sizes
    BY <1>3, <1>8
  <2>3. QED
    BY <1>8, <2>1, <2>2
<1>10. PICK b \in Nat : \A x \in A \ {a} : x <= b
  BY <1>9
<1>11. a \in Nat /\ A \subseteq Nat
  OBVIOUS
<1>12. CASE a <= b
  <2>1. \A x \in A : x <= b
    BY <1>10, <1>12
  <2>2. QED
    BY <1>4, <2>1
<1>13. CASE b <= a
  <2>1. \A x \in A : x <= a
    BY <1>10, <1>11, <1>13
  <2>2. QED
    BY <1>4, <1>11, <2>1
<1>14. QED
  BY <1>11, <1>12, <1>13

\* A finite set of natural numbers that has any has a greatest one: its least bound.
LEMMA GreatestNatural ==
  ASSUME NEW S, S \subseteq Nat, S # {}, IsFiniteSet(S)
  PROVE  \E x \in S : \A y \in S : y <= x
<1> DEFINE Bounds == {b \in Nat : \A x \in S : x <= b}
<1>1. Bounds # {}
  BY FiniteIsBounded
<1>2. PICK b \in Bounds : \A c \in Bounds : b <= c
  BY <1>1, LeastNatural
<1>3. CASE b \in S
  BY <1>2, <1>3
<1>4. CASE b \notin S
  <2>1. \A x \in S : x <= b - 1
    BY <1>2, <1>4
  <2>2. b - 1 \in Nat
    <3>1. PICK x \in S : x <= b - 1
      BY <2>1
    <3>2. QED
      BY <1>2, <3>1
  <2>3. b - 1 \in Bounds
    BY <2>1, <2>2
  <2>4. QED
    BY <1>2, <2>3
<1>5. QED
  BY <1>3, <1>4

\* So has a set of numbers up to one.
LEMMA GreatestUpTo ==
  ASSUME NEW L \in Nat, NEW S, S \subseteq 0 .. L, S # {}
  PROVE  \E x \in S : \A y \in S : y <= x
<1>1. S \subseteq Nat
  OBVIOUS
<1>2. IsFiniteSet(0 .. L)
  BY FS_Interval
<1>3. IsFiniteSet(S)
  BY <1>2, FS_Subset
<1>4. QED
  BY <1>1, <1>3, GreatestNatural

\* The image of a finite set is finite, for a function given as one: the library's own
\* fact is about an operator, which no prover here can be given.
LEMMA FiniteImage ==
  ASSUME NEW S, IsFiniteSet(S), NEW f, f = [x \in S |-> f[x]]
  PROVE  IsFiniteSet({f[x] : x \in S})
<1> DEFINE T == {f[x] : x \in S}
<1>1. f \in [S -> T]
  OBVIOUS
<1>2. \A t \in T : \E x \in S : f[x] = t
  OBVIOUS
<1>3. f \in Surjection(S, T)
  BY <1>1, <1>2 DEF Surjection
<1> HIDE DEF T
<1>4. QED
  BY <1>3, FS_Surjection DEF T

\* What a recursion takes from one step to the next, up to the step L.
Recurs(f, a, G, L) == f[0] = a /\ \A n \in 1 .. L : f[n] = G[n][f[n - 1]]

\* The values a recursion from one step to the next takes exist up to any number: else a
\* least number they do not reach is one past a number they do.
LEMMA RecursionExists ==
  ASSUME NEW L \in Nat, NEW S, NEW a \in S, NEW G \in [1 .. L -> [S -> S]]
  PROVE  \E f \in [0 .. L -> S] : Recurs(f, a, G, L)
<1> DEFINE Reached(m) == \E f \in [0 .. m -> S] : Recurs(f, a, G, m)
           Missed == {m \in 0 .. L : ~ Reached(m)}
<1>1. Reached(0)
  <2> DEFINE f == [n \in 0 .. 0 |-> a]
  <2>1. f \in [0 .. 0 -> S] /\ f[0] = a
    OBVIOUS
  <2> HIDE DEF f
  <2>2. Recurs(f, a, G, 0)
    BY <2>1 DEF Recurs
  <2>3. QED
    BY <2>1, <2>2
<1>2. ASSUME NEW m \in 1 .. L, Reached(m - 1)
      PROVE  Reached(m)
  <2>1. PICK f \in [0 .. m - 1 -> S] : Recurs(f, a, G, m - 1)
    BY <1>2
  <2>2. f[m - 1] \in S
    OBVIOUS
  <2>3. G[m][f[m - 1]] \in S
    BY <2>2
  <2> DEFINE g == [n \in 0 .. m |-> IF n = m THEN G[m][f[m - 1]] ELSE f[n]]
  <2>4. g \in [0 .. m -> S]
    BY <2>3
  <2>5. \A n \in 0 .. m - 1 : g[n] = f[n]
    OBVIOUS
  <2>6. g[m] = G[m][f[m - 1]]
    OBVIOUS
  <2> HIDE DEF g
  <2>7. g[0] = a
    BY <2>1, <2>5 DEF Recurs
  <2>8. ASSUME NEW n \in 1 .. m
        PROVE  g[n] = G[n][g[n - 1]]
    <3>1. g[n - 1] = f[n - 1]
      BY <2>5
    <3>2. CASE n = m
      BY <2>6, <3>1, <3>2
    <3>3. CASE n # m
      <4>1. n \in 1 .. m - 1
        BY <3>3
      <4>2. QED
        BY <2>1, <2>5, <3>1, <4>1 DEF Recurs
    <3>4. QED
      BY <3>2, <3>3
  <2>9. QED
    BY <2>4, <2>7, <2>8 DEF Recurs
<1> HIDE DEF Reached
<1>3. Missed = {}
  <2>1. SUFFICES ASSUME Missed # {} PROVE FALSE
    OBVIOUS
  <2>2. PICK m \in Missed : \A k \in Missed : m <= k
    <3>1. Missed \subseteq Nat
      OBVIOUS
    <3> HIDE DEF Missed
    <3>2. QED
      BY <2>1, <3>1, LeastNatural
  <2>3. m # 0 /\ m \in 1 .. L
    BY <1>1
  <2>4. m - 1 \in 0 .. L /\ ~ (m <= m - 1)
    BY <2>3
  <2>5. Reached(m - 1)
    BY <2>2, <2>4
  <2>6. QED
    BY <1>2, <2>3, <2>5
<1>4. L \in 0 .. L
  OBVIOUS
<1>5. QED
  BY <1>3, <1>4 DEF Reached

\* What holds of the value a recursion starts from, and is carried from each step to the
\* next, holds of every value: the first without it would be one past a value with it.
LEMMA CarriedAlong ==
  ASSUME NEW L \in Nat, NEW f, NEW K, f[0] \in K[0],
         \A n \in 1 .. L : f[n - 1] \in K[n - 1] => f[n] \in K[n]
  PROVE  \A n \in 0 .. L : f[n] \in K[n]
<1> DEFINE Without == {n \in 0 .. L : f[n] \notin K[n]}
<1>1. SUFFICES ASSUME Without # {} PROVE FALSE
  OBVIOUS
<1>2. PICK n \in Without : \A m \in Without : n <= m
  <2>1. Without \subseteq Nat
    OBVIOUS
  <2> HIDE DEF Without
  <2>2. QED
    BY <1>1, <2>1, LeastNatural
<1>3. n \in 1 .. L /\ n - 1 \in 0 .. L /\ ~ (n <= n - 1)
  <2>1. n \in 0 .. L /\ n # 0
    OBVIOUS
  <2>2. QED
    BY <2>1
<1>4. n - 1 \notin Without
  BY <1>2, <1>3
<1>5. QED
  BY <1>2, <1>3, <1>4
=============================================================================
