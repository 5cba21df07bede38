--------------------------- MODULE RecursionLemmas ---------------------------
(***************************************************************************)
(* Induction over the natural numbers and definition by recursion, stated  *)
(* about sets and functions instead of operators, for the recursive        *)
(* functions in the models of the disk.                                    *)
(***************************************************************************)
EXTENDS Naturals, FiniteSets, FiniteSetTheorems, WellFoundedInduction, TLAPS

\* A set of naturals that has 0 and with n also n+1 has them all.
LEMMA SetInduction ==
    ASSUME NEW T, 0 \in T, \A n \in Nat : n \in T => n + 1 \in T
    PROVE  Nat \subseteq T
<1> SUFFICES ASSUME NEW m \in Nat, m \notin T
             PROVE  FALSE
  OBVIOUS
<1> DEFINE Bad == {0 .. k : k \in Nat \ T}
<1>1. Bad \subseteq FiniteSubsetsOf(Nat) /\ Bad # {}
  <2>1. ASSUME NEW k \in Nat PROVE IsFiniteSet(0 .. k) /\ 0 .. k \subseteq Nat
    BY FS_Interval
  <2> QED
    BY <2>1 DEF FiniteSubsetsOf
<1>2. PICK X \in Bad : \A Y \in Bad : <<Y, X>> \notin StrictSubsetOrdering(Nat)
  <2> HIDE DEF Bad
  <2> QED
    BY <1>1, FS_StrictSubsetOrderingWellFounded, WFMin
<1>3. PICK k \in Nat : k \notin T /\ X = 0 .. k
  OBVIOUS
<1>4. k # 0 /\ k - 1 \in Nat
  BY <1>3
<1>5. k - 1 \notin T
  BY <1>3, <1>4
<1>6. <<0 .. k - 1, X>> \in StrictSubsetOrdering(Nat)
  BY <1>3, <1>4 DEF StrictSubsetOrdering
<1> QED
  BY <1>2, <1>4, <1>5, <1>6

\* f starts with a and goes on by the step G.
Iterates(f, X, a, G) ==
    f \in [Nat -> X] /\ f[0] = a /\ \A n \in Nat : f[n + 1] = G[<<n, f[n]>>]

\* For each step there is a function that it defines by recursion.
LEMMA Recursion ==
    ASSUME NEW X, NEW a \in X, NEW G \in [Nat \X X -> X]
    PROVE  \E f : Iterates(f, X, a, G)
<1> DEFINE Upto(n, f) == /\ f \in [0 .. n -> X]
                         /\ f[0] = a
                         /\ \A k \in Nat : k < n => f[k + 1] = G[<<k, f[k]>>]
           Same == {k \in Nat : \A n, m \in Nat : \A f, g :
                       Upto(n, f) /\ Upto(m, g) /\ k <= n /\ k <= m => f[k] = g[k]}
           Some == {n \in Nat : \E f : Upto(n, f)}
<1>1. Nat \subseteq Same
  <2>1. 0 \in Same
    OBVIOUS
  <2>2. ASSUME NEW k \in Nat, k \in Same PROVE k + 1 \in Same
    <3> SUFFICES ASSUME NEW n \in Nat, NEW m \in Nat, NEW f, NEW g,
                        Upto(n, f), Upto(m, g), k + 1 <= n, k + 1 <= m
                 PROVE  f[k + 1] = g[k + 1]
      OBVIOUS
    <3>1. f[k] = g[k]
      BY <2>2
    <3>2. k < n /\ k < m
      OBVIOUS
    <3>3. f[k + 1] = G[<<k, f[k]>>] /\ g[k + 1] = G[<<k, g[k]>>]
      BY <3>2
    <3> QED
      BY <3>1, <3>3
  <2> HIDE DEF Same
  <2> QED
    BY <2>1, <2>2, SetInduction
<1>2. Nat \subseteq Some
  <2>1. 0 \in Some
    <3>1. Upto(0, [k \in 0 .. 0 |-> a])
      OBVIOUS
    <3> QED
      BY <3>1
  <2>2. ASSUME NEW n \in Nat, n \in Some PROVE n + 1 \in Some
    <3>1. PICK f : Upto(n, f)
      BY <2>2
    <3> DEFINE g == [k \in 0 .. n + 1 |-> IF k <= n THEN f[k] ELSE G[<<n, f[n]>>]]
    <3>2. g \in [0 .. n + 1 -> X] /\ g[0] = a
      BY <3>1
    <3>3. ASSUME NEW k \in Nat, k < n + 1 PROVE g[k + 1] = G[<<k, g[k]>>]
      <4>1. CASE k = n
        BY <4>1
      <4>2. CASE k < n
        BY <4>2, <3>1
      <4> QED
        BY <4>1, <4>2, <3>3
    <3> HIDE DEF g
    <3>4. Upto(n + 1, g)
      BY <3>2, <3>3
    <3> QED
      BY <3>4
  <2> HIDE DEF Some
  <2> QED
    BY <2>1, <2>2, SetInduction
<1> DEFINE part == [n \in Nat |-> CHOOSE f : Upto(n, f)]
           whole == [n \in Nat |-> part[n][n]]
<1>3. ASSUME NEW n \in Nat PROVE Upto(n, part[n])
  <2>1. \E f : Upto(n, f)
    BY <1>2
  <2> HIDE DEF Upto
  <2> QED
    BY <2>1
<1>4. whole \in [Nat -> X]
  BY <1>3
<1>5. whole[0] = a
  BY <1>3
<1>6. ASSUME NEW n \in Nat PROVE whole[n + 1] = G[<<n, whole[n]>>]
  <2>1. n \in Same /\ n + 1 \in Nat
    BY <1>1
  <2>2. Upto(n, part[n]) /\ Upto(n + 1, part[n + 1])
    <3> HIDE DEF Upto, part
    <3> QED
      BY <2>1, <1>3
  <2> HIDE DEF part
  <2>3. part[n][n] = part[n + 1][n]
    BY <2>1, <2>2
  <2>4. part[n + 1][n + 1] = G[<<n, part[n + 1][n]>>]
    BY <2>2
  <2> QED
    BY <2>1, <2>3, <2>4
<1> HIDE DEF whole
<1> QED
  BY <1>4, <1>5, <1>6 DEF Iterates

\* The same function in the form in which a model defines it.
Recursive(f, X, a, G) ==
    f \in [Nat -> X] /\ f = [k \in Nat |-> IF k = 0 THEN a ELSE G[<<k - 1, f[k - 1]>>]]

LEMMA FunctionByRecursion ==
    ASSUME NEW X, NEW a \in X, NEW G \in [Nat \X X -> X]
    PROVE  \E f : Recursive(f, X, a, G)
<1>1. PICK f : Iterates(f, X, a, G)
  BY Recursion, Zenon
<1>2. ASSUME NEW k \in Nat PROVE f[k] = IF k = 0 THEN a ELSE G[<<k - 1, f[k - 1]>>]
  <2>1. CASE k = 0
    BY <1>1, <2>1 DEF Iterates
  <2>2. CASE k # 0
    <3>1. k - 1 \in Nat /\ (k - 1) + 1 = k
      BY <2>2
    <3> QED
      BY <3>1, <2>2, <1>1 DEF Iterates
  <2> QED
    BY <2>1, <2>2
<1>3. f = [k \in Nat |-> IF k = 0 THEN a ELSE G[<<k - 1, f[k - 1]>>]]
  BY <1>1, <1>2 DEF Iterates
<1> QED
  BY <1>1, <1>3 DEF Iterates, Recursive

\* What X's elements lead to, step by step from i, is complete after as many
\* steps as X has elements: it is the least set with i that next does not leave.
LEMMA Closure ==
    ASSUME NEW X, IsFiniteSet(X), NEW N \in Nat, Cardinality(X) <= N,
           NEW i \in X, NEW next \in [X -> SUBSET X], NEW U \in [Nat -> SUBSET X],
           U[0] = {i},
           \A k \in Nat : U[k + 1] = U[k] \cup UNION {next[d] : d \in U[k]}
    PROVE  /\ i \in U[N]
           /\ \A d \in U[N] : next[d] \subseteq U[N]
           /\ \A T : i \in T /\ (\A d \in T : d \in X => next[d] \subseteq T) => U[N] \subseteq T
<1> DEFINE Within(T) == {k \in Nat : U[k] \subseteq T}
           Stable == {k \in Nat : U[k + 1] = U[k]}
           Grown == {k \in Nat : k \in Stable \/ Cardinality(U[k]) > k}
           Has == {k \in Nat : i \in U[k]}
<1>1. \A k \in Nat : IsFiniteSet(U[k]) /\ Cardinality(U[k]) \in Nat /\ Cardinality(U[k]) <= N
  BY FS_Subset, FS_CardinalityType
<1>2. ASSUME NEW k \in Nat, k \in Stable PROVE k + 1 \in Stable
  <2>1. U[k + 1] = U[k] /\ k + 1 \in Nat
    BY <1>2
  <2>2. U[(k + 1) + 1] = U[k + 1] \cup UNION {next[d] : d \in U[k + 1]}
    BY <2>1
  <2>3. U[(k + 1) + 1] = U[k + 1]
    BY <2>1, <2>2
  <2> QED
    BY <2>1, <2>3
<1>3. Nat \subseteq Has
  <2>1. 0 \in Has
    OBVIOUS
  <2>2. \A k \in Nat : k \in Has => k + 1 \in Has
    OBVIOUS
  <2> HIDE DEF Has
  <2> QED
    BY <2>1, <2>2, SetInduction
<1>4. Nat \subseteq Grown
  <2>1. 0 \in Grown
    <3>1. Cardinality(U[0]) = 1
      BY FS_Singleton
    <3>2. Cardinality(U[0]) > 0
      BY <3>1
    <3> HIDE DEF Stable
    <3> QED
      BY <3>2, Zenon
  <2>2. ASSUME NEW k \in Nat, k \in Grown PROVE k + 1 \in Grown
    <3>1. CASE k \in Stable
      BY <3>1, <1>2
    <3>2. CASE k \notin Stable
      <4>1. U[k] \subseteq U[k + 1] /\ U[k] # U[k + 1]
        BY <3>2
      <4>2. Cardinality(U[k]) <= Cardinality(U[k + 1]) /\ Cardinality(U[k]) # Cardinality(U[k + 1])
        BY <4>1, <1>1, FS_Subset
      <4> QED
        BY <2>2, <3>2, <4>2, <1>1
    <3> QED
      BY <3>1, <3>2
  <2> HIDE DEF Grown
  <2> QED
    BY <2>1, <2>2, SetInduction
<1>5. N \in Stable
  <2>1. N \in Grown /\ N \in Nat
    BY <1>4
  <2> QED
    BY <2>1, <1>1
<1>6. ASSUME NEW T, i \in T, \A d \in T : d \in X => next[d] \subseteq T PROVE U[N] \subseteq T
  <2>1. 0 \in Within(T)
    BY <1>6
  <2>2. ASSUME NEW k \in Nat, k \in Within(T) PROVE k + 1 \in Within(T)
    <3>1. \A d \in U[k] : next[d] \subseteq T
      BY <1>6, <2>2
    <3> QED
      BY <2>2, <3>1
  <2>3. N \in Within(T)
    <3> HIDE DEF Within
    <3> QED
      BY <2>1, <2>2, SetInduction
  <2> QED
    BY <2>3
<1> QED
  BY <1>3, <1>5, <1>6
=============================================================================
