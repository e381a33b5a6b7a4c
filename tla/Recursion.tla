-------------------------------- MODULE Recursion --------------------------------
(***************************************************************************)
(* A function that is defined by an equation for its values has these      *)
(* values, when the equation looks at the function only where a rank is    *)
(* lower.  split, PathOf, the rule of a form and Convertible are of that   *)
(* kind.                                                                   *)
(***************************************************************************)
EXTENDS Integers, WellFoundedInduction, TLAPS

\* The order of the numbers, as a relation.
Less == {pair \in Nat \X Nat : pair[1] < pair[2]}

\* No sequence of numbers falls for ever.
LEMMA LessWellFounded == IsWellFoundedOn(Less, Nat)
<1>1. OpToRel(<, Nat) = Less
  BY DEF OpToRel, Less
<1> QED
  BY <1>1, NatLessThanWellFounded

\* A set of numbers has a least one.
LEMMA LeastElement ==
    ASSUME NEW T \in SUBSET Nat, T # {}
    PROVE  \E m \in T : \A n \in T : m <= n
<1>1. PICK m \in T : \A n \in T : <<n, m>> \notin Less
  BY LessWellFounded, WFMin
<1>2. ASSUME NEW n \in T PROVE m <= n
  <2>1. m \in Nat /\ n \in Nat /\ <<n, m>> \in Nat \X Nat /\ <<n, m>>[1] = n /\ <<n, m>>[2] = m
    OBVIOUS
  <2>2. ~(n < m)
    BY <1>1, <2>1 DEF Less
  <2> QED
    BY <2>1, <2>2
<1> QED
  BY <1>2

\* Induction over the numbers, stated about a set.
LEMMA Induction ==
    ASSUME NEW S, 0 \in S, \A n \in Nat : n \in S => n + 1 \in S
    PROVE  Nat \subseteq S
<1> SUFFICES ASSUME NEW k \in Nat, k \notin S PROVE FALSE
  OBVIOUS
<1>1. PICK m \in Nat \ S : \A n \in Nat \ S : m <= n
  BY LeastElement
<1>2. m # 0 /\ m - 1 \in Nat
  BY <1>1
<1> QED
  BY <1>1, <1>2

\* The same for the numbers up to n.
LEMMA InductionUpTo ==
    ASSUME NEW n \in Nat, NEW S, 0 \in S, \A k \in 1..n : k - 1 \in S => k \in S
    PROVE  0..n \subseteq S
<1>1. Nat \subseteq S \cup {k \in Nat : k > n}
  <2>1. \A k \in Nat : k \in S \cup {j \in Nat : j > n} => k + 1 \in S \cup {j \in Nat : j > n}
    <3> TAKE k \in Nat
    <3>1. CASE k + 1 > n
      BY <3>1
    <3>2. CASE k + 1 <= n
      <4>1. k + 1 \in 1..n /\ (k + 1) - 1 = k
        BY <3>2
      <4> QED BY <3>2, <4>1
    <3> QED BY <3>1, <3>2
  <2> QED BY <2>1, Induction
<1> QED BY <1>1

\* What holds of x when it holds of all that rank lower holds of everything.
LEMMA RankInduction ==
    ASSUME NEW X, NEW rank \in [X -> Nat], NEW T,
           \A x \in X : (\A y \in X : rank[y] < rank[x] => y \in T) => x \in T
    PROVE  X \subseteq T
<1> SUFFICES ASSUME NEW x \in X, x \notin T PROVE FALSE
  OBVIOUS
<1> DEFINE bad == {rank[y] : y \in X \ T}
<1>1. bad \in SUBSET Nat /\ rank[x] \in bad
  OBVIOUS
<1>2. PICK m \in bad : \A n \in bad : m <= n
  <2> HIDE DEF bad
  <2> QED BY <1>1, LeastElement
<1>3. PICK y \in X \ T : m = rank[y]
  BY <1>2
<1>4. ASSUME NEW z \in X, rank[z] < rank[y], z \notin T PROVE FALSE
  <2>1. rank[z] \in bad /\ rank[z] \in Nat /\ rank[y] \in Nat
    BY <1>4
  <2> HIDE DEF bad
  <2> QED BY <1>2, <1>3, <1>4, <2>1
<1> QED BY <1>3, <1>4

\* H[x] looks at a function only where rank is lower than at x.
LooksLower(X, R, rank, H) ==
    \A x \in X : \A f, g \in [X -> R] :
      (\A y \in X : rank[y] < rank[x] => f[y] = g[y]) => H[x][f] = H[x][g]

\* f satisfies the equation.
Solves(X, H, f) == \A x \in X : f[x] = H[x][f]

\* f satisfies the equation where rank is below n.
Below(X, rank, H, n, f) == \A x \in X : rank[x] < n => f[x] = H[x][f]

\* f and g agree there.
Agree(X, rank, n, f, g) == \A x \in X : rank[x] < n => f[x] = g[x]

\* Two functions that satisfy such an equation below n agree there.
LEMMA RankUnique ==
    ASSUME NEW X, NEW R, NEW rank \in [X -> Nat], NEW H \in [X -> [[X -> R] -> R]],
           LooksLower(X, R, rank, H),
           NEW n \in Nat, NEW f \in [X -> R], NEW g \in [X -> R],
           Below(X, rank, H, n, f), Below(X, rank, H, n, g)
    PROVE  Agree(X, rank, n, f, g)
<1> DEFINE T == {y \in X : rank[y] < n => f[y] = g[y]}
<1>1. ASSUME NEW y \in X, \A z \in X : rank[z] < rank[y] => z \in T, rank[y] < n
      PROVE  f[y] = g[y]
  <2>1. \A z \in X : rank[z] < rank[y] => f[z] = g[z]
    <3>1. \A z \in X : rank[z] \in Nat
      OBVIOUS
    <3> QED BY <1>1, <3>1
  <2>2. H[y][f] = H[y][g]
    BY <2>1 DEF LooksLower
  <2> QED BY <1>1, <2>2 DEF Below
<1>2. \A y \in X : (\A z \in X : rank[z] < rank[y] => z \in T) => y \in T
  BY <1>1
<1> HIDE DEF T
<1>3. X \subseteq T
  BY <1>2, RankInduction
<1> QED BY <1>3 DEF T, Agree

\* A function may be defined by an equation for its value at x, when the equation
\* looks at the function only where rank is lower.
THEOREM RankRecursion ==
    ASSUME NEW X, NEW R, NEW rank \in [X -> Nat], NEW H \in [X -> [[X -> R] -> R]], R # {},
           LooksLower(X, R, rank, H)
    PROVE  \E f \in [X -> R] : Solves(X, H, f)
<1> DEFINE A == [X -> R]
           Good(n, f) == \A x \in X : rank[x] < n => f[x] = H[x][f]
           S == {n \in Nat : \E f \in A : Good(n, f)}
<1>1. 0 \in S
  <2>1. PICK r \in R : TRUE
    OBVIOUS
  <2>2. [x \in X |-> r] \in A /\ Good(0, [x \in X |-> r])
    OBVIOUS
  <2> QED BY <2>2
<1>2. ASSUME NEW n \in Nat, n \in S PROVE n + 1 \in S
  <2>1. PICK f \in A : Good(n, f)
    BY <1>2
  <2> DEFINE g == [x \in X |-> IF rank[x] < n THEN f[x] ELSE H[x][f]]
  <2>2. g \in A
    <3>1. \A x \in X : f[x] \in R /\ H[x][f] \in R
      BY <2>1
    <3> QED BY <3>1
  <2>3. ASSUME NEW x \in X, rank[x] < n + 1 PROVE g[x] = H[x][g]
    <3>1. \A y \in X : rank[y] < rank[x] => g[y] = f[y]
      <4>1. \A y \in X : rank[y] \in Nat
        OBVIOUS
      <4> QED BY <4>1, <2>3
    <3>2. H[x][g] = H[x][f]
      BY <2>1, <2>2, <3>1 DEF LooksLower
    <3>3. g[x] = H[x][f]
      BY <2>1
    <3> QED BY <3>2, <3>3
  <2> HIDE DEF g
  <2>4. Good(n + 1, g)
    BY <2>3
  <2> QED BY <2>2, <2>4
<1> HIDE DEF S
<1>3. Nat \subseteq S
  BY <1>1, <1>2, Induction
<1> USE DEF S
<1>4. ASSUME NEW n \in Nat, NEW f \in [X -> R], NEW g \in [X -> R],
             Good(n, f), Good(n, g)
      PROVE  Agree(X, rank, n, f, g)
  <2> HIDE DEF Good
  <2>1. Below(X, rank, H, n, f) /\ Below(X, rank, H, n, g)
    BY <1>4 DEF Below, Good
  <2> QED BY <2>1, RankUnique
<1>5. PICK F \in [Nat -> A] : \A n \in Nat : Good(n, F[n])
  <2>1. \A n \in Nat : \E f \in A : Good(n, f)
    BY <1>3
  <2> HIDE DEF A, Good
  <2>2. [n \in Nat |-> CHOOSE f \in A : Good(n, f)] \in [Nat -> A]
    BY <2>1
  <2> QED BY <2>1, <2>2
<1> DEFINE f == [x \in X |-> F[rank[x] + 1][x]]
<1>6. f \in A
  <2>1. \A x \in X : rank[x] + 1 \in Nat
    OBVIOUS
  <2> QED BY <2>1
<1>7. ASSUME NEW x \in X PROVE f[x] = H[x][f]
  <2> DEFINE h == F[rank[x] + 1]
  <2>1. rank[x] \in Nat /\ rank[x] + 1 \in Nat /\ h \in A
    OBVIOUS
  <2>2. Good(rank[x] + 1, h)
    BY <1>5, <2>1
  <2>3. ASSUME NEW y \in X, rank[y] < rank[x] PROVE f[y] = h[y]
    <3> DEFINE k == F[rank[y] + 1]
    <3>1. rank[y] \in Nat /\ rank[y] + 1 \in Nat /\ rank[y] < rank[y] + 1 /\ k \in A
      OBVIOUS
    <3>2. Good(rank[y] + 1, k)
      BY <1>5, <3>1
    <3>3. Good(rank[y] + 1, h)
      <4>1. ASSUME NEW z \in X, rank[z] < rank[y] + 1 PROVE rank[z] < rank[x] + 1
        <5>1. rank[z] \in Nat
          OBVIOUS
        <5> QED BY <2>1, <2>3, <3>1, <4>1, <5>1
      <4> HIDE DEF h
      <4> QED BY <2>2, <4>1
    <3>4. f[y] = k[y]
      OBVIOUS
    <3>7. h \in [X -> R] /\ k \in [X -> R]
      BY <2>1, <3>1
    <3> HIDE DEF k, h, f, Good, A
    <3>5. Agree(X, rank, rank[y] + 1, k, h)
      BY <1>4, <3>1, <3>2, <3>3, <3>7
    <3> QED BY <3>1, <3>4, <3>5 DEF Agree
  <2>4. f[x] = h[x]
    OBVIOUS
  <2>5. h[x] = H[x][h]
    BY <2>1, <2>2
  <2> HIDE DEF f, h
  <2>6. H[x][f] = H[x][h]
    BY <1>6, <2>1, <2>3 DEF LooksLower
  <2> QED BY <2>4, <2>5, <2>6
<1> HIDE DEF f
<1> QED BY <1>6, <1>7 DEF Solves

\* A sequence of steps: D[k] makes the k-th value of the one before.
Steps(n, c, D, g) == g[0] = c /\ \A k \in 1..n : g[k] = D[k][g[k - 1]]

\* There is one.
THEOREM StepRecursion ==
    ASSUME NEW n \in Nat, NEW X, NEW c \in X, NEW D \in [1..n -> [X -> X]]
    PROVE  \E g \in [0..n -> X] : Steps(n, c, D, g)
<1> DEFINE N == 0..n
           rank == [k \in N |-> k]
           H == [k \in N |-> [f \in [N -> X] |-> IF k = 0 THEN c ELSE D[k][f[k - 1]]]]
<1>1. ASSUME NEW k \in N, k # 0
      PROVE  k \in 1..n /\ k - 1 \in N /\ k - 1 < k
  BY <1>1
<1>2. ASSUME NEW k \in N, NEW f \in [N -> X]
      PROVE  /\ H[k][f] = IF k = 0 THEN c ELSE D[k][f[k - 1]]
             /\ H[k][f] \in X
  <2>1. H[k][f] = IF k = 0 THEN c ELSE D[k][f[k - 1]]
    OBVIOUS
  <2>2. k # 0 => f[k - 1] \in X /\ D[k] \in [X -> X]
    BY <1>1
  <2> QED BY <2>1, <2>2
<1>3. H \in [N -> [[N -> X] -> X]]
  <2>1. ASSUME NEW k \in N PROVE H[k] \in [[N -> X] -> X]
    <3>1. H[k] = [f \in [N -> X] |-> IF k = 0 THEN c ELSE D[k][f[k - 1]]]
      OBVIOUS
    <3>2. \A f \in [N -> X] : (IF k = 0 THEN c ELSE D[k][f[k - 1]]) \in X
      BY <1>2
    <3> QED BY <3>1, <3>2
  <2> QED BY <2>1
<1>4. rank \in [N -> Nat] /\ \A k \in N : rank[k] = k
  OBVIOUS
<1> HIDE DEF H, rank
<1>5. LooksLower(N, X, rank, H)
  <2>1. ASSUME NEW k \in N, NEW f \in [N -> X], NEW g \in [N -> X],
               \A j \in N : rank[j] < rank[k] => f[j] = g[j]
        PROVE  H[k][f] = H[k][g]
    <3>1. k # 0 => f[k - 1] = g[k - 1]
      BY <1>1, <1>4, <2>1
    <3> QED BY <1>2, <3>1
  <2> QED BY <2>1 DEF LooksLower
<1>6. X # {}
  OBVIOUS
<1> HIDE DEF N
<1>7. PICK g \in [N -> X] : Solves(N, H, g)
  BY <1>3, <1>4, <1>5, <1>6, RankRecursion
<1>8. 0 \in N /\ \A k \in 1..n : k \in N /\ k # 0
  BY DEF N
<1>9. g[0] = c /\ \A k \in 1..n : g[k] = D[k][g[k - 1]]
  BY <1>2, <1>7, <1>8 DEF Solves
<1> QED BY <1>9 DEF N, Steps
==============================================================================
