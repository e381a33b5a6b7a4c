--------------------------------- MODULE Levels ---------------------------------
(***************************************************************************)
(* What module DbusValues and module Payload define for data with n        *)
(* containers within each other from what it is for n - 1 is well defined. *)
(* Both Level, which makes one level of the one below, and Bottom, which   *)
(* is below the first, are given by the module that takes this one.        *)
(***************************************************************************)
EXTENDS Recursion

CONSTANTS Level(_), Bottom

\* f has the first levels, up to the n-th.
UpTo(n, f) == f = [k \in 0..n |-> Level(IF k = 0 THEN Bottom ELSE f[k - 1])]

LEMMA UpToValue ==
    ASSUME NEW n \in Nat, NEW f, UpTo(n, f), NEW k \in 0..n
    PROVE  f[k] = Level(IF k = 0 THEN Bottom ELSE f[k - 1])
  BY DEF UpTo

\* There is such an f.
LEMMA UpToExists ==
    ASSUME NEW n \in Nat
    PROVE  \E f : UpTo(n, f)
<1> DEFINE S == {m \in Nat : \E f : UpTo(m, f)}
<1>1. 0 \in S
  <2> DEFINE f == [k \in 0..0 |-> Level(Bottom)]
  <2>1. f = [k \in 0..0 |-> Level(IF k = 0 THEN Bottom ELSE f[k - 1])]
    OBVIOUS
  <2> QED
    BY <2>1 DEF UpTo
<1>2. ASSUME NEW m \in Nat, m \in S PROVE m + 1 \in S
  <2>1. PICK f : UpTo(m, f)
    BY <1>2
  <2> DEFINE g == [k \in 0..m + 1 |-> Level(IF k = 0 THEN Bottom ELSE f[k - 1])]
  <2>2. ASSUME NEW k \in 0..m + 1, k # 0 PROVE g[k - 1] = f[k - 1]
    <3>1. k - 1 \in 0..m /\ k - 1 \in 0..m + 1
      BY <2>2
    <3>2. f[k - 1] = Level(IF k - 1 = 0 THEN Bottom ELSE f[(k - 1) - 1])
      BY <2>1, <3>1, UpToValue
    <3> QED
      BY <3>1, <3>2
  <2>3. \A k \in 0..m + 1 : (IF k = 0 THEN Bottom ELSE f[k - 1]) = (IF k = 0 THEN Bottom ELSE g[k - 1])
    BY <2>2
  <2>4. g = [k \in 0..m + 1 |-> Level(IF k = 0 THEN Bottom ELSE g[k - 1])]
    <3> HIDE DEF g
    <3>1. g = [k \in 0..m + 1 |-> Level(IF k = 0 THEN Bottom ELSE f[k - 1])]
      BY DEF g
    <3> QED
      BY <2>3, <3>1
  <2> HIDE DEF g
  <2>5. UpTo(m + 1, g)
    BY <2>4 DEF UpTo
  <2> QED
    BY <2>5
<1> HIDE DEF S
<1>3. Nat \subseteq S
  BY <1>1, <1>2, Induction
<1> QED
  BY <1>3 DEF S

\* They have the same levels.
LEMMA UpToUnique ==
    ASSUME NEW n \in Nat, NEW m \in Nat, n <= m, NEW f, NEW g, UpTo(n, f), UpTo(m, g)
    PROVE  f[n] = g[n]
<1> DEFINE S == {k \in 0..n : f[k] = g[k]}
<1>1. 0 \in S
  BY UpToValue
<1>2. ASSUME NEW k \in 1..n, k - 1 \in S PROVE k \in S
  <2>1. k \in 0..n /\ k \in 0..m /\ k # 0
    OBVIOUS
  <2>2. f[k] = Level(f[k - 1]) /\ g[k] = Level(g[k - 1])
    BY <2>1, UpToValue
  <2> QED
    BY <1>2, <2>1, <2>2
<1> HIDE DEF S
<1>3. 0..n \subseteq S
  BY <1>1, <1>2, InductionUpTo
<1>4. n \in 0..n
  OBVIOUS
<1> QED
  BY <1>3, <1>4 DEF S

\* There is a function that has every level, and each is made of the one below.
THEOREM LevelsDefined == \E f : f = [n \in Nat |-> Level(IF n = 0 THEN Bottom ELSE f[n - 1])]
<1> DEFINE some(n) == CHOOSE f : UpTo(n, f)
           all == [n \in Nat |-> some(n)[n]]
<1>1. \A n \in Nat : UpTo(n, some(n))
  BY UpToExists
<1>2. ASSUME NEW n \in Nat
      PROVE  all[n] = Level(IF n = 0 THEN Bottom ELSE all[n - 1])
  <2>1. all[n] = Level(IF n = 0 THEN Bottom ELSE some(n)[n - 1])
    <3>1. n \in 0..n
      OBVIOUS
    <3>2. UpTo(n, some(n))
      BY <1>1
    <3> HIDE DEF some
    <3>3. some(n)[n] = Level(IF n = 0 THEN Bottom ELSE some(n)[n - 1])
      BY <3>1, <3>2, UpToValue
    <3> QED
      BY <3>3
  <2>2. n # 0 => all[n - 1] = some(n)[n - 1]
    <3> SUFFICES ASSUME n # 0 PROVE all[n - 1] = some(n)[n - 1]
      OBVIOUS
    <3>1. n - 1 \in Nat /\ n - 1 <= n
      OBVIOUS
    <3>2. UpTo(n, some(n)) /\ UpTo(n - 1, some(n - 1))
      BY <1>1, <3>1
    <3> HIDE DEF some
    <3>3. some(n - 1)[n - 1] = some(n)[n - 1]
      BY <3>1, <3>2, UpToUnique
    <3> QED
      BY <3>1, <3>3
  <2>3. (IF n = 0 THEN Bottom ELSE some(n)[n - 1]) = (IF n = 0 THEN Bottom ELSE all[n - 1])
    BY <2>2
  <2> HIDE DEF all, some
  <2> QED
    BY <2>1, <2>3
<1> DEFINE both == [n \in Nat |-> Level(IF n = 0 THEN Bottom ELSE all[n - 1])]
<1>3. all = both
  <2>1. \A n \in Nat : all[n] = both[n]
    <3> HIDE DEF all
    <3> QED BY <1>2
  <2> QED
    BY <2>1
<1> HIDE DEF all
<1> QED
  BY <1>3

\* What a function has that TLA+ takes for one defined that way.
THEOREM LevelOfLevel ==
    LET u == CHOOSE f : f = [n \in Nat |-> Level(IF n = 0 THEN Bottom ELSE f[n - 1])]
    IN  \A n \in Nat : u[n] = Level(IF n = 0 THEN Bottom ELSE u[n - 1])
<1> DEFINE all(f) == [n \in Nat |-> Level(IF n = 0 THEN Bottom ELSE f[n - 1])]
           u == CHOOSE f : f = all(f)
<1>1. \E f : f = all(f)
  BY LevelsDefined
<1> HIDE DEF all
<1>2. u = all(u)
  BY <1>1
<1> HIDE DEF u
<1>3. \A n \in Nat : u[n] = Level(IF n = 0 THEN Bottom ELSE u[n - 1])
  BY <1>2 DEF all
<1> QED
  BY <1>3 DEF u, all
=================================================================================
