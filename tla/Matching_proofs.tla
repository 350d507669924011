--------------------------- MODULE Matching_proofs ---------------------------
(***************************************************************************)
(* Proofs about Matching.  What the recursive functions of the model       *)
(* compute (the rows of common subsequences, the loop over a candidate,    *)
(* the breaking of a text, the sort of its marks) is proved from a         *)
(* solution of their equations, built and compared with any other by       *)
(* induction as a statement about sets of numbers.  The invariant then     *)
(* carries these results, which are about one query and one candidate, to  *)
(* every state.  What is said of every text (how it is broken, what its    *)
(* characters match, which texts have the same) is proved from one code    *)
(* point to the next.                                                      *)
(***************************************************************************)
EXTENDS Matching, SequenceTheorems, FiniteSetTheorems, WellFoundedInduction,
        TLAPS

(* A set of natural numbers that is not empty has a smallest.              *)
LEMMA Smallest ==
  ASSUME NEW S \in SUBSET Nat, S # {}
  PROVE  \E n \in S : \A m \in S : n <= m
<1> DEFINE R == OpToRel(<, Nat)
<1>1. IsWellFoundedOn(R, Nat)
  BY NatLessThanWellFounded
<1>2. \A x, y \in Nat : x < y => <<x, y>> \in R
  BY DEF OpToRel
<1> HIDE DEF R
<1>3. PICK n \in S : \A m \in S : ~ (<<m, n>> \in R)
  BY <1>1, WFMin
<1>4. \A m \in S : ~ (m < n)
  BY <1>2, <1>3
<1> QED BY <1>4

(* Induction over the natural numbers up to n.                             *)
LEMMA Induction ==
  ASSUME NEW n \in Nat, NEW S, 0 \in S,
         \A i \in 1 .. n : i - 1 \in S => i \in S
  PROVE  0 .. n \subseteq S
<1>1. SUFFICES ASSUME (0 .. n) \ S # {} PROVE FALSE
  OBVIOUS
<1>2. PICK i \in (0 .. n) \ S : \A j \in (0 .. n) \ S : i <= j
  <2>1. (0 .. n) \ S \in SUBSET Nat
    OBVIOUS
  <2> QED BY <1>1, <2>1, Smallest
<1>3. i \in 1 .. n /\ i - 1 \in 0 .. n /\ ~ (i <= i - 1)
  BY <1>2
<1> QED BY <1>2, <1>3

(* The value of f for i is what step makes of i and its value for i - 1.   *)
Recurs(f, n, base, step) ==
  f[0] = base /\ \A i \in 1 .. n : f[i] = step[i][f[i - 1]]

(* A recursive function whose values are in V exists.                      *)
LEMMA Recursion ==
  ASSUME NEW n \in Nat, NEW V, NEW base \in V, NEW step \in [1 .. n -> [V -> V]]
  PROVE  \E f \in [0 .. n -> V] : Recurs(f, n, base, step)
<1> DEFINE Solves(f, k) ==
             \A i \in 0 .. k : f[i] = IF i = 0 THEN base ELSE step[i][f[i - 1]]
           S == {k \in 0 .. n : \E f \in [0 .. k -> V] : Solves(f, k)}
<1>1. 0 \in S
  <2> DEFINE f == [i \in 0 .. 0 |-> base]
  <2>1. f \in [0 .. 0 -> V] /\ Solves(f, 0)
    OBVIOUS
  <2> HIDE DEF f, Solves
  <2> QED BY <2>1
<1>2. ASSUME NEW k \in 1 .. n, k - 1 \in S PROVE k \in S
  <2>1. PICK g \in [0 .. k - 1 -> V] : Solves(g, k - 1)
    BY <1>2
  <2> DEFINE f == [i \in 0 .. k |-> IF i < k THEN g[i] ELSE step[k][g[k - 1]]]
  <2>2. k - 1 \in 0 .. k - 1 /\ g[k - 1] \in V
    OBVIOUS
  <2>3. f \in [0 .. k -> V]
    BY <2>2
  <2>4. ASSUME NEW i \in 0 .. k
        PROVE  f[i] = IF i = 0 THEN base ELSE step[i][f[i - 1]]
    <3>1. CASE i < k
      <4>1. i \in 0 .. k - 1 /\ (i # 0 => i - 1 \in 0 .. k /\ i - 1 < k)
        BY <3>1
      <4> QED BY <2>1, <3>1, <4>1
    <3>2. CASE ~ (i < k)
      <4>1. i = k /\ i # 0 /\ i - 1 \in 0 .. k /\ i - 1 < k
        BY <3>2
      <4> QED BY <4>1
    <3> QED BY <3>1, <3>2
  <2> HIDE DEF f
  <2>5. Solves(f, k)
    BY <2>4
  <2> HIDE DEF Solves
  <2> QED BY <2>3, <2>5
<1> HIDE DEF S
<1>3. 0 .. n \subseteq S
  BY <1>1, <1>2, Induction
<1>4. PICK f \in [0 .. n -> V] :
        \A i \in 0 .. n : f[i] = IF i = 0 THEN base ELSE step[i][f[i - 1]]
  <2>1. n \in S
    BY <1>3
  <2> QED BY <2>1 DEF S
<1>5. 0 \in 0 .. n /\ \A i \in 1 .. n : i \in 0 .. n /\ i # 0
  OBVIOUS
<1>6. Recurs(f, n, base, step)
  BY <1>4, <1>5 DEF Recurs
<1> QED BY <1>6

(* The elements of a placement increase and are not smaller than their     *)
(* places.                                                                 *)
LEMMA PlacementIncreases ==
  ASSUME NEW n \in Nat, NEW l \in Nat, NEW p \in Placements(n, l)
  PROVE  /\ p \in [1 .. n -> 1 .. l]
         /\ \A i, j \in 1 .. n : i < j => p[i] < p[j]
         /\ \A i \in 1 .. n : i <= p[i] /\ p[i] \in 1 .. l
         /\ n <= l
<1>1. /\ p \in [1 .. n -> 1 .. l]
      /\ \A i \in 1 .. n - 1 : p[i] < p[i + 1]
  BY DEF Placements
<1>2. \A i \in 1 .. n : p[i] \in 1 .. l
  BY <1>1
<1> DEFINE S == {j \in 0 .. n : /\ \A i \in 1 .. n : i < j => p[i] < p[j]
                                /\ j # 0 => j <= p[j]}
<1>3. 0 \in S
  OBVIOUS
<1>4. ASSUME NEW j \in 1 .. n, j - 1 \in S PROVE j \in S
  <2>1. CASE j = 1
    BY <1>2, <2>1
  <2>2. CASE j # 1
    <3> DEFINE k == j - 1
    <3>1. k \in 1 .. n - 1 /\ k + 1 = j /\ k \in 1 .. n
      BY <2>2
    <3>2. p[k] < p[j] /\ p[k] \in 1 .. l /\ p[j] \in 1 .. l
      BY <1>1, <1>2, <3>1
    <3>3. ASSUME NEW i \in 1 .. n, i < j PROVE p[i] < p[j]
      <4>1. CASE i = k
        BY <3>2, <4>1
      <4>2. CASE i # k
        <5>1. i < k
          BY <3>1, <3>3, <4>2
        <5>2. p[i] < p[k] /\ p[i] \in 1 .. l
          BY <1>2, <1>4, <5>1
        <5> QED BY <3>2, <5>2
      <4> QED BY <4>1, <4>2
    <3>4. k <= p[k]
      BY <1>4, <3>1
    <3>5. j <= p[j]
      BY <3>1, <3>2, <3>4
    <3> QED BY <3>3, <3>5
  <2> QED BY <2>1, <2>2
<1> HIDE DEF S
<1>5. 0 .. n \subseteq S
  BY <1>3, <1>4, Induction
<1>6. \A j \in 1 .. n : j \in S
  BY <1>5
<1>7. n <= l
  <2>1. CASE n = 0
    BY <2>1
  <2>2. CASE n # 0
    <3>1. n \in 1 .. n
      BY <2>2
    <3>2. n <= p[n] /\ p[n] \in 1 .. l
      BY <1>2, <1>6, <3>1 DEF S
    <3> QED BY <3>2
  <2> QED BY <2>1, <2>2
<1> QED BY <1>1, <1>2, <1>6, <1>7 DEF S

(* A placement without its last element.                                   *)
LEMMA ShorterPlacement ==
  ASSUME NEW n \in Nat, NEW l \in Nat, NEW p \in Placements(n + 1, l)
  PROVE  /\ [i \in 1 .. n |-> p[i]] \in Placements(n, p[n + 1] - 1)
         /\ p[n + 1] \in 1 .. l
<1>1. n + 1 \in Nat /\ n + 1 \in 1 .. n + 1 /\ \A i \in 1 .. n : i < n + 1
  OBVIOUS
<1>2. /\ p \in [1 .. n + 1 -> 1 .. l]
      /\ \A i, j \in 1 .. n + 1 : i < j => p[i] < p[j]
  BY <1>1, PlacementIncreases
<1>3. \A i \in 1 .. n : p[i] \in 1 .. p[n + 1] - 1
  <2> TAKE i \in 1 .. n
  <2>1. i \in 1 .. n + 1 /\ i < n + 1
    OBVIOUS
  <2>2. p[i] < p[n + 1] /\ p[i] \in 1 .. l /\ p[n + 1] \in 1 .. l
    BY <1>1, <1>2, <2>1
  <2> QED BY <2>2
<1>4. \A i \in 1 .. n - 1 : p[i] < p[i + 1]
  BY <1>2
<1> QED BY <1>1, <1>2, <1>3, <1>4 DEF Placements

(* A placement with one more element behind the others.                    *)
LEMMA LongerPlacement ==
  ASSUME NEW n \in Nat, NEW l \in Nat, NEW m \in Nat,
         NEW p \in Placements(n, l), NEW x \in 1 .. m, l < x
  PROVE  [i \in 1 .. n + 1 |-> IF i = n + 1 THEN x ELSE p[i]]
           \in Placements(n + 1, m)
<1> DEFINE q == [i \in 1 .. n + 1 |-> IF i = n + 1 THEN x ELSE p[i]]
<1>1. /\ p \in [1 .. n -> 1 .. l]
      /\ \A i \in 1 .. n - 1 : p[i] < p[i + 1]
  BY DEF Placements
<1>2. \A i \in 1 .. n + 1 : i # n + 1 => i \in 1 .. n
  OBVIOUS
<1>3. ASSUME NEW i \in 1 .. n + 1 PROVE q[i] \in 1 .. m
  <2>1. CASE i = n + 1
    BY <2>1
  <2>2. CASE i # n + 1
    <3>1. q[i] = p[i] /\ p[i] \in 1 .. l
      BY <1>1, <1>2, <2>2
    <3> QED BY <3>1
  <2> QED BY <2>1, <2>2
<1>4. ASSUME NEW i \in 1 .. n PROVE q[i] < q[i + 1]
  <2>1. q[i] = p[i] /\ p[i] \in 1 .. l
    BY <1>1
  <2>2. CASE i = n
    <3>1. q[i + 1] = x
      BY <2>2
    <3> QED BY <2>1, <3>1
  <2>3. CASE i # n
    <3>1. i \in 1 .. n - 1 /\ q[i + 1] = p[i + 1]
      BY <2>3
    <3> QED BY <1>1, <2>1, <3>1
  <2> QED BY <2>2, <2>3
<1>5. q \in [1 .. n + 1 -> 1 .. m]
  BY <1>3
<1> HIDE DEF q
<1>6. \A i \in 1 .. (n + 1) - 1 : q[i] < q[i + 1]
  BY <1>4
<1>7. q \in Placements(n + 1, m)
  BY <1>5, <1>6 DEF Placements
<1> QED BY <1>7 DEF q

(* A placement in a shorter sequence is one in a longer sequence.          *)
LEMMA WiderPlacement ==
  ASSUME NEW n \in Nat, NEW l \in Nat, NEW m \in Nat, l <= m,
         NEW p \in Placements(n, l)
  PROVE  p \in Placements(n, m)
<1>1. 1 .. l \subseteq 1 .. m
  OBVIOUS
<1> QED BY <1>1 DEF Placements

(* Some n of the first i elements of a are, in order, n of the first j     *)
(* of b.                                                                   *)
Common(n, i, j, a, b) ==
  \E f \in Placements(n, i), g \in Placements(n, j) :
    \A k \in 1 .. n : EqualsBase(a[f[k]], b[g[k]])

(* What longer beginnings have in common that end alike.                   *)
LEMMA CommonEqual ==
  ASSUME NEW n \in Nat, NEW i \in Nat, NEW j \in Nat, i # 0, j # 0,
         NEW a, NEW b, EqualsBase(a[i], b[j])
  PROVE  Common(n + 1, i, j, a, b) <=> Common(n, i - 1, j - 1, a, b)
<1>1. ASSUME Common(n + 1, i, j, a, b) PROVE Common(n, i - 1, j - 1, a, b)
  <2>1. PICK f \in Placements(n + 1, i), g \in Placements(n + 1, j) :
          \A k \in 1 .. n + 1 : EqualsBase(a[f[k]], b[g[k]])
    BY <1>1 DEF Common
  <2> DEFINE e == [k \in 1 .. n |-> f[k]]
             h == [k \in 1 .. n |-> g[k]]
  <2>2. /\ e \in Placements(n, f[n + 1] - 1) /\ f[n + 1] \in 1 .. i
        /\ h \in Placements(n, g[n + 1] - 1) /\ g[n + 1] \in 1 .. j
    BY ShorterPlacement
  <2>3. \A k \in 1 .. n : EqualsBase(a[e[k]], b[h[k]])
    BY <2>1
  <2> HIDE DEF e, h
  <2>4. e \in Placements(n, i - 1) /\ h \in Placements(n, j - 1)
    <3>1. /\ f[n + 1] - 1 \in Nat /\ i - 1 \in Nat /\ f[n + 1] - 1 <= i - 1
          /\ g[n + 1] - 1 \in Nat /\ j - 1 \in Nat /\ g[n + 1] - 1 <= j - 1
      BY <2>2
    <3> QED BY <2>2, <3>1, WiderPlacement
  <2> QED BY <2>3, <2>4 DEF Common
<1>2. ASSUME Common(n, i - 1, j - 1, a, b) PROVE Common(n + 1, i, j, a, b)
  <2>1. PICK f \in Placements(n, i - 1), g \in Placements(n, j - 1) :
          \A k \in 1 .. n : EqualsBase(a[f[k]], b[g[k]])
    BY <1>2 DEF Common
  <2> DEFINE e == [k \in 1 .. n + 1 |-> IF k = n + 1 THEN i ELSE f[k]]
             h == [k \in 1 .. n + 1 |-> IF k = n + 1 THEN j ELSE g[k]]
  <2>2. /\ i - 1 \in Nat /\ i \in 1 .. i /\ i - 1 < i
        /\ j - 1 \in Nat /\ j \in 1 .. j /\ j - 1 < j
    OBVIOUS
  <2>3. e \in Placements(n + 1, i) /\ h \in Placements(n + 1, j)
    BY <2>2, LongerPlacement
  <2>4. \A k \in 1 .. n + 1 : EqualsBase(a[e[k]], b[h[k]])
    <3>1. \A k \in 1 .. n + 1 : k = n + 1 \/ k \in 1 .. n
      BY ONLY n \in Nat
    <3>2. \A k \in 1 .. n : k # n + 1
      BY ONLY n \in Nat
    <3> QED BY <2>1, <3>1, <3>2
  <2> HIDE DEF e, h
  <2> QED BY <2>3, <2>4 DEF Common
<1> QED BY <1>1, <1>2

(* What longer beginnings have in common that do not end alike.            *)
LEMMA CommonDifferent ==
  ASSUME NEW n \in Nat, NEW i \in Nat, NEW j \in Nat, i # 0, j # 0,
         NEW a, NEW b, ~ EqualsBase(a[i], b[j])
  PROVE  Common(n, i, j, a, b) <=>
           Common(n, i, j - 1, a, b) \/ Common(n, i - 1, j, a, b)
<1>1. i - 1 \in Nat /\ i - 1 <= i /\ j - 1 \in Nat /\ j - 1 <= j
  OBVIOUS
<1>2. ASSUME Common(n, i, j - 1, a, b) \/ Common(n, i - 1, j, a, b)
      PROVE  Common(n, i, j, a, b)
  <2>1. /\ \A f \in Placements(n, i - 1) : f \in Placements(n, i)
        /\ \A g \in Placements(n, j - 1) : g \in Placements(n, j)
    BY <1>1, WiderPlacement
  <2> QED BY <1>2, <2>1 DEF Common
<1>3. ASSUME Common(n, i, j, a, b)
      PROVE  Common(n, i, j - 1, a, b) \/ Common(n, i - 1, j, a, b)
  <2>1. PICK f \in Placements(n, i), g \in Placements(n, j) :
          \A k \in 1 .. n : EqualsBase(a[f[k]], b[g[k]])
    BY <1>3 DEF Common
  <2>2. CASE n = 0
    <3>1. f \in Placements(n, i - 1)
      BY <2>2 DEF Placements
    <3> QED BY <2>1, <3>1 DEF Common
  <2>3. CASE n # 0
    <3>1. /\ f \in [1 .. n -> 1 .. i] /\ g \in [1 .. n -> 1 .. j]
          /\ n \in 1 .. n
      BY <2>3 DEF Placements
    <3>2. f[n] # i \/ g[n] # j
      BY <2>1, <3>1
    <3>3. \A k \in 1 .. n : k < n \/ k = n
      OBVIOUS
    <3>4. CASE f[n] # i
      <4>1. \A k \in 1 .. n : f[k] \in 1 .. i /\ (k < n => f[k] < f[n])
        BY <3>1, PlacementIncreases
      <4>2. ASSUME NEW k \in 1 .. n PROVE f[k] \in 1 .. i - 1
        <5>1. /\ f[k] \in 1 .. i /\ f[n] \in 1 .. i /\ f[n] # i
              /\ f[k] < f[n] \/ f[k] = f[n]
          BY <3>1, <3>3, <3>4, <4>1
        <5> QED BY ONLY i \in Nat, <5>1
      <4>3. f \in Placements(n, i - 1)
        BY <3>1, <4>2 DEF Placements
      <4> QED BY <2>1, <4>3 DEF Common
    <3>5. CASE g[n] # j
      <4>1. \A k \in 1 .. n : g[k] \in 1 .. j /\ (k < n => g[k] < g[n])
        BY <3>1, PlacementIncreases
      <4>2. ASSUME NEW k \in 1 .. n PROVE g[k] \in 1 .. j - 1
        <5>1. /\ g[k] \in 1 .. j /\ g[n] \in 1 .. j /\ g[n] # j
              /\ g[k] < g[n] \/ g[k] = g[n]
          BY <3>1, <3>3, <3>5, <4>1
        <5> QED BY ONLY j \in Nat, <5>1
      <4>3. g \in Placements(n, j - 1)
        BY <3>1, <4>2 DEF Placements
      <4> QED BY <2>1, <4>3 DEF Common
    <3> QED BY <3>2, <3>4, <3>5
  <2> QED BY <2>2, <2>3
<1> QED BY <1>2, <1>3

(* The greatest of a set of numbers that are bounded.                      *)
LEMMA Greatest ==
  ASSUME NEW k \in Nat, NEW S \in SUBSET (0 .. k), S # {}
  PROVE  Max(S) \in S /\ \A x \in S : x <= Max(S)
<1> DEFINE T == {k - x : x \in S}
<1>1. T \in SUBSET Nat /\ T # {}
  <2>1. \A x \in S : k - x \in Nat
    OBVIOUS
  <2> QED BY <2>1
<1> HIDE DEF T
<1>2. PICK n \in T : \A m \in T : n <= m
  BY <1>1, Smallest
<1>3. PICK x \in S : n = k - x
  BY <1>2 DEF T
<1>4. \A y \in S : k - x <= k - y
  BY <1>2, <1>3 DEF T
<1>5. \A y \in S : x >= y
  BY <1>3, <1>4
<1>6. Max(S) \in S /\ \A y \in S : Max(S) >= y
  BY <1>5 DEF Max
<1>7. \A y \in S : y \in Nat
  OBVIOUS
<1> QED BY <1>6, <1>7

(* The least of a set of numbers.                                          *)
LEMMA Least ==
  ASSUME NEW S \in SUBSET Nat, S # {}
  PROVE  Min(S) \in S /\ \A x \in S : Min(S) <= x
BY Smallest DEF Min

(* The number of elements that the first i of a and the first j of b have  *)
(* in common, in order.                                                    *)
Longest(i, j, a, b) == Max({n \in 0 .. i : Common(n, i, j, a, b)})

(* What Longest promises, and that there is only one such number.          *)
LEMMA LongestIs ==
  ASSUME NEW i \in Nat, NEW j \in Nat, NEW a, NEW b
  PROVE  /\ Longest(i, j, a, b) \in 0 .. i
         /\ Common(Longest(i, j, a, b), i, j, a, b)
         /\ \A n \in Nat : Common(n, i, j, a, b) => n <= Longest(i, j, a, b)
         /\ \A n \in Nat : Common(n, i, j, a, b) => n <= i /\ n <= j
<1> DEFINE S == {n \in 0 .. i : Common(n, i, j, a, b)}
<1>1. ASSUME NEW n \in Nat, Common(n, i, j, a, b) PROVE n <= i /\ n <= j
  BY <1>1, PlacementIncreases DEF Common
<1>2. Common(0, i, j, a, b)
  <2> DEFINE e == [k \in 1 .. 0 |-> 0]
  <2>1. e \in Placements(0, i) /\ e \in Placements(0, j)
    BY DEF Placements
  <2> HIDE DEF e
  <2>2. \A k \in 1 .. 0 : EqualsBase(a[e[k]], b[e[k]])
    OBVIOUS
  <2> QED BY <2>1, <2>2 DEF Common
<1>3. S \in SUBSET (0 .. i) /\ S # {}
  BY <1>2
<1>4. Max(S) \in S /\ \A x \in S : x <= Max(S)
  BY <1>3, Greatest
<1>5. \A n \in Nat : Common(n, i, j, a, b) => n \in S
  BY <1>1
<1>6. Longest(i, j, a, b) = Max(S)
  BY DEF Longest
<1> QED BY <1>1, <1>4, <1>5, <1>6

(* The greatest of two numbers.                                            *)
LEMMA Greater ==
  ASSUME NEW x \in Nat, NEW y \in Nat
  PROVE  Max({x, y}) \in {x, y} /\ x <= Max({x, y}) /\ y <= Max({x, y})
<1> DEFINE k == IF x <= y THEN y ELSE x
<1>1. {x, y} \in SUBSET (0 .. k) /\ {x, y} # {} /\ k \in Nat
  OBVIOUS
<1> HIDE DEF k
<1> QED BY <1>1, Greatest

(* The rows of LongestCommonSubsequenceLength have these numbers.          *)
LEMMA LongestUnfolds ==
  ASSUME NEW i \in Nat, NEW j \in Nat, NEW a, NEW b
  PROVE  Longest(i, j, a, b) =
           IF 0 \in {i, j} THEN 0
           ELSE IF EqualsBase(a[i], b[j]) THEN Longest(i - 1, j - 1, a, b) + 1
           ELSE Max({Longest(i, j - 1, a, b), Longest(i - 1, j, a, b)})
<1> DEFINE C(n, x, y) == Common(n, x, y, a, b)
           L(x, y) == Longest(x, y, a, b)
<1>1. \A x, y \in Nat :
        /\ L(x, y) \in Nat /\ C(L(x, y), x, y)
        /\ \A n \in Nat : C(n, x, y) => n <= L(x, y) /\ n <= x /\ n <= y
  BY LongestIs
<1>2. CASE 0 \in {i, j}
  <2>1. L(i, j) \in Nat /\ L(i, j) <= i /\ L(i, j) <= j
    BY <1>1
  <2> HIDE DEF L
  <2>2. L(i, j) = 0
    BY <1>2, <2>1
  <2> QED BY <1>2, <2>2 DEF L
<1>3. CASE 0 \notin {i, j} /\ EqualsBase(a[i], b[j])
  <2>1. i - 1 \in Nat /\ j - 1 \in Nat /\ i # 0 /\ j # 0
    BY <1>3
  <2>2. \A n \in Nat : C(n + 1, i, j) <=> C(n, i - 1, j - 1)
    BY <1>3, <2>1, CommonEqual
  <2> HIDE DEF C, L
  <2>3. L(i - 1, j - 1) + 1 <= L(i, j)
    <3>1. L(i - 1, j - 1) \in Nat /\ C(L(i - 1, j - 1), i - 1, j - 1)
      BY <1>1, <2>1
    <3>2. C(L(i - 1, j - 1) + 1, i, j) /\ L(i - 1, j - 1) + 1 \in Nat
      BY <2>2, <3>1
    <3> QED BY <1>1, <3>2
  <2>4. L(i, j) <= L(i - 1, j - 1) + 1
    <3>1. L(i, j) \in Nat /\ L(i - 1, j - 1) \in Nat
      BY <1>1, <2>1
    <3>2. CASE L(i, j) = 0
      BY <3>1, <3>2
    <3>3. CASE L(i, j) # 0
      <4> DEFINE n == L(i, j) - 1
      <4>1. n \in Nat /\ n + 1 = L(i, j)
        BY <3>1, <3>3
      <4> HIDE DEF n
      <4>2. C(n, i - 1, j - 1)
        BY <1>1, <2>2, <4>1
      <4>3. n <= L(i - 1, j - 1)
        BY <1>1, <2>1, <4>1, <4>2
      <4> QED BY <3>1, <4>1, <4>3
    <3> QED BY <3>2, <3>3
  <2>5. L(i, j) = L(i - 1, j - 1) + 1
    <3>1. L(i, j) \in Nat /\ L(i - 1, j - 1) \in Nat
      BY <1>1, <2>1
    <3> QED BY <2>3, <2>4, <3>1
  <2> QED BY <1>3, <2>5 DEF L
<1>4. CASE 0 \notin {i, j} /\ ~ EqualsBase(a[i], b[j])
  <2>1. i - 1 \in Nat /\ j - 1 \in Nat /\ i # 0 /\ j # 0
    BY <1>4
  <2>2. \A n \in Nat : C(n, i, j) <=> C(n, i, j - 1) \/ C(n, i - 1, j)
    BY <1>4, <2>1, CommonDifferent
  <2> HIDE DEF C, L
  <2> DEFINE m == Max({L(i, j - 1), L(i - 1, j)})
  <2>3. /\ L(i, j - 1) \in Nat /\ L(i - 1, j) \in Nat /\ L(i, j) \in Nat
        /\ m \in {L(i, j - 1), L(i - 1, j)}
        /\ L(i, j - 1) <= m /\ L(i - 1, j) <= m
    BY <1>1, <2>1, Greater
  <2> HIDE DEF m
  <2>4. m <= L(i, j)
    <3>1. C(m, i, j)
      BY <1>1, <2>1, <2>2, <2>3
    <3> QED BY <1>1, <2>3, <3>1
  <2>5. L(i, j) <= m
    <3>1. C(L(i, j), i, j - 1) \/ C(L(i, j), i - 1, j)
      BY <1>1, <2>2, <2>3
    <3>2. L(i, j) <= L(i, j - 1) \/ L(i, j) <= L(i - 1, j)
      BY <1>1, <2>1, <2>3, <3>1
    <3> QED BY <2>3, <3>2
  <2>6. L(i, j) = m
    BY <2>3, <2>4, <2>5
  <2> QED BY <1>4, <2>6 DEF L, m
<1> QED BY <1>2, <1>3, <1>4

(* A row, as the right-hand side of its definition.                        *)
Row(f, previous, c, b, m) ==
  [j \in 0 .. m |->
     IF j = 0 THEN 0
     ELSE IF EqualsBase(c, b[j]) THEN previous[j - 1] + 1
     ELSE Max({f[j - 1], previous[j]})]

(* The row of the lengths for prefixes of i characters.                    *)
LongestRow(i, a, b, m) == [j \in 0 .. m |-> Longest(i, j, a, b)]

(* A turn of the outer loop makes the row of the next prefix: the          *)
(* definition of a row has this solution only.                             *)
LEMMA RowIsLongest ==
  ASSUME NEW a, NEW b, NEW m \in Nat, Len(b) = m, NEW i \in Nat, i # 0
  PROVE  NextRow(LongestRow(i - 1, a, b, m), a[i], b) = LongestRow(i, a, b, m)
<1> DEFINE L(x, y) == Longest(x, y, a, b)
           p == LongestRow(i - 1, a, b, m)
           f == LongestRow(i, a, b, m)
           R(g) == Row(g, p, a[i], b, m)
<1>1. NextRow(p, a[i], b) = CHOOSE g : g = R(g)
  BY DEF NextRow, Row
<1>2. \A j \in 0 .. m :
        L(i, j) = IF j = 0 THEN 0
                  ELSE IF EqualsBase(a[i], b[j]) THEN L(i - 1, j - 1) + 1
                  ELSE Max({L(i, j - 1), L(i - 1, j)})
  <2> TAKE j \in 0 .. m
  <2>1. j \in Nat /\ (0 \in {i, j} <=> j = 0)
    OBVIOUS
  <2> HIDE DEF L
  <2>2. L(i, j) = IF 0 \in {i, j} THEN 0
                  ELSE IF EqualsBase(a[i], b[j]) THEN L(i - 1, j - 1) + 1
                  ELSE Max({L(i, j - 1), L(i - 1, j)})
    BY <2>1, LongestUnfolds DEF L
  <2> QED BY <2>1, <2>2
<1>3. \A j \in 0 .. m : j # 0 => j - 1 \in 0 .. m
  OBVIOUS
<1>4. \A j \in 0 .. m : p[j] = L(i - 1, j) /\ f[j] = L(i, j)
  BY DEF LongestRow
<1>5. f = [j \in 0 .. m |-> L(i, j)]
  BY DEF LongestRow
<1> HIDE DEF L, p, f
<1>6. f = R(f)
  <2>1. ASSUME NEW j \in 0 .. m
        PROVE  L(i, j) = IF j = 0 THEN 0
                         ELSE IF EqualsBase(a[i], b[j]) THEN p[j - 1] + 1
                         ELSE Max({f[j - 1], p[j]})
    <3>1. CASE j = 0
      BY <1>2, <3>1
    <3>2. CASE j # 0
      <4>1. /\ p[j - 1] = L(i - 1, j - 1)
            /\ f[j - 1] = L(i, j - 1) /\ p[j] = L(i - 1, j)
        BY <1>3, <1>4, <3>2
      <4> QED BY <1>2, <3>2, <4>1
    <3> QED BY <3>1, <3>2
  <2> QED BY <1>5, <2>1 DEF Row
<1>7. ASSUME NEW g, g = R(g) PROVE g = f
  <2>1. ASSUME NEW j \in 0 .. m
        PROVE  g[j] = IF j = 0 THEN 0
                      ELSE IF EqualsBase(a[i], b[j]) THEN p[j - 1] + 1
                      ELSE Max({g[j - 1], p[j]})
    <3>1. g[j] = R(g)[j]
      BY <1>7
    <3> QED BY <3>1 DEF Row
  <2>2. g = [j \in 0 .. m |-> g[j]]
    <3>1. DOMAIN R(g) = 0 .. m /\ R(g) = [j \in 0 .. m |-> R(g)[j]]
      BY DEF Row
    <3> HIDE DEF R
    <3> QED BY <1>7, <3>1
  <2> HIDE DEF R
  <2> DEFINE S == {j \in 0 .. m : g[j] = L(i, j)}
  <2>3. 0 \in S
    <3>1. 0 \in 0 .. m
      OBVIOUS
    <3> QED BY <1>2, <2>1, <3>1
  <2>4. ASSUME NEW j \in 1 .. m, j - 1 \in S PROVE j \in S
    <3>1. j \in 0 .. m /\ j # 0 /\ j - 1 \in 0 .. m
      OBVIOUS
    <3>2. /\ p[j - 1] = L(i - 1, j - 1) /\ p[j] = L(i - 1, j)
          /\ g[j - 1] = L(i, j - 1)
      BY <1>4, <2>4, <3>1
    <3>3. g[j] = L(i, j)
      BY <1>2, <2>1, <3>1, <3>2
    <3> QED BY <3>1, <3>3
  <2> HIDE DEF S
  <2>5. 0 .. m \subseteq S
    BY <2>3, <2>4, Induction
  <2>6. \A j \in 0 .. m : g[j] = L(i, j)
    BY <2>5 DEF S
  <2> QED BY <1>5, <2>2, <2>6
<1> HIDE DEF R
<1> QED BY <1>1, <1>6, <1>7 DEF p, f

(* The rows, as the right-hand side of their definition.                   *)
Rows(f, a, b, n, m) ==
  [i \in 0 .. n |-> IF i = 0 THEN [j \in 0 .. m |-> 0]
                    ELSE NextRow(f[i - 1], a[i], b)]

(* Every solution of the definition of the rows is made of these numbers,  *)
(* and there is one.                                                       *)
LEMMA RowsAreLongest ==
  ASSUME NEW a, NEW b, NEW n \in Nat, NEW m \in Nat, Len(b) = m
  PROVE  /\ \E f : f = Rows(f, a, b, n, m)
         /\ \A f : f = Rows(f, a, b, n, m) =>
              f[n][m] = Longest(n, m, a, b)
<1> DEFINE T(f) == Rows(f, a, b, n, m)
           l(i) == LongestRow(i, a, b, m)
           first == [j \in 0 .. m |-> 0]
<1>1. l(0) = first
  <2>1. ASSUME NEW j \in 0 .. m PROVE Longest(0, j, a, b) = 0
    <3> DEFINE k == Longest(0, j, a, b)
    <3>1. j \in Nat /\ 0 \in Nat
      OBVIOUS
    <3>2. k \in 0 .. 0
      BY ONLY <3>1, LongestIs
    <3> HIDE DEF k
    <3>3. k = 0
      BY <3>2
    <3> QED BY <3>3 DEF k
  <2> QED BY <2>1 DEF LongestRow
<1>2. \A i \in 1 .. n : NextRow(l(i - 1), a[i], b) = l(i)
  <2> TAKE i \in 1 .. n
  <2>1. i \in Nat /\ i # 0
    OBVIOUS
  <2> QED BY <2>1, RowIsLongest
<1>3. l(n)[m] = Longest(n, m, a, b)
  BY DEF LongestRow
<1>4. /\ \A i \in 0 .. n : i # 0 => i \in 1 .. n /\ i - 1 \in 0 .. n
      /\ \A i \in 1 .. n : i # 0 /\ i \in 0 .. n
      /\ 0 \in 0 .. n /\ n \in 0 .. n
  OBVIOUS
<1> HIDE DEF l, first
<1>5. \E f : f = T(f)
  <2> DEFINE f == [i \in 0 .. n |-> l(i)]
  <2>1. \A i \in 0 .. n : f[i] = l(i)
    OBVIOUS
  <2>2. f = [i \in 0 .. n |-> l(i)]
    OBVIOUS
  <2> HIDE DEF f
  <2>3. ASSUME NEW i \in 0 .. n
        PROVE  l(i) = IF i = 0 THEN first ELSE NextRow(f[i - 1], a[i], b)
    <3>1. CASE i = 0
      BY <1>1, <3>1
    <3>2. CASE i # 0
      <4>1. f[i - 1] = l(i - 1)
        BY <1>4, <2>1, <3>2
      <4> QED BY <1>2, <1>4, <3>2, <4>1
    <3> QED BY <3>1, <3>2
  <2>4. f = T(f)
    BY <2>2, <2>3 DEF Rows, first
  <2> QED BY <2>4
<1>6. ASSUME NEW f, f = T(f) PROVE f[n] = l(n)
  <2>1. ASSUME NEW i \in 0 .. n
        PROVE  f[i] = IF i = 0 THEN first ELSE NextRow(f[i - 1], a[i], b)
    <3>1. f[i] = T(f)[i]
      BY <1>6
    <3> QED BY <3>1 DEF Rows, first
  <2> HIDE DEF T
  <2> DEFINE S == {i \in 0 .. n : f[i] = l(i)}
  <2>2. 0 \in S
    BY <1>1, <1>4, <2>1
  <2>3. ASSUME NEW i \in 1 .. n, i - 1 \in S PROVE i \in S
    <3>1. f[i - 1] = l(i - 1)
      BY <2>3
    <3>2. f[i] = l(i)
      BY <1>2, <1>4, <2>1, <3>1
    <3> QED BY <1>4, <3>2
  <2> HIDE DEF S
  <2>4. 0 .. n \subseteq S
    BY <2>2, <2>3, Induction
  <2> QED BY <1>4, <2>4 DEF S
<1> QED BY <1>3, <1>5, <1>6

(* What two sequences have in common does not depend on their order.       *)
LEMMA CommonSymmetric ==
  ASSUME NEW n, NEW i, NEW j, NEW a, NEW b
  PROVE  Common(n, i, j, a, b) <=> Common(n, j, i, b, a)
<1>1. \A c, d : EqualsBase(c, d) <=> EqualsBase(d, c)
  BY DEF EqualsBase
<1> QED BY <1>1 DEF Common

(* LongestCommonSubsequenceLength (Result.cpp) returns the length of the   *)
(* longest sequence of characters that is, up to case and marks, in both.  *)
THEOREM LongestCommonSubsequence ==
  ASSUME NEW first, NEW second, Len(first) \in Nat, Len(second) \in Nat
  PROVE  /\ LongestCommonSubsequenceLength(first, second)
              = Max({n \in 0 .. Len(first) : HasCommon(n, first, second)})
         /\ LongestCommonSubsequenceLength(first, second) \in 0 .. Len(first)
<1> DEFINE a == IF Len(first) > Len(second) THEN first ELSE second
           b == IF Len(first) > Len(second) THEN second ELSE first
           N == Len(a)
           M == Len(b)
           l == LongestCommonSubsequenceLength(first, second)
<1>1. N \in Nat /\ M \in Nat
  OBVIOUS
<1>2. l = (CHOOSE f : f = Rows(f, a, b, N, M))[N][M]
  BY DEF LongestCommonSubsequenceLength, Rows
<1>3. /\ \E f : f = Rows(f, a, b, N, M)
      /\ \A f : f = Rows(f, a, b, N, M) => f[N][M] = Longest(N, M, a, b)
  <2> HIDE DEF a, b, N
  <2> QED BY <1>1, RowsAreLongest
<1>4. l = Longest(N, M, a, b)
  BY <1>2, <1>3
<1> HIDE DEF l
<1>5. /\ l \in Nat /\ Common(l, N, M, a, b)
      /\ \A n \in Nat : Common(n, N, M, a, b) => n <= l /\ n <= N /\ n <= M
  BY <1>1, <1>4, LongestIs
<1>6. \A n : HasCommon(n, first, second)
               <=> Common(n, Len(first), Len(second), first, second)
  BY DEF HasCommon, Common
<1>7. \A n : HasCommon(n, first, second) <=> Common(n, N, M, a, b)
  BY <1>6, CommonSymmetric
<1>8. /\ l \in 0 .. Len(first) /\ HasCommon(l, first, second)
      /\ \A n \in Nat : HasCommon(n, first, second) => n <= l
  <2>1. N = Len(first) \/ M = Len(first)
    OBVIOUS
  <2> HIDE DEF a, b, N, M
  <2> QED BY <1>1, <1>5, <1>7, <2>1
<1> DEFINE S == {n \in 0 .. Len(first) : HasCommon(n, first, second)}
<1>9. Max(S) = l
  <2>1. l \in S /\ \A n \in S : n \in Nat /\ n <= l
    BY <1>8
  <2>2. S \in SUBSET (0 .. Len(first)) /\ S # {}
    BY <2>1
  <2> HIDE DEF S
  <2> DEFINE x == Max(S)
  <2>3. x \in S /\ l <= x
    BY <2>1, <2>2, Greatest
  <2> HIDE DEF x
  <2>4. x \in Nat /\ l \in Nat /\ x <= l
    BY <1>5, <2>1, <2>3
  <2> QED BY <2>3, <2>4 DEF x
<1> QED BY <1>8, <1>9 DEF l

-----------------------------------------------------------------------------
(* The match of a query.                                                   *)

(* What the loop over a candidate knows.                                   *)
Progress == [met : Nat, sum : Nat, prefix : BOOLEAN]

(* A turn of the loop, at character i, with what it knew before.           *)
Meet(candidate, asked, i, before) ==
  IF /\ before.met < Len(asked)
     /\ MatchesSmart(asked[before.met + 1], candidate.characters[i])
  THEN [met |-> before.met + 1, sum |-> before.sum + i - 1,
        prefix |-> i = before.met + 1]
  ELSE before

(* Match is the end of a sequence of such turns.                           *)
LEMMA MatchTurns ==
  ASSUME NEW candidate, NEW asked, NEW n \in Nat
  PROVE  \E f : /\ Match(candidate, asked, n) = f[n]
                /\ f[0] = [met |-> 0, sum |-> 0, prefix |-> FALSE]
                /\ \A i \in 1 .. n :
                     f[i] = Meet(candidate, asked, i, f[i - 1])
                /\ \A i \in 0 .. n : f[i] \in Progress
<1> DEFINE base == [met |-> 0, sum |-> 0, prefix |-> FALSE]
           T(f) == [i \in 0 .. n |-> IF i = 0 THEN base
                                     ELSE Meet(candidate, asked, i, f[i - 1])]
           step == [i \in 1 .. n |-> [v \in Progress |->
                                        Meet(candidate, asked, i, v)]]
<1>1. base \in Progress
  BY DEF Progress
<1>2. ASSUME NEW i \in 1 .. n, NEW v \in Progress
      PROVE  Meet(candidate, asked, i, v) \in Progress
  <2>1. v.met \in Nat /\ v.sum \in Nat
    BY DEF Progress
  <2>2. /\ v.met + 1 \in Nat /\ v.sum + i - 1 \in Nat
        /\ (i = v.met + 1) \in BOOLEAN
    BY <2>1
  <2> QED BY <2>2 DEF Meet, Progress
<1>3. /\ step \in [1 .. n -> [Progress -> Progress]]
      /\ \A i \in 1 .. n : \A v \in Progress :
           step[i][v] = Meet(candidate, asked, i, v)
  BY <1>2
<1> HIDE DEF base, step
<1>4. \E f : f = T(f)
  <2>1. PICK f \in [0 .. n -> Progress] : Recurs(f, n, base, step)
    BY ONLY n \in Nat, <1>1, <1>3, Recursion
  <2> USE DEF Recurs
  <2>2. \A i \in 0 .. n :
          f[i] = IF i = 0 THEN base
                 ELSE Meet(candidate, asked, i, f[i - 1])
    <3> TAKE i \in 0 .. n
    <3>1. CASE i = 0
      BY <2>1, <3>1
    <3>2. CASE i # 0
      <4>1. i \in 1 .. n /\ i - 1 \in 0 .. n
        BY <3>2
      <4>2. f[i - 1] \in Progress
        BY <4>1
      <4> QED BY <1>3, <2>1, <3>2, <4>1, <4>2
    <3> QED BY <3>1, <3>2
  <2>3. f = [i \in 0 .. n |-> f[i]]
    OBVIOUS
  <2>4. f = T(f)
    BY <2>2, <2>3
  <2> QED BY <2>4
<1>5. Match(candidate, asked, n) = (CHOOSE f : f = T(f))[n]
  BY DEF Match, Meet, base
<1>6. PICK f : f = T(f) /\ Match(candidate, asked, n) = f[n]
  BY <1>4, <1>5
<1>7. /\ f[0] = base
      /\ \A i \in 1 .. n : f[i] = Meet(candidate, asked, i, f[i - 1])
  <2>1. 0 \in 0 .. n /\ \A i \in 1 .. n : i \in 0 .. n /\ i # 0
    OBVIOUS
  <2>2. \A i \in 0 .. n : f[i] = T(f)[i]
    BY <1>6
  <2> QED BY <2>1, <2>2
<1> DEFINE S == {i \in 0 .. n : f[i] \in Progress}
<1>8. 0 \in S
  BY <1>1, <1>7
<1>9. ASSUME NEW i \in 1 .. n, i - 1 \in S PROVE i \in S
  BY <1>2, <1>7, <1>9
<1> HIDE DEF S
<1>10. 0 .. n \subseteq S
  BY <1>8, <1>9, Induction
<1>11. \A i \in 0 .. n : f[i] \in Progress
  BY <1>10 DEF S
<1> QED BY <1>6, <1>7, <1>11 DEF base

(* The sum of the indices of a placement, element by element.              *)
LEMMA IndexSumUnfolds ==
  ASSUME NEW n \in Nat, NEW l \in Nat, NEW p \in [1 .. n -> 1 .. l],
         NEW k \in 0 .. n
  PROVE  /\ IndexSum(p, k) \in Nat
         /\ k = 0 => IndexSum(p, k) = 0
         /\ k # 0 => IndexSum(p, k) = IndexSum(p, k - 1) + p[k] - 1
<1> DEFINE T(f, m) == [i \in 0 .. m |-> IF i = 0 THEN 0
                                        ELSE f[i - 1] + p[i] - 1]
           step == [i \in 1 .. n |-> [v \in Nat |-> v + p[i] - 1]]
<1>1. /\ step \in [1 .. n -> [Nat -> Nat]]
      /\ \A i \in 1 .. n : \A v \in Nat : step[i][v] = v + p[i] - 1
  <2>1. ASSUME NEW i \in 1 .. n, NEW v \in Nat PROVE v + p[i] - 1 \in Nat
    <3>1. p[i] \in Nat /\ p[i] >= 1
      OBVIOUS
    <3> QED BY <3>1
  <2> QED BY <2>1
<1> HIDE DEF step
<1>2. PICK g \in [0 .. n -> Nat] : Recurs(g, n, 0, step)
  <2>1. 0 \in Nat
    OBVIOUS
  <2> QED BY ONLY n \in Nat, <1>1, <2>1, Recursion
<1>3. g[0] = 0 /\ \A i \in 1 .. n : g[i] = g[i - 1] + p[i] - 1
  <2>1. ASSUME NEW i \in 1 .. n PROVE g[i] = g[i - 1] + p[i] - 1
    <3>1. g[i - 1] \in Nat
      OBVIOUS
    <3> QED BY <1>1, <1>2, <3>1 DEF Recurs
  <2> QED BY <1>2, <2>1 DEF Recurs
<1>4. ASSUME NEW m \in 0 .. n PROVE IndexSum(p, m) = g[m]
  <2>1. IndexSum(p, m) = (CHOOSE f : f = T(f, m))[m]
    BY DEF IndexSum
  <2>2. \E f : f = T(f, m)
    <3> DEFINE h == [i \in 0 .. m |-> g[i]]
    <3>1. \A i \in 0 .. m : h[i] = IF i = 0 THEN 0 ELSE h[i - 1] + p[i] - 1
      <4> TAKE i \in 0 .. m
      <4>1. CASE i = 0
        BY <1>3, <4>1
      <4>2. CASE i # 0
        <5>1. i \in 1 .. n /\ i - 1 \in 0 .. m
          BY <4>2
        <5> QED BY <1>3, <4>2, <5>1
      <4> QED BY <4>1, <4>2
    <3>2. h = [i \in 0 .. m |-> h[i]]
      OBVIOUS
    <3> HIDE DEF h
    <3>3. h = T(h, m)
      BY <3>1, <3>2
    <3> QED BY <3>3
  <2>3. PICK f : f = T(f, m) /\ IndexSum(p, m) = f[m]
    BY <2>1, <2>2
  <2>4. f[0] = 0 /\ \A i \in 1 .. m : f[i] = f[i - 1] + p[i] - 1
    <3>1. 0 \in 0 .. m /\ \A i \in 1 .. m : i \in 0 .. m /\ i # 0
      OBVIOUS
    <3>2. \A i \in 0 .. m : f[i] = T(f, m)[i]
      BY <2>3
    <3> QED BY <3>1, <3>2
  <2> DEFINE S == {i \in 0 .. m : f[i] = g[i]}
  <2>5. 0 \in S
    BY <1>3, <2>4
  <2>6. ASSUME NEW i \in 1 .. m, i - 1 \in S PROVE i \in S
    <3>1. i \in 1 .. n
      OBVIOUS
    <3> QED BY <1>3, <2>4, <2>6, <3>1
  <2> HIDE DEF S
  <2>7. 0 .. m \subseteq S
    <3>1. m \in Nat
      OBVIOUS
    <3> QED BY ONLY <2>5, <2>6, <3>1, Induction
  <2>8. m \in S
    BY <2>7
  <2> QED BY <2>3, <2>8 DEF S
<1>5. k # 0 => k \in 1 .. n /\ k - 1 \in 0 .. n
  OBVIOUS
<1> QED BY <1>3, <1>4, <1>5

(* Smaller indices have a smaller sum.                                     *)
LEMMA IndexSumMonotone ==
  ASSUME NEW n \in Nat, NEW l \in Nat, NEW p \in [1 .. n -> 1 .. l],
         NEW m \in Nat, NEW o \in Nat, NEW e \in [1 .. m -> 1 .. o],
         NEW k \in Nat, k <= n, k <= m, \A i \in 1 .. k : p[i] <= e[i]
  PROVE  IndexSum(p, k) <= IndexSum(e, k)
<1> DEFINE S == {i \in 0 .. k : IndexSum(p, i) <= IndexSum(e, i)}
<1>1. \A i \in 0 .. k : i \in 0 .. n /\ i \in 0 .. m
  OBVIOUS
<1>2. \A i \in 0 .. k :
        /\ IndexSum(p, i) \in Nat /\ IndexSum(e, i) \in Nat
        /\ i = 0 => IndexSum(p, i) = 0 /\ IndexSum(e, i) = 0
        /\ i # 0 => /\ IndexSum(p, i) = IndexSum(p, i - 1) + p[i] - 1
                    /\ IndexSum(e, i) = IndexSum(e, i - 1) + e[i] - 1
  <2> TAKE i \in 0 .. k
  <2>1. i \in 0 .. n /\ i \in 0 .. m
    BY <1>1
  <2>2. /\ IndexSum(p, i) \in Nat
        /\ i = 0 => IndexSum(p, i) = 0
        /\ i # 0 => IndexSum(p, i) = IndexSum(p, i - 1) + p[i] - 1
    <3>1. i \in 0 .. n
      BY <2>1
    <3> QED BY ONLY n \in Nat, l \in Nat, p \in [1 .. n -> 1 .. l], <3>1,
                    IndexSumUnfolds, ZenonT(60)
  <2>3. /\ IndexSum(e, i) \in Nat
        /\ i = 0 => IndexSum(e, i) = 0
        /\ i # 0 => IndexSum(e, i) = IndexSum(e, i - 1) + e[i] - 1
    <3>1. i \in 0 .. m
      BY <2>1
    <3> QED BY ONLY m \in Nat, o \in Nat, e \in [1 .. m -> 1 .. o], <3>1,
                    IndexSumUnfolds, ZenonT(60)
  <2> QED BY <2>2, <2>3
<1>3. 0 \in S
  <2>1. 0 \in 0 .. k
    OBVIOUS
  <2>2. IndexSum(p, 0) = 0 /\ IndexSum(e, 0) = 0
    BY <1>2, <2>1
  <2> QED BY <2>1, <2>2
<1>4. ASSUME NEW i \in 1 .. k, i - 1 \in S PROVE i \in S
  <2>1. i \in 0 .. k /\ i # 0 /\ i - 1 \in 0 .. k
    OBVIOUS
  <2>2. p[i] \in Nat /\ e[i] \in Nat /\ p[i] <= e[i]
    OBVIOUS
  <2> DEFINE x == IndexSum(p, i - 1)
             y == IndexSum(e, i - 1)
  <2>3. x \in Nat /\ y \in Nat /\ x <= y
    BY <1>2, <1>4, <2>1
  <2>4. IndexSum(p, i) = x + p[i] - 1 /\ IndexSum(e, i) = y + e[i] - 1
    BY <1>2, <2>1
  <2> HIDE DEF x, y
  <2>5. IndexSum(p, i) <= IndexSum(e, i)
    BY ONLY <2>2, <2>3, <2>4, SMTT(60)
  <2> QED BY <2>1, <2>5
<1> HIDE DEF S
<1>5. 0 .. k \subseteq S
  BY ONLY k \in Nat, <1>3, <1>4, Induction
<1>6. k \in S
  BY <1>5
<1> QED BY <1>6 DEF S

(* The first k characters of a query are placed among the first n of a     *)
(* candidate.                                                              *)
Embeds(p, k, n, candidate, asked) ==
  /\ p \in Placements(k, n)
  /\ \A i \in 1 .. k : MatchesSmart(asked[i], candidate.characters[p[i]])

(* The loop has placed as much of the query as can be placed, and each     *)
(* character as far to the left as it can be.                              *)
Greedy(p, v, n, candidate, asked) ==
  /\ v.met <= Len(asked)
  /\ Embeds(p, v.met, n, candidate, asked)
  /\ v.sum = IndexSum(p, v.met)
  /\ v.prefix <=> v.met # 0 /\ p[v.met] = v.met
  /\ \A k \in 0 .. Len(asked) : \A e :
       Embeds(e, k, n, candidate, asked) =>
         k <= v.met /\ \A i \in 1 .. k : p[i] <= e[i]

(* The placements in a candidate up to n are those up to n - 1, and those  *)
(* that end at n.                                                          *)
LEMMA EmbedsOneLess ==
  ASSUME NEW candidate, NEW asked, NEW n \in Nat, NEW k \in Nat, NEW e,
         Embeds(e, k, n + 1, candidate, asked)
  PROVE  \/ Embeds(e, k, n, candidate, asked)
         \/ /\ k # 0 /\ e[k] = n + 1
            /\ MatchesSmart(asked[k], candidate.characters[n + 1])
            /\ Embeds([i \in 1 .. k - 1 |-> e[i]], k - 1, n, candidate, asked)
<1>1. /\ e \in Placements(k, n + 1) /\ n + 1 \in Nat
      /\ \A i \in 1 .. k : MatchesSmart(asked[i], candidate.characters[e[i]])
  BY DEF Embeds
<1>2. /\ e \in [1 .. k -> 1 .. n + 1]
      /\ \A i, j \in 1 .. k : i < j => e[i] < e[j]
  BY <1>1, PlacementIncreases
<1>3. CASE k = 0
  <2>1. e \in Placements(k, n)
    BY <1>1, <1>3 DEF Placements
  <2> QED BY <1>1, <2>1 DEF Embeds
<1>4. CASE k # 0 /\ e[k] # n + 1
  <2>1. ASSUME NEW i \in 1 .. k PROVE e[i] \in 1 .. n
    <3>1. k \in 1 .. k /\ (i < k \/ i = k)
      BY <1>4
    <3>2. /\ e[i] \in 1 .. n + 1 /\ e[k] \in 1 .. n + 1 /\ e[k] # n + 1
          /\ e[i] < e[k] \/ e[i] = e[k]
      BY <1>2, <1>4, <3>1
    <3> QED BY ONLY n \in Nat, <3>2
  <2>2. e \in Placements(k, n)
    BY <1>1, <1>2, <2>1 DEF Placements
  <2> QED BY <1>1, <2>2 DEF Embeds
<1>5. CASE k # 0 /\ e[k] = n + 1
  <2> DEFINE m == k - 1
             r == [i \in 1 .. m |-> e[i]]
  <2>1. m \in Nat /\ m + 1 = k /\ k \in 1 .. k
    BY <1>5
  <2>2. \A i \in 1 .. m : i \in 1 .. k
    BY <2>1
  <2> HIDE DEF m
  <2>3. r \in Placements(m, n)
    <3>1. r \in Placements(m, e[m + 1] - 1)
      BY <1>1, <2>1, ShorterPlacement
    <3>2. e[m + 1] - 1 = n
      BY <1>5, <2>1
    <3> QED BY <3>1, <3>2
  <2>4. \A i \in 1 .. m : MatchesSmart(asked[i], candidate.characters[r[i]])
    BY <1>1, <2>2
  <2>5. Embeds(r, m, n, candidate, asked)
    BY <2>3, <2>4 DEF Embeds
  <2>6. MatchesSmart(asked[k], candidate.characters[n + 1])
    BY <1>1, <1>5, <2>1
  <2> QED BY <1>5, <2>5, <2>6 DEF m
<1> QED BY <1>3, <1>4, <1>5

(* A turn of the loop goes on with this.                                   *)
LEMMA GreedyTurn ==
  ASSUME NEW candidate, NEW asked, Len(asked) \in Nat, NEW n \in Nat,
         NEW v \in Progress, NEW p, Greedy(p, v, n, candidate, asked)
  PROVE  \E r : Greedy(r, Meet(candidate, asked, n + 1, v), n + 1,
                       candidate, asked)
<1> DEFINE c == candidate
           q == asked
           m == v.met
           w == Meet(c, q, n + 1, v)
<1>1. /\ m \in Nat /\ v.sum \in Nat /\ v.prefix \in BOOLEAN
      /\ m <= Len(q) /\ n + 1 \in Nat /\ n <= n + 1
  BY DEF Greedy, Progress
<1>2. /\ Embeds(p, m, n, c, q)
      /\ v.sum = IndexSum(p, m)
      /\ v.prefix <=> m # 0 /\ p[m] = m
      /\ \A k \in 0 .. Len(q) : \A e :
           Embeds(e, k, n, c, q) => k <= m /\ \A i \in 1 .. k : p[i] <= e[i]
  BY DEF Greedy
<1>3. /\ p \in Placements(m, n) /\ p \in [1 .. m -> 1 .. n]
      /\ \A i \in 1 .. m : MatchesSmart(q[i], c.characters[p[i]])
  BY <1>2 DEF Embeds, Placements
<1>4. CASE ~ (m < Len(q) /\ MatchesSmart(q[m + 1], c.characters[n + 1]))
  <2>1. w = v
    BY <1>4 DEF Meet
  <2>2. Embeds(p, m, n + 1, c, q)
    <3>1. p \in Placements(m, n + 1)
      BY <1>1, <1>3, WiderPlacement
    <3> QED BY <1>3, <3>1 DEF Embeds
  <2>3. ASSUME NEW k \in 0 .. Len(q), NEW e, Embeds(e, k, n + 1, c, q)
        PROVE  k <= m /\ \A i \in 1 .. k : p[i] <= e[i]
    <3>1. CASE Embeds(e, k, n, c, q)
      BY <1>2, <3>1
    <3>2. CASE ~ Embeds(e, k, n, c, q)
      <4> DEFINE d == [i \in 1 .. k - 1 |-> e[i]]
      <4>1. /\ k # 0 /\ e[k] = n + 1
            /\ MatchesSmart(q[k], c.characters[n + 1])
            /\ Embeds(d, k - 1, n, c, q)
        <5>1. k \in Nat
          OBVIOUS
        <5> HIDE DEF d
        <5> QED BY <2>3, <3>2, <5>1, EmbedsOneLess DEF d
      <4>2. k - 1 \in 0 .. Len(q)
        BY <4>1
      <4>3. k - 1 <= m /\ \A i \in 1 .. k - 1 : p[i] <= d[i]
        BY <1>2, <4>1, <4>2
      <4>4. k <= m
        <5>1. k - 1 # m
          <6>1. SUFFICES ASSUME k - 1 = m PROVE FALSE
            OBVIOUS
          <6>2. k = m + 1 /\ m < Len(q)
            BY <1>1, <6>1
          <6> QED BY <1>4, <4>1, <6>2
        <5> QED BY ONLY <1>1, <4>3, <5>1, k \in 0 .. Len(q), Len(q) \in Nat
      <4>5. ASSUME NEW i \in 1 .. k PROVE p[i] <= e[i]
        <5>1. CASE i = k
          <6>1. p[k] \in 1 .. n
            BY <1>1, <1>3, <4>1, <4>4
          <6> QED BY <4>1, <5>1, <6>1
        <5>2. CASE i # k
          <6>1. i \in 1 .. k - 1
            BY <5>2
          <6> QED BY <4>3, <6>1
        <5> QED BY <5>1, <5>2
      <4> QED BY <4>4, <4>5
    <3> QED BY <3>1, <3>2
  <2>4. Greedy(p, v, n + 1, c, q)
    BY <1>1, <1>2, <2>2, <2>3 DEF Greedy
  <2> QED BY <2>1, <2>4
<1>5. CASE m < Len(q) /\ MatchesSmart(q[m + 1], c.characters[n + 1])
  <2> DEFINE r == [i \in 1 .. m + 1 |-> IF i = m + 1 THEN n + 1 ELSE p[i]]
  <2>1. w = [met |-> m + 1, sum |-> v.sum + (n + 1) - 1,
             prefix |-> n + 1 = m + 1]
    BY <1>5 DEF Meet
  <2>2. r \in Placements(m + 1, n + 1)
    <3>1. n + 1 \in 1 .. n + 1 /\ n < n + 1
      OBVIOUS
    <3> QED BY <1>1, <1>3, <3>1, LongerPlacement
  <2>3. /\ r \in [1 .. m + 1 -> 1 .. n + 1] /\ r[m + 1] = n + 1
        /\ \A i \in 1 .. m : i \in 1 .. m + 1 /\ r[i] = p[i]
        /\ \A i \in 1 .. m + 1 : i \in 1 .. m \/ i = m + 1
    <3>1. /\ m + 1 \in 1 .. m + 1
          /\ \A i \in 1 .. m : i \in 1 .. m + 1 /\ i # m + 1
      BY <1>1
    <3>2. \A i \in 1 .. m + 1 : i \in 1 .. m \/ i = m + 1
      BY <1>1
    <3> QED BY <2>2, <3>1, <3>2 DEF Placements
  <2> HIDE DEF r
  <2>4. Embeds(r, m + 1, n + 1, c, q)
    BY <1>3, <1>5, <2>2, <2>3 DEF Embeds
  <2>5. v.sum + (n + 1) - 1 = IndexSum(r, m + 1)
    <3>1. m + 1 \in Nat /\ m + 1 \in 0 .. m + 1 /\ m \in 0 .. m + 1 /\ m + 1 # 0
          /\ m + 1 - 1 = m /\ m <= m + 1 /\ m <= m
      BY <1>1
    <3>2. /\ IndexSum(r, m + 1) = IndexSum(r, m) + r[m + 1] - 1
          /\ IndexSum(r, m) \in Nat
      <4> DEFINE x == m + 1
                 y == n + 1
      <4>1. /\ x \in Nat /\ y \in Nat /\ r \in [1 .. x -> 1 .. y]
            /\ x \in 0 .. x /\ m \in 0 .. x /\ x # 0
        BY <1>1, <2>3, <3>1
      <4> HIDE DEF x, y, m
      <4>2. /\ IndexSum(r, x) = IndexSum(r, x - 1) + r[x] - 1
            /\ IndexSum(r, m) \in Nat
        BY ONLY <4>1, IndexSumUnfolds
      <4> QED BY <3>1, <4>2 DEF x
    <3>3. \A i \in 1 .. m : r[i] = p[i] /\ p[i] \in Nat
      BY <1>3, <2>3
    <3>4. \A i \in 1 .. m : r[i] <= p[i] /\ p[i] <= r[i]
      BY <3>3
    <3>5. IndexSum(r, m) <= IndexSum(p, m) /\ IndexSum(p, m) <= IndexSum(r, m)
      BY <1>1, <1>3, <2>3, <3>1, <3>4, IndexSumMonotone
    <3>6. IndexSum(r, m) = IndexSum(p, m)
      BY <1>1, <1>2, <3>2, <3>5
    <3> QED BY <1>1, <1>2, <2>3, <3>2, <3>6
  <2>6. ASSUME NEW k \in 0 .. Len(q), NEW e, Embeds(e, k, n + 1, c, q)
        PROVE  k <= m + 1 /\ \A i \in 1 .. k : r[i] <= e[i]
    <3>1. CASE Embeds(e, k, n, c, q)
      <4>1. k <= m /\ \A i \in 1 .. k : p[i] <= e[i]
        BY <1>2, <3>1
      <4>2. k <= m + 1 /\ \A i \in 1 .. k : i \in 1 .. m
        BY <1>1, <4>1
      <4> QED BY <2>3, <4>1, <4>2
    <3>2. CASE ~ Embeds(e, k, n, c, q)
      <4> DEFINE d == [i \in 1 .. k - 1 |-> e[i]]
      <4>1. /\ k # 0 /\ e[k] = n + 1
            /\ MatchesSmart(q[k], c.characters[n + 1])
            /\ Embeds(d, k - 1, n, c, q)
        <5>1. k \in Nat
          OBVIOUS
        <5> HIDE DEF d
        <5> QED BY <2>6, <3>2, <5>1, EmbedsOneLess DEF d
      <4>2. k - 1 \in 0 .. Len(q)
        BY <4>1
      <4>3. k - 1 <= m /\ \A i \in 1 .. k - 1 : p[i] <= d[i]
        BY <1>2, <4>1, <4>2
      <4>4. k <= m + 1
        BY ONLY <1>1, <4>3, k \in 0 .. Len(q), Len(q) \in Nat
      <4>5. ASSUME NEW i \in 1 .. k PROVE r[i] <= e[i]
        <5>1. CASE i = k
          <6>1. k \in 1 .. m + 1
            BY <1>1, <4>1, <4>4
          <6>2. r[k] \in 1 .. n + 1
            BY <2>3, <6>1
          <6> QED BY <4>1, <5>1, <6>2
        <5>2. CASE i # k
          <6>1. i \in 1 .. k - 1 /\ i \in 1 .. m
            BY <1>1, <4>3, <5>2
          <6> QED BY <2>3, <4>3, <6>1
        <5> QED BY <5>1, <5>2
      <4> QED BY <4>4, <4>5
    <3> QED BY <3>1, <3>2
  <2>7. Greedy(r, w, n + 1, c, q)
    <3>1. m + 1 <= Len(q) /\ m + 1 # 0
      BY <1>1, <1>5
    <3>2. w.met = m + 1 /\ w.sum = v.sum + (n + 1) - 1
          /\ w.prefix = (n + 1 = m + 1)
      BY <2>1
    <3> HIDE DEF w
    <3>3. /\ w.met <= Len(q)
          /\ Embeds(r, w.met, n + 1, c, q)
          /\ w.sum = IndexSum(r, w.met)
      BY <2>4, <2>5, <3>1, <3>2
    <3>4. w.prefix <=> w.met # 0 /\ r[w.met] = w.met
      BY <2>3, <3>1, <3>2
    <3>5. ASSUME NEW k \in 0 .. Len(q), NEW e, Embeds(e, k, n + 1, c, q)
          PROVE  k <= w.met /\ \A i \in 1 .. k : r[i] <= e[i]
      BY <2>6, <3>2, <3>5
    <3> QED BY <3>3, <3>4, <3>5 DEF Greedy
  <2> QED BY <2>7
<1> QED BY <1>4, <1>5

(* So Match is greedy.                                                     *)
LEMMA MatchIsGreedy ==
  ASSUME NEW candidate, NEW asked, Len(asked) \in Nat, NEW n \in Nat
  PROVE  /\ Match(candidate, asked, n) \in Progress
         /\ \E p : Greedy(p, Match(candidate, asked, n), n, candidate, asked)
<1>1. PICK f : /\ Match(candidate, asked, n) = f[n]
               /\ f[0] = [met |-> 0, sum |-> 0, prefix |-> FALSE]
               /\ \A i \in 1 .. n :
                    f[i] = Meet(candidate, asked, i, f[i - 1])
               /\ \A i \in 0 .. n : f[i] \in Progress
  BY MatchTurns
<1> DEFINE S == {i \in 0 .. n : \E p : Greedy(p, f[i], i, candidate, asked)}
<1>2. 0 \in S
  <2> DEFINE p == [i \in 1 .. 0 |-> 0]
  <2>1. p \in Placements(0, 0) /\ p \in [1 .. 0 -> 1 .. 0]
    BY DEF Placements
  <2> HIDE DEF p
  <2>2. Embeds(p, 0, 0, candidate, asked)
    BY <2>1 DEF Embeds
  <2>3. IndexSum(p, 0) = 0
    <3>1. 0 \in Nat /\ 0 \in 0 .. 0
      OBVIOUS
    <3> QED BY ONLY <2>1, <3>1, IndexSumUnfolds, ZenonT(60)
  <2>4. ASSUME NEW k \in 0 .. Len(asked), NEW e,
               Embeds(e, k, 0, candidate, asked)
        PROVE  k <= 0 /\ \A i \in 1 .. k : p[i] <= e[i]
    <3>1. k \in Nat /\ 0 \in Nat /\ e \in Placements(k, 0)
      BY <2>4 DEF Embeds
    <3>2. k <= 0
      BY <3>1, PlacementIncreases
    <3>3. k = 0
      BY <3>1, <3>2
    <3> QED BY <3>3
  <2>5. Greedy(p, f[0], 0, candidate, asked)
    BY <1>1, <2>2, <2>3, <2>4 DEF Greedy
  <2> QED BY <2>5
<1>3. ASSUME NEW i \in 1 .. n, i - 1 \in S PROVE i \in S
  <2> DEFINE m == i - 1
  <2>1. m \in Nat /\ m + 1 = i /\ m \in 0 .. n /\ i \in 0 .. n
    OBVIOUS
  <2> HIDE DEF m
  <2>2. PICK p : Greedy(p, f[m], m, candidate, asked)
    BY <1>3 DEF m
  <2>3. f[m] \in Progress /\ f[i] = Meet(candidate, asked, m + 1, f[m])
    BY <1>1, <2>1 DEF m
  <2>4. \E r : Greedy(r, f[i], m + 1, candidate, asked)
    BY <2>1, <2>2, <2>3, GreedyTurn
  <2> QED BY <2>1, <2>4
<1> HIDE DEF S
<1>4. 0 .. n \subseteq S
  BY <1>2, <1>3, Induction
<1>5. n \in S /\ n \in 0 .. n
  BY <1>4
<1> QED BY <1>1, <1>5 DEF S

(* Embeds, said of a whole query and a whole candidate.                    *)
LEMMA EmbeddingsEmbed ==
  ASSUME NEW S, NEW T, NEW q \in Seq(S), NEW candidate,
         candidate.characters \in Seq(T), NEW p
  PROVE  p \in Embeddings(q, candidate.characters) <=>
           Embeds(p, Len(q), Len(candidate.characters), candidate, q)
<1>1. DOMAIN q = 1 .. Len(q)
  OBVIOUS
<1> QED BY <1>1 DEF Embeddings, Embeds

(* Candidate::QueryMatchResult (Candidate.cpp:76-102) finds the query in   *)
(* the candidate whenever it can be found; of all the ways to place its    *)
(* characters the one it counts has the least sum of indices, and it says  *)
(* that the query is a prefix when it can be placed at the front.          *)
THEOREM MatchFindsTheLeastEmbedding ==
  ASSUME NEW S, NEW T, NEW q \in Seq(S), NEW candidate,
         candidate.characters \in Seq(T)
  PROVE  LET result     == QueryMatchResult(candidate, q)
             embeddings == Embeddings(q, candidate.characters)
         IN  /\ result.isSubsequence <=> embeddings # {}
             /\ result.isSubsequence =>
                  /\ result.indexSum =
                       Min({IndexSum(p, Len(q)) : p \in embeddings})
                  /\ q # <<>> => (result.queryIsPrefix <=>
                                    [i \in DOMAIN q |-> i] \in embeddings)
<1> DEFINE chars      == candidate.characters
           n          == Len(chars)
           l          == Len(q)
           v          == Match(candidate, q, n)
           result     == QueryMatchResult(candidate, q)
           embeddings == Embeddings(q, chars)
           front      == [i \in DOMAIN q |-> i]
<1>1. n \in Nat /\ l \in Nat /\ DOMAIN q = 1 .. l /\ (q # <<>> <=> l # 0)
  OBVIOUS
<1>2. v \in Progress /\ \E p : Greedy(p, v, n, candidate, q)
  BY <1>1, MatchIsGreedy
<1>3. PICK p : Greedy(p, v, n, candidate, q)
  BY <1>2
<1>4. \A e : e \in embeddings <=> Embeds(e, l, n, candidate, q)
  BY EmbeddingsEmbed
<1>5. result = IF v.met < l THEN NotASubsequence
               ELSE NewResult(candidate, q, v.sum, v.prefix)
  BY DEF QueryMatchResult, ResultOf
<1>6. v.met \in Nat /\ v.sum \in Nat /\ v.prefix \in BOOLEAN /\ v.met <= l
  BY <1>2, <1>3 DEF Progress, Greedy
<1> HIDE DEF v, result, embeddings
<1>7. result.isSubsequence <=> v.met = l
  <2>1. CASE v.met < l
    BY <1>1, <1>5, <1>6, <2>1 DEF NotASubsequence
  <2>2. CASE ~ (v.met < l)
    BY <1>1, <1>5, <1>6, <2>2 DEF NewResult
  <2> QED BY <2>1, <2>2
<1>8. embeddings # {} => v.met = l
  <2>1. SUFFICES ASSUME NEW e \in embeddings PROVE v.met = l
    OBVIOUS
  <2>2. Embeds(e, l, n, candidate, q) /\ l \in 0 .. l
    BY <1>1, <1>4
  <2>3. l <= v.met
    BY <1>3, <2>2 DEF Greedy
  <2> QED BY <1>1, <1>6, <2>3
<1>9. ASSUME v.met = l
      PROVE  /\ p \in embeddings
             /\ result.indexSum = Min({IndexSum(e, l) : e \in embeddings})
             /\ q # <<>> => (result.queryIsPrefix <=> front \in embeddings)
  <2>1. /\ Embeds(p, l, n, candidate, q) /\ v.sum = IndexSum(p, l)
        /\ v.prefix <=> l # 0 /\ p[l] = l
        /\ \A e : Embeds(e, l, n, candidate, q) =>
             \A i \in 1 .. l : p[i] <= e[i]
    <3>1. l \in 0 .. l
      BY <1>1
    <3> QED BY <1>3, <1>9, <3>1 DEF Greedy
  <2>2. result.indexSum = v.sum /\ result.queryIsPrefix = v.prefix
    <3>1. ~ (v.met < l)
      BY <1>1, <1>9
    <3> QED BY <1>5, <3>1 DEF NewResult
  <2>3. p \in embeddings /\ p \in Placements(l, n)
    BY <1>4, <2>1 DEF Embeds
  <2>4. /\ p \in [1 .. l -> 1 .. n]
        /\ \A i, j \in 1 .. l : i < j => p[i] < p[j]
        /\ \A i \in 1 .. l : i <= p[i] /\ p[i] \in 1 .. n
    BY <1>1, <2>3, PlacementIncreases
  <2>5. ASSUME NEW e \in embeddings
        PROVE  IndexSum(e, l) \in Nat /\ IndexSum(p, l) <= IndexSum(e, l)
    <3>1. Embeds(e, l, n, candidate, q) /\ e \in Placements(l, n)
      BY <1>4 DEF Embeds
    <3>2. e \in [1 .. l -> 1 .. n]
      BY <3>1 DEF Placements
    <3>3. \A i \in 1 .. l : p[i] <= e[i]
      BY <2>1, <3>1
    <3>4. l \in 0 .. l /\ l <= l
      BY <1>1
    <3> HIDE DEF l, n
    <3>5. IndexSum(e, l) \in Nat
      BY ONLY <1>1, <3>2, <3>4, IndexSumUnfolds
    <3>6. IndexSum(p, l) <= IndexSum(e, l)
      BY ONLY <1>1, <2>4, <3>2, <3>3, <3>4, IndexSumMonotone
    <3> QED BY <3>5, <3>6
  <2>6. v.sum = Min({IndexSum(e, l) : e \in embeddings})
    <3> DEFINE sums == {IndexSum(e, l) : e \in embeddings}
    <3>1. IndexSum(p, l) \in sums /\ sums # {}
      BY <2>3
    <3>2. /\ sums \in SUBSET Nat
          /\ \A s \in sums : IndexSum(p, l) <= s
      BY <2>5
    <3> HIDE DEF sums
    <3>3. Min(sums) \in sums /\ \A s \in sums : Min(sums) <= s
      BY <3>1, <3>2, Least
    <3>4. /\ IndexSum(p, l) \in Nat /\ Min(sums) \in Nat
          /\ IndexSum(p, l) <= Min(sums) /\ Min(sums) <= IndexSum(p, l)
      BY <3>1, <3>2, <3>3
    <3>5. IndexSum(p, l) = Min(sums)
      BY ONLY <3>4
    <3> QED BY <2>1, <3>5 DEF sums
  <2>7. ASSUME q # <<>> PROVE v.prefix <=> front \in embeddings
    <3>1. l # 0 /\ l \in 1 .. l
      BY <1>1, <2>7
    <3>2. ASSUME v.prefix PROVE front \in embeddings
      <4>1. p[l] = l
        BY <2>1, <3>2
      <4> DEFINE D == {k \in 0 .. l : k = l \/ p[l - k] = l - k}
      <4>2. ASSUME NEW k \in 1 .. l - 1, p[k + 1] = k + 1 PROVE p[k] = k
        <5>1. k \in 1 .. l /\ k + 1 \in 1 .. l /\ k < k + 1
          BY <1>1
        <5>2. p[k] \in Nat /\ k <= p[k] /\ p[k] < p[k + 1]
          BY <2>4, <5>1
        <5> QED BY ONLY <4>2, <5>1, <5>2, l \in Nat
      <4>3. 0 \in D
        BY <1>1, <4>1
      <4>4. ASSUME NEW k \in 1 .. l, k - 1 \in D PROVE k \in D
        <5>1. CASE k = l
          BY <1>1, <5>1
        <5>2. CASE k # l
          <6> DEFINE j == l - k
          <6>1. j \in 1 .. l - 1 /\ l - (k - 1) = j + 1 /\ k - 1 # l
                /\ k \in 0 .. l
            <7> HIDE DEF l
            <7> QED BY ONLY <1>1, <5>2, k \in 1 .. l
          <6>2. p[j + 1] = j + 1
            BY <4>4, <6>1
          <6> HIDE DEF j
          <6>3. p[j] = j
            BY <4>2, <6>1, <6>2
          <6> QED BY <6>1, <6>3 DEF j
        <5> QED BY <5>1, <5>2
      <4> HIDE DEF D
      <4>5. 0 .. l \subseteq D
        BY <1>1, <4>3, <4>4, Induction
      <4>6. ASSUME NEW i \in 1 .. l PROVE p[i] = i
        <5> DEFINE k == l - i
        <5>1. k \in 0 .. l /\ k # l /\ l - k = i
          <6> HIDE DEF l
          <6> QED BY ONLY <1>1, i \in 1 .. l
        <5> HIDE DEF k
        <5> QED BY <4>5, <5>1 DEF D
      <4>7. front = p
        BY <1>1, <2>4, <4>6
      <4> QED BY <2>3, <4>7
    <3>3. ASSUME front \in embeddings PROVE v.prefix
      <4>1. \A i \in 1 .. l : p[i] <= front[i]
        BY <1>4, <2>1, <3>3
      <4>2. p[l] <= front[l] /\ front[l] = l /\ l <= p[l] /\ p[l] \in 1 .. n
        BY <1>1, <2>4, <3>1, <4>1
      <4>3. p[l] = l
        BY ONLY <1>1, <4>2
      <4> QED BY <1>6, <2>1, <3>1, <4>3
    <3> QED BY <1>6, <3>2, <3>3
  <2> QED BY <2>2, <2>3, <2>6, <2>7
<1>10. embeddings # {} <=> v.met = l
  BY <1>8, <1>9
<1> QED BY <1>7, <1>8, <1>9, <1>10 DEF result, embeddings

-----------------------------------------------------------------------------
(* What the loops over code points and characters return.                  *)

(* What the loop of BreakCodePointsIntoCharacters keeps.                   *)
Broken == [characters : Seq(Seq(NormalCodePoints)), emoji : BOOLEAN,
           odd : BOOLEAN, within : BOOLEAN, seen : BOOLEAN]

(* The flags stay flags.                                                   *)
LEMMA BreakFlags ==
  ASSUME NEW w \in Broken, NEW p, NEW c
  PROVE  /\ GraphemeBreakAllowed(p, c, w) \in
              [allowed : BOOLEAN, emoji : BOOLEAN, odd : BOOLEAN]
         /\ IndicConjunctBreakAllowed(p, c, w) \in
              [allowed : BOOLEAN, within : BOOLEAN, seen : BOOLEAN]
<1> DEFINE g == GraphemeBreakAllowed(p, c, w)
           i == IndicConjunctBreakAllowed(p, c, w)
<1>1. /\ w.emoji \in BOOLEAN /\ w.odd \in BOOLEAN
      /\ w.within \in BOOLEAN /\ w.seen \in BOOLEAN
  BY DEF Broken
<1>2. g \in [allowed : BOOLEAN, emoji : BOOLEAN, odd : BOOLEAN]
  <2>1. g = [allowed |-> g.allowed, emoji |-> g.emoji, odd |-> g.odd]
    BY DEF GraphemeBreakAllowed
  <2>2. g.allowed \in BOOLEAN
    <3>1. g.allowed = IF p = "PREPEND" THEN c \in Controls
                      ELSE c \notin Joined(p, w)
      BY DEF GraphemeBreakAllowed
    <3> HIDE DEF g
    <3>2. CASE p = "PREPEND"
      BY <3>1, <3>2
    <3>3. CASE p # "PREPEND"
      <4>1. g.allowed = (c \notin Joined(p, w))
        BY <3>1, <3>3
      <4> QED BY <4>1
    <3> QED BY <3>2, <3>3
  <2>3. g.emoji \in BOOLEAN
    BY <1>1 DEF GraphemeBreakAllowed
  <2>4. g.odd \in BOOLEAN
    BY <1>1 DEF GraphemeBreakAllowed
  <2> HIDE DEF g
  <2> QED BY <2>1, <2>2, <2>3, <2>4
<1>3. i \in [allowed : BOOLEAN, within : BOOLEAN, seen : BOOLEAN]
  BY <1>1 DEF IndicConjunctBreakAllowed
<1> QED BY <1>2, <1>3

(* A turn of the loop keeps sequences of code points.                      *)
LEMMA ReadCodePointType ==
  ASSUME NEW w \in Broken, NEW p, NEW c \in DOMAIN CodePoint
  PROVE  ReadCodePoint(w, p, c) \in Broken
<1> DEFINE a == GraphemeBreakAllowed(CodePoint[p].break, CodePoint[c].break, w)
           b == IndicConjunctBreakAllowed(CodePoint[p].indic,
                                          CodePoint[c].indic, w)
           normal == CodePoint[c].normal
           old    == w.characters
           new    == IF a.allowed /\ b.allowed THEN Append(old, normal)
                     ELSE [old EXCEPT ![Len(old)] = @ \o normal]
<1>1. /\ a \in [allowed : BOOLEAN, emoji : BOOLEAN, odd : BOOLEAN]
      /\ b \in [allowed : BOOLEAN, within : BOOLEAN, seen : BOOLEAN]
  BY BreakFlags
<1>2. normal \in Seq(NormalCodePoints) /\ old \in Seq(Seq(NormalCodePoints))
  BY CodePointAssumption DEF Broken
<1>3. ReadCodePoint(w, p, c) =
        [characters |-> new, emoji |-> a.emoji, odd |-> a.odd,
         within |-> b.within, seen |-> b.seen]
  BY DEF ReadCodePoint, Extend
<1> HIDE DEF a, b, normal, old
<1>4. new \in Seq(Seq(NormalCodePoints))
  <2>1. CASE a.allowed /\ b.allowed
    BY <1>2, <2>1
  <2>2. CASE ~ (a.allowed /\ b.allowed)
    <3> DEFINE l == Len(old)
    <3>1. new = [old EXCEPT ![l] = @ \o normal]
      BY <2>2
    <3>2. l \in Nat /\ DOMAIN old = 1 .. l
          /\ \A i \in 1 .. l : old[i] \in Seq(NormalCodePoints)
      BY <1>2
    <3> HIDE DEF l, new
    <3>3. /\ DOMAIN new = 1 .. l
          /\ \A i \in 1 .. l : new[i] = IF i = l THEN old[l] \o normal
                                                 ELSE old[i]
          /\ new = [i \in 1 .. l |-> new[i]]
      BY <3>1, <3>2
    <3>4. ASSUME NEW i \in 1 .. l PROVE new[i] \in Seq(NormalCodePoints)
      <4>1. CASE i = l
        <5>1. old[l] \in Seq(NormalCodePoints)
          BY <3>2, <4>1
        <5>2. old[l] \o normal \in Seq(NormalCodePoints)
          BY <1>2, <5>1
        <5> QED BY <3>3, <4>1, <5>2
      <4>2. CASE i # l
        BY <3>2, <3>3, <4>2
      <4> QED BY <4>1, <4>2
    <3>5. new \in [1 .. l -> Seq(NormalCodePoints)]
      BY <3>3, <3>4
    <3> QED BY <3>2, <3>5
  <2> QED BY <2>1, <2>2
<1> HIDE DEF new
<1> QED BY <1>1, <1>3, <1>4 DEF Broken

(* The loop of BreakCodePointsIntoCharacters (Word.cpp:287-326), turn by   *)
(* turn.                                                                   *)
LEMMA ReadTurns ==
  ASSUME NEW t \in Seq(DOMAIN CodePoint)
  PROVE  \E f \in [0 .. Len(t) -> Broken] :
           /\ f[0] = NoWord
           /\ \A i \in 1 .. Len(t) :
                f[i] = IF i = 1 THEN FirstCodePoint(t[1])
                       ELSE ReadCodePoint(f[i - 1], t[i - 1], t[i])
           /\ ReadCodePoints(t) = f[Len(t)]
<1> DEFINE n    == Len(t)
           Turn(i, v) == IF i = 1 THEN FirstCodePoint(t[1])
                         ELSE ReadCodePoint(v, t[i - 1], t[i])
           T(f) == [i \in 0 .. n |->
                      CASE i = 0 -> NoWord
                        [] i = 1 -> FirstCodePoint(t[1])
                        [] OTHER -> ReadCodePoint(f[i - 1], t[i - 1], t[i])]
           step == [i \in 1 .. n |-> [v \in Broken |-> Turn(i, v)]]
<1>1. n \in Nat /\ \A i \in 1 .. n : t[i] \in DOMAIN CodePoint
  OBVIOUS
<1>2. NoWord \in Broken
  BY DEF NoWord, Broken
<1>3. ASSUME NEW i \in 1 .. n, NEW v \in Broken PROVE Turn(i, v) \in Broken
  <2>1. CASE i = 1
    <3> DEFINE normal == CodePoint[t[1]].normal
    <3>1. normal \in Seq(NormalCodePoints)
      BY <1>1, <2>1, CodePointAssumption
    <3>2. FirstCodePoint(t[1]) = [NoWord EXCEPT !.characters = <<normal>>]
      BY DEF FirstCodePoint
    <3> HIDE DEF normal
    <3>3. <<normal>> \in Seq(Seq(NormalCodePoints))
      BY <3>1
    <3>4. [NoWord EXCEPT !.characters = <<normal>>] \in Broken
      BY <1>2, <3>3 DEF Broken
    <3> QED BY <2>1, <3>2, <3>4
  <2>2. CASE i # 1
    BY <1>1, <2>2, ReadCodePointType
  <2> QED BY <2>1, <2>2
<1>4. step \in [1 .. n -> [Broken -> Broken]]
  BY <1>3
<1>5. \A i \in 1 .. n : \A v \in Broken : step[i][v] = Turn(i, v)
  OBVIOUS
<1> HIDE DEF step
<1>6. PICK g \in [0 .. n -> Broken] : Recurs(g, n, NoWord, step)
  BY ONLY <1>1, <1>2, <1>4, Recursion
<1>7. g[0] = NoWord /\ \A i \in 1 .. n : g[i] = Turn(i, g[i - 1])
  <2>1. ASSUME NEW i \in 1 .. n PROVE g[i] = Turn(i, g[i - 1])
    <3>1. g[i - 1] \in Broken
      BY <1>1
    <3> HIDE DEF Turn
    <3> QED BY <1>5, <1>6, <3>1 DEF Recurs
  <2> QED BY <1>6, <2>1 DEF Recurs
<1>8. \E f : f = T(f)
  <2>1. \A i \in 0 .. n : g[i] = T(g)[i]
    <3> TAKE i \in 0 .. n
    <3>1. CASE i = 0
      BY <1>7, <3>1
    <3>2. CASE i # 0
      <4>1. i \in 1 .. n
        BY <1>1, <3>2
      <4> QED BY <1>7, <3>2, <4>1
    <3> QED BY <3>1, <3>2
  <2>2. g = [i \in 0 .. n |-> g[i]]
    OBVIOUS
  <2>3. g = T(g)
    BY <2>1, <2>2
  <2> QED BY <2>3
<1>9. PICK f : f = T(f) /\ ReadCodePoints(t) = f[n]
  <2>1. ReadCodePoints(t) = (CHOOSE f : f = T(f))[n]
    BY DEF ReadCodePoints
  <2> QED BY <1>8, <2>1
<1>10. f[0] = NoWord /\ \A i \in 1 .. n : f[i] = Turn(i, f[i - 1])
  <2>1. \A i \in 0 .. n : f[i] = T(f)[i]
    BY <1>9
  <2>2. 0 \in 0 .. n /\ \A i \in 1 .. n : i \in 0 .. n /\ i # 0
    BY <1>1
  <2> QED BY <2>1, <2>2
<1> DEFINE S == {i \in 0 .. n : f[i] \in Broken}
<1>11. 0 \in S
  BY <1>1, <1>2, <1>10
<1>12. ASSUME NEW i \in 1 .. n, i - 1 \in S PROVE i \in S
  <2>1. f[i - 1] \in Broken /\ i \in 0 .. n
    BY <1>1, <1>12
  <2> HIDE DEF Turn
  <2> QED BY <1>3, <1>10, <2>1
<1> HIDE DEF S
<1>13. 0 .. n \subseteq S
  BY ONLY <1>1, <1>11, <1>12, Induction
<1>14. f \in [0 .. n -> Broken]
  <2>1. f = [i \in 0 .. n |-> T(f)[i]]
    BY <1>9
  <2>2. \A i \in 0 .. n : f[i] \in Broken
    BY <1>13 DEF S
  <2> HIDE DEF T
  <2>3. f = [i \in 0 .. n |-> f[i]]
    BY <2>1
  <2> QED BY <2>2, <2>3
<1> HIDE DEF T
<1> QED BY <1>9, <1>10, <1>14

(* It returns sequences of code points.                                    *)
LEMMA BreakType ==
  ASSUME NEW t \in Seq(DOMAIN CodePoint)
  PROVE  /\ ReadCodePoints(t) \in Broken
         /\ BreakCodePointsIntoCharacters(t) \in Seq(Seq(NormalCodePoints))
<1>1. PICK f \in [0 .. Len(t) -> Broken] : ReadCodePoints(t) = f[Len(t)]
  BY ReadTurns
<1>2. Len(t) \in 0 .. Len(t)
  OBVIOUS
<1>3. ReadCodePoints(t) \in Broken
  BY <1>1, <1>2
<1> QED BY <1>3 DEF BreakCodePointsIntoCharacters, Broken

(* The characters of texts.                                                *)
Chars == {NewCharacter(s) : s \in Seq(NormalCodePoints)}

(* A text is made of characters.                                           *)
LEMMA CharactersType ==
  ASSUME NEW t \in Seq(DOMAIN CodePoint)
  PROVE  Characters(t) \in Seq(Chars)
<1> DEFINE b == BreakCodePointsIntoCharacters(t)
<1>1. b \in Seq(Seq(NormalCodePoints))
  BY BreakType
<1>2. Characters(t) = [i \in DOMAIN b |-> NewCharacter(b[i])]
  BY DEF Characters, ForEach
<1> HIDE DEF b
<1>3. DOMAIN b = 1 .. Len(b) /\ Len(b) \in Nat
  BY <1>1
<1>4. ASSUME NEW i \in 1 .. Len(b) PROVE NewCharacter(b[i]) \in Chars
  <2>1. b[i] \in Seq(NormalCodePoints)
    BY <1>1
  <2> QED BY <2>1 DEF Chars
<1>5. Characters(t) \in [1 .. Len(b) -> Chars]
  BY <1>2, <1>3, <1>4
<1> QED BY <1>3, <1>5

(* ComputeWordBoundaryChars (Candidate.cpp:34-54) returns characters of    *)
(* the candidate.                                                          *)
LEMMA WordBoundaryType ==
  ASSUME NEW C, NEW characters \in Seq(C)
  PROVE  WordBoundaryChars(characters) \in Seq(C)
<1> DEFINE n == Len(characters)
           starts(i) ==
             IF i = 1 THEN ~ characters[1].punctuation
             ELSE \/ ~ characters[i - 1].upper /\ characters[i].upper
                  \/ characters[i - 1].punctuation /\ characters[i].letter
           T(f) == [i \in 0 .. n |->
                      CASE i = 0              -> <<>>
                        [] i > 0 /\ starts(i) -> Append(f[i - 1], characters[i])
                        [] OTHER              -> f[i - 1]]
           Turn(i, v) == IF starts(i) THEN Append(v, characters[i]) ELSE v
           S(f) == {i \in 0 .. n : f[i] \in Seq(C)}
           step == [i \in 1 .. n |-> [v \in Seq(C) |-> Turn(i, v)]]
<1>1. n \in Nat /\ \A i \in 1 .. n : characters[i] \in C
  OBVIOUS
<1>2. <<>> \in Seq(C)
  OBVIOUS
<1> HIDE DEF starts
<1>3. ASSUME NEW i \in 1 .. n, NEW v \in Seq(C) PROVE Turn(i, v) \in Seq(C)
  BY <1>1
<1>4. step \in [1 .. n -> [Seq(C) -> Seq(C)]]
  BY <1>3
<1>5. \A i \in 1 .. n : \A v \in Seq(C) : step[i][v] = Turn(i, v)
  OBVIOUS
<1> HIDE DEF step
<1>6. PICK g \in [0 .. n -> Seq(C)] : Recurs(g, n, <<>>, step)
  BY ONLY <1>1, <1>2, <1>4, Recursion
<1>7. g[0] = <<>> /\ \A i \in 1 .. n : g[i] = Turn(i, g[i - 1])
  <2>1. ASSUME NEW i \in 1 .. n PROVE g[i] = Turn(i, g[i - 1])
    <3>1. g[i - 1] \in Seq(C)
      BY <1>1
    <3> HIDE DEF Turn
    <3> QED BY <1>5, <1>6, <3>1 DEF Recurs
  <2> QED BY <1>6, <2>1 DEF Recurs
<1>8. \E f : f = T(f)
  <2>1. \A i \in 0 .. n : g[i] = T(g)[i]
    <3> TAKE i \in 0 .. n
    <3>1. CASE i = 0
      BY <1>7, <3>1
    <3>2. CASE i # 0
      <4>1. i \in 1 .. n /\ i > 0
        BY <1>1, <3>2
      <4> QED BY <1>7, <3>2, <4>1
    <3> QED BY <3>1, <3>2
  <2>2. g = [i \in 0 .. n |-> g[i]]
    OBVIOUS
  <2>3. g = T(g)
    BY <2>1, <2>2
  <2> QED BY <2>3
<1>9. PICK f : f = T(f) /\ WordBoundaryChars(characters) = f[n]
  <2>1. WordBoundaryChars(characters) = (CHOOSE f : f = T(f))[n]
    BY DEF WordBoundaryChars, starts
  <2> QED BY <1>8, <2>1
<1>10. f[0] = <<>> /\ \A i \in 1 .. n : f[i] = Turn(i, f[i - 1])
  <2>1. \A i \in 0 .. n : f[i] = T(f)[i]
    BY <1>9
  <2>2. 0 \in 0 .. n /\ \A i \in 1 .. n : i \in 0 .. n /\ i # 0 /\ i > 0
    BY <1>1
  <2> QED BY <2>1, <2>2
<1>11. 0 \in S(f)
  <2>1. 0 \in 0 .. n /\ f[0] \in Seq(C)
    BY <1>1, <1>2, <1>10
  <2> HIDE DEF T
  <2> QED BY ONLY <2>1
<1>12. ASSUME NEW i \in 1 .. n, i - 1 \in S(f) PROVE i \in S(f)
  <2>1. f[i - 1] \in Seq(C) /\ i \in 0 .. n
    BY <1>1, <1>12
  <2> HIDE DEF Turn
  <2> QED BY <1>3, <1>10, <2>1
<1> HIDE DEF S
<1>13. n \in S(f)
  <2>1. 0 .. n \subseteq S(f)
    BY ONLY <1>1, <1>11, <1>12, Induction
  <2> QED BY <1>1, <2>1
<1> QED BY <1>9, <1>13 DEF S

(* A query and the candidates are words of characters.                     *)
LEMMA QueryType ==
  ASSUME NEW t \in Seq(DOMAIN CodePoint)
  PROVE  /\ NewWord(t).characters \in Seq(Chars)
         /\ NewWord(t).bytes = BytesPresent(NewWord(t).characters)
BY CharactersType DEF NewWord, WordOf

(* The candidates, one for each text.                                      *)
LEMMA CandidatesType ==
  /\ Len(Candidates) \in Nat /\ DOMAIN Candidates = 1 .. Len(Candidates)
  /\ \A i \in 1 .. Len(Candidates) :
       /\ Candidates[i].characters \in Seq(Chars)
       /\ Candidates[i].wordBoundaryChars \in Seq(Chars)
       /\ Candidates[i].bytes = BytesPresent(Candidates[i].characters)
       /\ Candidates[i].isLowercase \in BOOLEAN
<1>1. Candidates = [i \in DOMAIN Texts |-> NewCandidate(Texts[i])]
  BY DEF Candidates, ForEach
<1>2. /\ Len(Texts) \in Nat /\ DOMAIN Texts = 1 .. Len(Texts)
      /\ \A i \in 1 .. Len(Texts) : Texts[i] \in Seq(DOMAIN CodePoint)
  BY MatchingAssumption
<1>3. DOMAIN Candidates = 1 .. Len(Texts) /\ Len(Candidates) = Len(Texts)
  <2> DEFINE n == Len(Texts)
             X == {NewCandidate(Texts[i]) : i \in 1 .. n}
  <2>1. Candidates \in [1 .. n -> X]
    BY <1>1, <1>2
  <2>2. n \in Nat
    BY <1>2
  <2> HIDE DEF n, X
  <2>3. Candidates \in Seq(X)
    BY ONLY <2>1, <2>2
  <2>4. Len(Candidates) = n /\ DOMAIN Candidates = 1 .. n
    BY ONLY <2>1, <2>2, <2>3
  <2> QED BY <2>4 DEF n
<1>4. ASSUME NEW i \in 1 .. Len(Texts)
      PROVE  /\ Candidates[i].characters \in Seq(Chars)
             /\ Candidates[i].wordBoundaryChars \in Seq(Chars)
             /\ Candidates[i].bytes = BytesPresent(Candidates[i].characters)
             /\ Candidates[i].isLowercase \in BOOLEAN
  <2> DEFINE w == NewWord(Texts[i])
             c == Candidates[i]
  <2>1. w.characters \in Seq(Chars) /\ w.bytes = BytesPresent(w.characters)
    BY <1>2, QueryType
  <2>2. c = CandidateOf(w)
    BY <1>1, <1>2 DEF NewCandidate
  <2> HIDE DEF w, c
  <2>3. /\ c.characters = w.characters /\ c.bytes = w.bytes
        /\ c.wordBoundaryChars = WordBoundaryChars(w.characters)
    BY <2>2 DEF CandidateOf
  <2>4. c.isLowercase \in BOOLEAN
    BY <2>2 DEF CandidateOf
  <2> QED BY <2>1, <2>3, <2>4, WordBoundaryType DEF c
<1> QED BY <1>2, <1>3, <1>4

-----------------------------------------------------------------------------
(* The results of a query.                                                *)

(* What the constructor of a result of a query of l characters sets.       *)
ResultFor(r, l) ==
  /\ r.queryLength = l
  /\ r.firstCharSame \in BOOLEAN /\ r.queryIsPrefix \in BOOLEAN
  /\ r.isLowercase \in BOOLEAN
  /\ r.wbMatches \in 0 .. l
  /\ r.indexSum \in Nat /\ r.wbChars \in Nat /\ r.length \in Nat

(* The result of a query that is in a candidate, and how many word         *)
(* boundary characters it counts.                                          *)
LEMMA ResultType ==
  ASSUME NEW q \in Seq(Chars), NEW i \in 1 .. Len(Candidates),
         QueryMatchResult(Candidates[i], q).isSubsequence
  PROVE  /\ ResultFor(QueryMatchResult(Candidates[i], q), Len(q))
         /\ Candidates[i].characters # <<>> =>
              QueryMatchResult(Candidates[i], q).wbMatches =
                Max({n \in 0 .. Len(q) :
                       HasCommon(n, q, Candidates[i].wordBoundaryChars)})
<1> DEFINE c == Candidates[i]
           v == Match(c, q, Len(c.characters))
           result == QueryMatchResult(c, q)
           l == Len(q)
           boundary == c.wordBoundaryChars
           common == LongestCommonSubsequenceLength(q, boundary)
<1>1. /\ c.characters \in Seq(Chars) /\ boundary \in Seq(Chars)
      /\ c.isLowercase \in BOOLEAN
  BY CandidatesType
<1>2. /\ l \in Nat /\ Len(c.characters) \in Nat /\ Len(boundary) \in Nat
      /\ (q # <<>> <=> l # 0)
  BY <1>1
<1>3. /\ common = Max({n \in 0 .. l : HasCommon(n, q, boundary)})
      /\ common \in 0 .. l
  BY <1>2, LongestCommonSubsequence
<1>4. v \in Progress
  BY <1>2, MatchIsGreedy
<1>5. result = NewResult(c, q, v.sum, v.prefix)
  <2>1. result = IF v.met < l THEN NotASubsequence
                 ELSE NewResult(c, q, v.sum, v.prefix)
    BY DEF QueryMatchResult, ResultOf
  <2>2. NotASubsequence.isSubsequence = FALSE
    BY DEF NotASubsequence
  <2> QED BY <2>1, <2>2
<1> DEFINE known == q # <<>> /\ c.characters # <<>>
<1>6. /\ result.queryLength = l
      /\ result.firstCharSame \in BOOLEAN
      /\ result.queryIsPrefix = v.prefix
      /\ result.isLowercase = c.isLowercase
      /\ result.wbMatches = IF known THEN common ELSE 0
      /\ result.indexSum = v.sum
      /\ result.wbChars = Len(boundary)
      /\ result.length = Len(c.characters)
  <2> HIDE DEF v, result, c
  <2> QED BY <1>5 DEF NewResult
<1>7. /\ v.sum \in Nat /\ v.prefix \in BOOLEAN
  BY <1>4 DEF Progress
<1> HIDE DEF v, result, c, common, l, boundary
<1>8. result.wbMatches \in 0 .. l
  BY <1>2, <1>3, <1>6
<1>9. ResultFor(result, l)
  BY <1>1, <1>2, <1>6, <1>7, <1>8 DEF ResultFor
<1>10. c.characters # <<>> => result.wbMatches = common
  <2>1. SUFFICES ASSUME c.characters # <<>>, q = <<>> PROVE common = 0
    BY <1>2, <1>3, <1>6
  <2> QED BY <1>2, <1>3, <2>1
<1> QED BY <1>3, <1>9, <1>10 DEF result, c, common, l, boundary

(* What is in a sequence after an element is appended.                     *)
LEMMA AppendElements ==
  ASSUME NEW S, NEW s \in Seq(S), NEW e
  PROVE  /\ Append(s, e) \in Seq(S \cup {e})
         /\ Len(Append(s, e)) = Len(s) + 1
         /\ DOMAIN Append(s, e) = 1 .. Len(s) + 1
         /\ Append(s, e)[Len(s) + 1] = e
         /\ \A i \in 1 .. Len(s) : Append(s, e)[i] = s[i]
<1> DEFINE n == Len(s)
           t == Append(s, e)
<1>1. n \in Nat /\ DOMAIN s = 1 .. n /\ s \in Seq(S \cup {e})
  <2>1. S \subseteq S \cup {e}
    OBVIOUS
  <2> QED BY <2>1
<1>2. t \in Seq(S \cup {e}) /\ Len(t) = n + 1
  BY <1>1
<1>3. DOMAIN t = 1 .. n + 1 /\ t[n + 1] = e /\ \A i \in 1 .. n : t[i] = s[i]
  BY <1>1
<1> QED BY <1>2, <1>3

(* The set of its elements.                                                *)
LEMMA AppendToSet ==
  ASSUME NEW S, NEW s \in Seq(S), NEW e
  PROVE  ToSet(Append(s, e)) = ToSet(s) \cup {e}
<1> DEFINE n == Len(s)
           t == Append(s, e)
<1>1. n \in Nat /\ DOMAIN s = 1 .. n
  OBVIOUS
<1>2. DOMAIN t = 1 .. n + 1 /\ t[n + 1] = e /\ \A i \in 1 .. n : t[i] = s[i]
  BY AppendElements
<1> HIDE DEF t, n
<1>3. \A i \in 1 .. n + 1 : i \in 1 .. n \/ i = n + 1
  BY <1>1
<1>4. n + 1 \in 1 .. n + 1 /\ \A i \in 1 .. n : i \in 1 .. n + 1
  BY <1>1
<1>5. ToSet(t) = ToSet(s) \cup {e}
  BY <1>1, <1>2, <1>3, <1>4 DEF ToSet
<1> QED BY <1>5 DEF t

-----------------------------------------------------------------------------
(* The invariant.                                                          *)

(* Each candidate that answers the query has one match.                    *)
Answers(i) ==
  /\ IsPossible(Candidates[i])
  /\ QueryMatchResult(Candidates[i], query.characters).isSubsequence

MatchOf(i) ==
  [index |-> i, result |-> QueryMatchResult(Candidates[i], query.characters)]

(* What MatchesInv says, with these names.                                 *)
LEMMA MatchesAre ==
  MatchesInv <=> /\ ToSet(matches) = {MatchOf(i) : i \in {i \in 1 .. index :
                                                            Answers(i)}}
                 /\ matches \in Seq(ToSet(matches))
BY DEF MatchesInv, MatchOf, Answers

(* Before the first candidate there is none.                               *)
LEMMA NoMatches ==
  ASSUME index = 0
  PROVE  MatchesInv <=> matches = <<>>
<1>1. {MatchOf(i) : i \in {i \in 1 .. index : Answers(i)}} = {}
  OBVIOUS
<1>2. ASSUME MatchesInv PROVE matches = <<>>
  <2>1. ToSet(matches) = {} /\ matches \in Seq({})
    BY <1>1, <1>2, MatchesAre
  <2> QED BY <2>1
<1>3. ASSUME matches = <<>> PROVE MatchesInv
  <2>1. ToSet(matches) = {}
    BY <1>3 DEF ToSet
  <2>2. matches \in Seq({})
    BY <1>3
  <2> QED BY <1>1, <2>1, <2>2, MatchesAre
<1> QED BY <1>2, <1>3

(* How many matches are kept is a number.                                  *)
LEMMA KeptType ==
  ASSUME NEW n \in Nat
  PROVE  Kept(n) \in Nat
BY MatchingAssumption DEF Kept

(* The initial state.                                                      *)
LEMMA InitIInv == Init => IInv
<1> SUFFICES ASSUME Init PROVE IInv
  OBVIOUS
<1>1. /\ text = <<>> /\ phase = "typing" /\ index = 0
      /\ matches = <<>> /\ sorted = <<>>
  BY DEF Init
<1>2. PhaseInv
  <2>1. Len(Candidates) \in Nat
    BY CandidatesType
  <2> QED BY <1>1, <2>1 DEF PhaseInv
<1>3. MatchesInv
  BY <1>1, NoMatches
<1>4. ToSet(matches) = {}
  BY <1>1 DEF ToSet
<1>5. SortedInv
  <2>1. Kept(0) \in Nat
    BY KeptType
  <2>2. sorted \in Seq({}) /\ DOMAIN sorted = {} /\ Len(sorted) = 0
        /\ Len(matches) = 0
    BY <1>1
  <2>3. Len(sorted) <= Kept(Len(matches))
    BY <2>1, <2>2
  <2> QED BY <1>4, <2>2, <2>3 DEF SortedInv
<1> QED BY <1>2, <1>3, <1>5 DEF IInv

(* The next candidate joins the matches if it answers the query.           *)
LEMMA NextMatches ==
  ASSUME index \in Nat, index' = index + 1, query' = query, MatchesInv,
         \/ ~ Answers(index') /\ matches' = matches
         \/ Answers(index') /\ matches' = Append(matches, MatchOf(index'))
  PROVE  MatchesInv'
<1> DEFINE Seen(n) == {MatchOf(i) : i \in {i \in 1 .. n : Answers(i)}}
<1>1. ToSet(matches) = Seen(index) /\ matches \in Seq(ToSet(matches))
  BY MatchesAre
<1>2. \A i \in 1 .. index + 1 : i \in 1 .. index \/ i = index + 1
  OBVIOUS
<1>3. index + 1 \in 1 .. index + 1
      /\ \A i \in 1 .. index : i \in 1 .. index + 1
  OBVIOUS
<1>4. CASE ~ Answers(index') /\ matches' = matches
  <2>1. Seen(index + 1) = Seen(index)
    BY <1>2, <1>3, <1>4
  <2> QED BY <1>1, <1>4, <2>1 DEF MatchesInv, Answers, MatchOf, IsPossible
<1>5. CASE Answers(index') /\ matches' = Append(matches, MatchOf(index'))
  <2>1. Seen(index + 1) = Seen(index) \cup {MatchOf(index + 1)}
    BY <1>2, <1>3, <1>5
  <2>2. /\ ToSet(matches') = ToSet(matches) \cup {MatchOf(index + 1)}
        /\ matches' \in Seq(ToSet(matches) \cup {MatchOf(index + 1)})
    <3> DEFINE m == MatchOf(index + 1)
               M == ToSet(matches)
    <3>1. matches \in Seq(M) /\ matches' = Append(matches, m)
      BY <1>1, <1>5
    <3> HIDE DEF m, M
    <3>2. ToSet(Append(matches, m)) = ToSet(matches) \cup {m}
      BY <3>1, AppendToSet, Zenon
    <3>3. Append(matches, m) \in Seq(M \cup {m})
      BY <3>1, AppendElements
    <3> QED BY <3>1, <3>2, <3>3 DEF m, M
  <2>3. ToSet(matches') = Seen(index') /\ matches' \in Seq(ToSet(matches'))
    BY <1>1, <2>1, <2>2
  <2> QED BY <2>3 DEF MatchesInv, Answers, MatchOf, IsPossible
<1> QED BY <1>4, <1>5

(* Nothing is sorted before the sort.                                      *)
LEMMA NextUnsorted ==
  ASSUME sorted' = <<>>, (matches \in Seq(ToSet(matches)))'
  PROVE  SortedInv'
<1>1. /\ sorted' \in Seq(ToSet(matches')) /\ DOMAIN sorted' = {}
      /\ Len(sorted') = 0
  OBVIOUS
<1>2. Kept(Len(matches')) \in Nat
  <2>1. Len(matches') \in Nat
    OBVIOUS
  <2> QED BY <2>1, KeptType
<1>3. Len(sorted') <= Kept(Len(matches'))
  BY <1>1, <1>2
<1> QED BY <1>1, <1>3 DEF SortedInv

(* What PartialSort takes next is not less than what it took before.       *)
LEMMA PartialSortSorts ==
  ASSUME IInv, PartialSort
  PROVE  SortedInv'
<1> DEFINE M == ToSet(matches)
           n == Len(sorted)
<1>1. PICK m \in M \ ToSet(sorted) :
        /\ \A k \in M \ ToSet(sorted) : ~ LessThan(k.result, m.result)
        /\ sorted' = Append(sorted, m)
  BY DEF PartialSort
<1>2. /\ sorted \in Seq(M) /\ n \in Nat /\ DOMAIN sorted = 1 .. n
      /\ \A i, j \in 1 .. n :
           i < j => ~ LessThan(sorted[j].result, sorted[i].result)
      /\ \A k \in M \ ToSet(sorted), i \in 1 .. n :
           ~ LessThan(k.result, sorted[i].result)
  BY DEF IInv, SortedInv
<1>3. /\ ToSet(sorted') = ToSet(sorted) \cup {m}
      /\ sorted' \in Seq(M \cup {m}) /\ Len(sorted') = n + 1
      /\ DOMAIN sorted' = 1 .. n + 1
      /\ sorted'[n + 1] = m
      /\ \A i \in 1 .. n : sorted'[i] = sorted[i]
  <2>1. /\ sorted' \in Seq(M \cup {m}) /\ Len(sorted') = n + 1
        /\ DOMAIN sorted' = 1 .. n + 1
        /\ sorted'[n + 1] = m
        /\ \A i \in 1 .. n : sorted'[i] = sorted[i]
    BY <1>1, <1>2, AppendElements
  <2>2. ToSet(Append(sorted, m)) = ToSet(sorted) \cup {m}
    <3> HIDE DEF M
    <3> QED BY <1>2, AppendToSet, Zenon
  <2> QED BY <1>1, <2>1, <2>2
<1>4. /\ M = ToSet(matches') /\ Len(matches') = Len(matches)
      /\ n < Kept(Len(matches))
  BY DEF PartialSort
<1>5. sorted' \in Seq(ToSet(matches'))
  <2>1. M \cup {m} = M
    BY <1>1
  <2> QED BY <1>3, <1>4, <2>1
<1>6. Len(sorted') <= Kept(Len(matches'))
  <2>1. matches \in Seq(M) /\ Len(matches) \in Nat
    BY DEF IInv, MatchesInv
  <2>2. Kept(Len(matches)) \in Nat
    BY <2>1, KeptType
  <2> HIDE DEF n
  <2> QED BY <1>2, <1>3, <1>4, <2>2
<1> HIDE DEF n, M
<1>7. ASSUME NEW i \in 1 .. n + 1, NEW j \in 1 .. n + 1, i < j
      PROVE  ~ LessThan(sorted'[j].result, sorted'[i].result)
  <2>1. i \in 1 .. n /\ (j \in 1 .. n \/ j = n + 1)
    BY ONLY <1>2, <1>7, i \in 1 .. n + 1, j \in 1 .. n + 1
  <2>2. CASE j \in 1 .. n
    BY <1>2, <1>3, <1>7, <2>1, <2>2
  <2>3. CASE j = n + 1
    BY <1>1, <1>2, <1>3, <2>1, <2>3
  <2> QED BY <2>1, <2>2, <2>3
<1>8. ASSUME NEW k \in M \ ToSet(sorted'), NEW i \in 1 .. n + 1
      PROVE  ~ LessThan(k.result, sorted'[i].result)
  <2>1. (i \in 1 .. n \/ i = n + 1) /\ k \in M \ ToSet(sorted)
    BY <1>2, <1>3
  <2>2. CASE i \in 1 .. n
    BY <1>2, <1>3, <2>1, <2>2
  <2>3. CASE i = n + 1
    BY <1>1, <1>3, <2>1, <2>3
  <2> QED BY <2>1, <2>2, <2>3
<1> QED BY <1>3, <1>4, <1>5, <1>6, <1>7, <1>8 DEF SortedInv

(* A turn of the loop over the candidates.                                 *)
LEMMA NextCandidateKeeps ==
  ASSUME IInv, SkipCandidate \/ RejectCandidate \/ KeepCandidate
  PROVE  IInv'
<1>1. /\ phase = "filtering" /\ index < Len(Candidates) /\ index' = index + 1
      /\ text' = text /\ phase' = phase /\ query' = query /\ sorted' = sorted
  BY DEF SkipCandidate, RejectCandidate, KeepCandidate, NextCandidate
<1>2. \/ ~ Answers(index') /\ matches' = matches
      \/ Answers(index') /\ matches' = Append(matches, MatchOf(index'))
  BY DEF SkipCandidate, RejectCandidate, KeepCandidate, Answers, MatchOf
<1>3. PhaseInv /\ MatchesInv /\ index \in Nat /\ Len(Candidates) \in Nat
  BY CandidatesType DEF IInv, PhaseInv
<1>4. PhaseInv'
  <2>1. index' \in 0 .. Len(Candidates)
    BY <1>1, <1>3
  <2> QED BY <1>1, <1>3, <2>1 DEF PhaseInv
<1>5. MatchesInv'
  BY <1>1, <1>2, <1>3, NextMatches
<1>6. SortedInv'
  <2>1. sorted' = <<>>
    BY <1>1, <1>3 DEF PhaseInv
  <2>2. (matches \in Seq(ToSet(matches)))'
    BY <1>5 DEF MatchesInv
  <2> QED BY <2>1, <2>2, NextUnsorted
<1> QED BY <1>4, <1>5, <1>6 DEF IInv

(* No candidate was seen before the first step of the loop.                *)
LEMMA NextWithoutMatches ==
  ASSUME text' \in Seq(DOMAIN CodePoint), index' = 0, matches' = <<>>,
         sorted' = <<>>,
         \/ phase' = "typing"
         \/ phase' = "filtering" /\ query' = NewWord(text')
  PROVE  IInv'
<1>1. Len(Candidates) \in Nat
  BY CandidatesType
<1>2. PhaseInv'
  BY <1>1 DEF PhaseInv
<1>3. MatchesInv' /\ (matches \in Seq(ToSet(matches)))'
  <2>1. ToSet(matches') = {} /\ matches' \in Seq({})
    BY DEF ToSet
  <2>2. 1 .. index' = {}
    OBVIOUS
  <2> QED BY <2>1, <2>2 DEF MatchesInv
<1>4. SortedInv'
  BY <1>3, NextUnsorted
<1> QED BY <1>2, <1>3, <1>4 DEF IInv

(* Every step keeps the invariant.                                         *)
LEMMA NextIInv == IInv /\ [Next]_vars => IInv'
<1> SUFFICES ASSUME IInv, [Next]_vars PROVE IInv'
  OBVIOUS
<1>1. PhaseInv /\ MatchesInv /\ SortedInv /\ matches \in Seq(ToSet(matches))
  BY DEF IInv, MatchesInv
<1>2. ASSUME phase = "typing" PROVE index = 0 /\ matches = <<>> /\ sorted = <<>>
  <2>1. index = 0 /\ sorted = <<>>
    BY <1>1, <1>2 DEF PhaseInv
  <2> QED BY <1>1, <2>1, NoMatches
<1>3. ASSUME NEW c \in DOMAIN CodePoint, Type(c) PROVE IInv'
  <2>1. /\ phase = "typing" /\ text' = Append(text, c)
        /\ UNCHANGED <<phase, query, index, matches, sorted>>
    BY <1>3 DEF Type
  <2>2. text' \in Seq(DOMAIN CodePoint)
    BY <1>1, <2>1 DEF PhaseInv
  <2> QED BY <1>2, <2>1, <2>2, NextWithoutMatches
<1>4. ASSUME NewText PROVE IInv'
  <2>1. /\ phase = "typing" /\ text' = <<>>
        /\ UNCHANGED <<phase, query, index, matches, sorted>>
    BY <1>4 DEF NewText
  <2>2. text' \in Seq(DOMAIN CodePoint)
    BY <2>1
  <2> QED BY <1>2, <2>1, <2>2, NextWithoutMatches
<1>5. ASSUME FilterAndSortCandidates PROVE IInv'
  <2>1. /\ phase = "typing" /\ phase' = "filtering" /\ query' = NewWord(text)
        /\ UNCHANGED <<text, index, matches, sorted>>
    BY <1>5 DEF FilterAndSortCandidates
  <2>2. text' \in Seq(DOMAIN CodePoint) /\ query' = NewWord(text')
    BY <1>1, <2>1 DEF PhaseInv
  <2> QED BY <1>2, <2>1, <2>2, NextWithoutMatches
<1>6. ASSUME SkipCandidate \/ RejectCandidate \/ KeepCandidate PROVE IInv'
  BY <1>6, NextCandidateKeeps
<1>7. ASSUME StartSort PROVE IInv'
  <2>1. /\ phase = "filtering" /\ phase' = "sorting"
        /\ UNCHANGED <<text, query, index, matches, sorted>>
    BY <1>7 DEF StartSort
  <2>2. PhaseInv'
    BY <1>1, <2>1 DEF PhaseInv
  <2>3. MatchesInv'
    BY <1>1, <2>1 DEF MatchesInv, IsPossible
  <2>4. SortedInv'
    BY <1>1, <2>1 DEF SortedInv
  <2> QED BY <2>2, <2>3, <2>4 DEF IInv
<1>8. ASSUME PartialSort PROVE IInv'
  <2>1. /\ phase = "sorting"
        /\ UNCHANGED <<text, phase, query, index, matches>>
    BY <1>8 DEF PartialSort
  <2>2. PhaseInv'
    BY <1>1, <2>1 DEF PhaseInv
  <2>3. MatchesInv'
    BY <1>1, <2>1 DEF MatchesInv, IsPossible
  <2>4. SortedInv'
    BY <1>8, PartialSortSorts
  <2> QED BY <2>2, <2>3, <2>4 DEF IInv
<1>9. ASSUME Return PROVE IInv'
  <2>1. /\ phase' = "typing" /\ index' = 0 /\ matches' = <<>> /\ sorted' = <<>>
        /\ text' = text
    BY <1>9 DEF Return
  <2>2. text' \in Seq(DOMAIN CodePoint)
    BY <1>1, <2>1 DEF PhaseInv
  <2> QED BY <2>1, <2>2, NextWithoutMatches
<1>10. CASE UNCHANGED vars
  <2>1. UNCHANGED <<text, phase, query, index, matches, sorted>>
    BY <1>10 DEF vars
  <2>2. PhaseInv'
    BY <1>1, <2>1 DEF PhaseInv
  <2>3. MatchesInv'
    BY <1>1, <2>1 DEF MatchesInv, IsPossible
  <2>4. SortedInv'
    BY <1>1, <2>1 DEF SortedInv
  <2> QED BY <2>2, <2>3, <2>4 DEF IInv
<1> QED BY <1>3, <1>4, <1>5, <1>6, <1>7, <1>8, <1>9, <1>10 DEF Next

(* The conjuncts of the invariant hold in every state of every run.        *)
THEOREM Invariant == Spec => []IInv
BY InitIInv, NextIInv, PTL DEF Spec

-----------------------------------------------------------------------------
(* What the invariant says of each match.                                  *)
LEMMA MatchesFacts ==
  ASSUME IInv, phase # "typing"
  PROVE  /\ query.characters \in Seq(Chars)
         /\ query.bytes = BytesPresent(query.characters)
         /\ index \in 0 .. Len(Candidates)
         /\ \A m \in ToSet(matches) :
              m.index \in 1 .. index /\ Answers(m.index) /\ m = MatchOf(m.index)
         /\ \A i \in 1 .. index : Answers(i) => MatchOf(i) \in ToSet(matches)
<1>1. query = NewWord(text) /\ text \in Seq(DOMAIN CodePoint)
      /\ index \in 0 .. Len(Candidates)
  BY DEF IInv, PhaseInv
<1>2. /\ query.characters \in Seq(Chars)
      /\ query.bytes = BytesPresent(query.characters)
  BY <1>1, QueryType
<1>3. ToSet(matches) = {MatchOf(i) : i \in {i \in 1 .. index : Answers(i)}}
  BY MatchesAre DEF IInv
<1>4. ASSUME NEW m \in ToSet(matches)
      PROVE  /\ m.index \in 1 .. index /\ Answers(m.index)
             /\ m = MatchOf(m.index)
  <2>1. PICK i \in 1 .. index : Answers(i) /\ m = MatchOf(i)
    BY <1>3
  <2>2. m.index = i
    BY <2>1 DEF MatchOf
  <2> QED BY <2>1, <2>2
<1> QED BY <1>1, <1>2, <1>3, <1>4

(* Each match has a result of the query.                                   *)
LEMMA MatchResults ==
  ASSUME IInv, phase # "typing", NEW m \in ToSet(matches)
  PROVE  /\ ResultFor(m.result, Len(query.characters))
         /\ m.result.wbMatches =
              Max({n \in 0 .. Len(query.characters) :
                     HasCommon(n, query.characters,
                               Candidates[m.index].wordBoundaryChars)})
<1> DEFINE i == m.index
           q == query.characters
<1>1. /\ i \in 1 .. index /\ Answers(i) /\ m = MatchOf(i)
      /\ q \in Seq(Chars) /\ index \in 0 .. Len(Candidates)
  BY MatchesFacts
<1>2. i \in 1 .. Len(Candidates)
  <2>1. Len(Candidates) \in Nat
    BY CandidatesType
  <2> QED BY <1>1, <2>1
<1>3. /\ Candidates[i].characters # <<>>
      /\ QueryMatchResult(Candidates[i], q).isSubsequence
  BY <1>1 DEF Answers, IsPossible
<1>4. m.result = QueryMatchResult(Candidates[i], q)
  BY <1>1 DEF MatchOf
<1> HIDE DEF i, q
<1>5. /\ ResultFor(QueryMatchResult(Candidates[i], q), Len(q))
      /\ QueryMatchResult(Candidates[i], q).wbMatches =
           Max({n \in 0 .. Len(q) :
                  HasCommon(n, q, Candidates[i].wordBoundaryChars)})
  BY <1>1, <1>2, <1>3, ResultType
<1> QED BY <1>4, <1>5 DEF i, q

(* Result.cpp:151: every result that is kept counts the longest            *)
(* subsequence of the query among the word boundary characters.            *)
THEOREM LongestBoundaryMatches == Spec => []BoundaryMatchesAreLongest
<1>1. IInv => BoundaryMatchesAreLongest
  <2> SUFFICES ASSUME IInv, phase = "filtering", NEW m \in ToSet(matches),
                      m.index = index
               PROVE  m.result.wbMatches =
                        Max({n \in 0 .. Len(query.characters) :
                               HasCommon(n, query.characters,
                                   Candidates[index].wordBoundaryChars)})
    BY DEF BoundaryMatchesAreLongest
  <2> QED BY MatchResults
<1> QED BY <1>1, Invariant, PTL

(* The bytes of the base characters of what is embedded are there.         *)
LEMMA EmbeddingHasBytes ==
  ASSUME FoldingKeepsBases(Chars), NEW q \in Seq(Chars), NEW c \in Seq(Chars),
         Embeddings(q, c) # {}
  PROVE  BytesPresent(q) \subseteq BytesPresent(c)
<1>1. PICK p \in Embeddings(q, c) : TRUE
  OBVIOUS
<1>2. /\ DOMAIN q = 1 .. Len(q) /\ DOMAIN c = 1 .. Len(c)
      /\ Len(q) \in Nat /\ Len(c) \in Nat
      /\ \A i \in DOMAIN q : q[i] \in Chars
      /\ \A i \in DOMAIN c : c[i] \in Chars
  OBVIOUS
<1>3. /\ p \in [1 .. Len(q) -> 1 .. Len(c)]
      /\ \A i \in DOMAIN q : MatchesSmart(q[i], c[p[i]])
  BY <1>1 DEF Embeddings, Placements
<1>4. ASSUME NEW i \in DOMAIN q
      PROVE  p[i] \in DOMAIN c /\ q[i].base = c[p[i]].base
  <2>1. p[i] \in DOMAIN c /\ MatchesSmart(q[i], c[p[i]])
    BY <1>2, <1>3
  <2>2. q[i] \in Chars /\ c[p[i]] \in Chars
    BY <1>2, <2>1
  <2>3. \/ EqualsBase(q[i], c[p[i]])
        \/ EqualsIgnoreCase(q[i], c[p[i]])
        \/ q[i].normal = c[p[i]].normal
    BY <2>1 DEF MatchesSmart
  <2>4. EqualsBase(q[i], c[p[i]])
    BY <2>2, <2>3 DEF FoldingKeepsBases
  <2> QED BY <2>1, <2>4 DEF EqualsBase
<1> DEFINE P(s) == UNION {ToSet(s[i].base) : i \in DOMAIN s}
<1>5. P(q) \subseteq P(c)
  BY <1>4
<1>6. BytesPresent(q) = UNION {CodePoint[x].bytes : x \in P(q)}
      /\ BytesPresent(c) = UNION {CodePoint[x].bytes : x \in P(c)}
  BY DEF BytesPresent
<1> HIDE DEF P
<1> QED BY <1>5, <1>6

(* FilterAndSortCandidates keeps a candidate exactly when the query can be *)
(* embedded in it, with the least sum of indices and a prefix found; as    *)
(* folding keeps bases apart, the filter by bytes rejects none of them.    *)
THEOREM EmbeddingFound ==
  ASSUME FoldingKeepsBases(Chars)
  PROVE  Spec => []MatchIsEmbedding
<1>1. IInv => MatchIsEmbedding
  <2> SUFFICES ASSUME IInv, phase = "filtering", index > 0
               PROVE  MatchIsEmbedding
    BY DEF MatchIsEmbedding
  <2> DEFINE q          == query.characters
             C          == Candidates[index]
             embeddings == Embeddings(q, C.characters)
             kept       == {m \in ToSet(matches) : m.index = index}
             result     == QueryMatchResult(C, q)
  <2>1. /\ q \in Seq(Chars) /\ query.bytes = BytesPresent(q)
        /\ index \in 1 .. Len(Candidates) /\ index \in 1 .. index
        /\ \A m \in ToSet(matches) :
             m.index \in 1 .. index /\ Answers(m.index) /\ m = MatchOf(m.index)
        /\ \A i \in 1 .. index : Answers(i) => MatchOf(i) \in ToSet(matches)
    <3>1. Len(Candidates) \in Nat
      BY CandidatesType
    <3> QED BY <3>1, MatchesFacts
  <2>2. C.characters \in Seq(Chars) /\ C.bytes = BytesPresent(C.characters)
    BY <2>1, CandidatesType
  <2>3. /\ result.isSubsequence <=> embeddings # {}
        /\ result.isSubsequence =>
             /\ result.indexSum = Min({IndexSum(p, Len(q)) : p \in embeddings})
             /\ q # <<>> => (result.queryIsPrefix <=>
                               [i \in DOMAIN q |-> i] \in embeddings)
    <3> HIDE DEF q, C
    <3> QED BY <2>1, <2>2, MatchFindsTheLeastEmbedding
  <2>4. embeddings # {} => ContainsBytes(C, query)
    <3> HIDE DEF q, C
    <3>1. ASSUME embeddings # {}
          PROVE  BytesPresent(q) \subseteq BytesPresent(C.characters)
      BY <2>1, <2>2, <3>1, EmbeddingHasBytes
    <3> QED BY <2>1, <2>2, <3>1 DEF ContainsBytes
  <2>5. Answers(index) <=> C.characters # <<>> /\ embeddings # {}
    BY <2>3, <2>4 DEF Answers, IsPossible
  <2>6. kept # {} <=> Answers(index)
    <3>1. ASSUME Answers(index) PROVE kept # {}
      <4>1. MatchOf(index) \in ToSet(matches) /\ MatchOf(index).index = index
        BY <2>1, <3>1 DEF MatchOf
      <4> QED BY <4>1
    <3>2. ASSUME kept # {} PROVE Answers(index)
      BY <2>1, <3>2
    <3> QED BY <3>1, <3>2
  <2>7. ASSUME NEW m \in kept
        PROVE  m.result = result /\ result.isSubsequence
    <3>1. m = MatchOf(index) /\ Answers(index)
      BY <2>1
    <3> QED BY <3>1 DEF MatchOf, Answers
  <2>8. kept # {} <=> C.characters # <<>> /\ embeddings # {}
    BY <2>5, <2>6
  <2>9. \A m \in kept :
          /\ m.result.indexSum = Min({IndexSum(p, Len(q)) : p \in embeddings})
          /\ q # <<>> => (m.result.queryIsPrefix <=>
                            [i \in DOMAIN q |-> i] \in embeddings)
    <3> HIDE DEF kept, result, embeddings, q
    <3> QED BY <2>3, <2>7
  <2> QED BY <2>8, <2>9 DEF MatchIsEmbedding
<1> QED BY <1>1, Invariant, PTL

-----------------------------------------------------------------------------
(* Sequences, by induction from one to another with one element more.      *)

(* A set with the empty sequence that an element more does not leave has   *)
(* every sequence.                                                         *)
LEMMA SequenceInduction ==
  ASSUME NEW D, NEW S, <<>> \in S,
         \A s \in Seq(D) : \A c \in D : s \in S => Append(s, c) \in S
  PROVE  Seq(D) \subseteq S
<1>1. SUFFICES ASSUME NEW t \in Seq(D) PROVE t \in S
  OBVIOUS
<1> DEFINE N == {n \in 0 .. Len(t) : SubSeq(t, 1, n) \in S}
<1>2. Len(t) \in Nat /\ \A i \in 1 .. Len(t) : t[i] \in D
  OBVIOUS
<1>3. 0 \in N
  <2>1. SubSeq(t, 1, 0) = <<>>
    OBVIOUS
  <2>2. 0 \in 0 .. Len(t)
    BY <1>2
  <2> QED BY ONLY <2>1, <2>2, <<>> \in S
<1>4. ASSUME NEW i \in 1 .. Len(t), i - 1 \in N PROVE i \in N
  <2> DEFINE s == SubSeq(t, 1, i - 1)
  <2>1. s \in Seq(D) /\ s \in S /\ t[i] \in D
    BY <1>2, <1>4
  <2>2. SubSeq(t, 1, i) = Append(s, t[i])
    <3>1. SubSeq(t, 1, (i - 1) + 1) = Append(s, t[(i - 1) + 1])
      BY <1>2
    <3> QED BY <3>1
  <2>3. i \in 0 .. Len(t)
    BY <1>2
  <2> HIDE DEF s
  <2> QED BY <2>1, <2>2, <2>3
<1> HIDE DEF N
<1>5. 0 .. Len(t) \subseteq N
  BY <1>2, <1>3, <1>4, Induction
<1>6. SubSeq(t, 1, Len(t)) = t
  OBVIOUS
<1>7. Len(t) \in N
  BY <1>2, <1>5
<1> QED BY <1>6, <1>7 DEF N

(* The sequences of a sequence are joined one after the other.             *)
LEMMA FlattenTurns ==
  ASSUME NEW V, NEW s \in Seq(Seq(V)), s # <<>>
  PROVE  \E f \in [1 .. Len(s) -> Seq(V)] :
           /\ f[1] = s[1]
           /\ \A i \in 2 .. Len(s) : f[i] = f[i - 1] \o s[i]
           /\ FlattenSeq(s) = f[Len(s)]
<1> DEFINE n == Len(s)
           T(f) == [i \in 1 .. n |-> IF i = 1 THEN s[1] ELSE f[i - 1] \o s[i]]
           step == [i \in 1 .. n |-> [v \in Seq(V) |-> v \o s[i]]]
<1>1. n \in Nat /\ n # 0 /\ \A i \in 1 .. n : s[i] \in Seq(V)
  OBVIOUS
<1>2. <<>> \in Seq(V)
  OBVIOUS
<1>3. step \in [1 .. n -> [Seq(V) -> Seq(V)]]
  BY <1>1
<1>4. \A i \in 1 .. n : \A v \in Seq(V) : step[i][v] = v \o s[i]
  OBVIOUS
<1> HIDE DEF step
<1>5. PICK g \in [0 .. n -> Seq(V)] : Recurs(g, n, <<>>, step)
  BY ONLY <1>1, <1>2, <1>3, Recursion
<1>6. g[0] = <<>> /\ \A i \in 1 .. n : g[i] = g[i - 1] \o s[i]
  <2>1. ASSUME NEW i \in 1 .. n PROVE g[i] = g[i - 1] \o s[i]
    <3>1. i - 1 \in 0 .. n
      BY <1>1
    <3> HIDE DEF n
    <3>2. g[i - 1] \in Seq(V)
      BY <1>5, <3>1
    <3> QED BY <1>4, <1>5, <3>2 DEF Recurs
  <2> QED BY <1>5, <2>1 DEF Recurs
<1> DEFINE h == [i \in 1 .. n |-> g[i]]
<1>7. h = T(h)
  <2>1. ASSUME NEW i \in 1 .. n
        PROVE  g[i] = IF i = 1 THEN s[1] ELSE h[i - 1] \o s[i]
    <3>1. CASE i = 1
      <4>0. 1 \in 1 .. n /\ 1 - 1 = 0
        BY <3>1
      <4>1. g[1] = g[1 - 1] \o s[1] /\ s[1] \in Seq(V) /\ 1 - 1 = 0
        BY <1>1, <1>6, <4>0
      <4>2. g[1] = <<>> \o s[1]
        BY <1>6, <4>1
      <4>3. g[1] = s[1]
        BY ONLY <4>1, <4>2
      <4> QED BY <3>1, <4>3
    <3>2. CASE i # 1
      <4>1. i - 1 \in 1 .. n
        BY <1>1, <3>2
      <4> QED BY <1>6, <3>2, <4>1
    <3> QED BY <3>1, <3>2
  <2> QED BY <2>1
<1>8. PICK f : f = T(f) /\ FlattenSeq(s) = f[n]
  <2>1. FlattenSeq(s) = (CHOOSE f : f = T(f))[n]
    BY <1>1 DEF FlattenSeq
  <2> QED BY <1>7, <2>1
<1>9. /\ f = [i \in 1 .. n |-> T(f)[i]]
      /\ \A i \in 1 .. n : f[i] = IF i = 1 THEN s[1] ELSE f[i - 1] \o s[i]
  BY <1>8
<1> DEFINE S == {i \in 0 .. n : i # 0 => f[i] \in Seq(V)}
<1>10. ASSUME NEW i \in 1 .. n, i - 1 \in S PROVE i \in S
  <2>1. CASE i = 1
    <3>1. f[1] = s[1]
      BY <1>9, <2>1
    <3> QED BY <1>1, <2>1, <3>1
  <2>2. CASE i # 1
    <3>1. i - 1 # 0 /\ i \in 0 .. n
      BY <1>1, <2>2
    <3>2. f[i - 1] \in Seq(V) /\ s[i] \in Seq(V)
      BY <1>1, <1>10, <3>1
    <3>3. f[i] = f[i - 1] \o s[i]
      BY <1>9, <2>2
    <3>4. f[i] \in Seq(V)
      BY ONLY <3>2, <3>3
    <3> QED BY <3>1, <3>4
  <2> QED BY <2>1, <2>2
<1>11. 0 \in S
  BY <1>1
<1> HIDE DEF S, T
<1>12. 0 .. n \subseteq S
  BY <1>1, <1>10, <1>11, Induction
<1>13. f \in [1 .. n -> Seq(V)]
  <2>1. \A i \in 1 .. n : i \in 0 .. n /\ i # 0
    BY <1>1
  <2>2. \A i \in 1 .. n : f[i] \in Seq(V)
    BY <1>12, <2>1 DEF S
  <2>3. f = [i \in 1 .. n |-> f[i]]
    BY <1>9
  <2> QED BY <2>2, <2>3
<1>14. f[1] = s[1] /\ \A i \in 2 .. n : f[i] = f[i - 1] \o s[i]
  <2>1. 1 \in 1 .. n /\ \A i \in 2 .. n : i \in 1 .. n /\ i # 1
    BY <1>1
  <2> QED BY <1>9, <2>1
<1> QED BY <1>8, <1>13, <1>14

(* What FlattenSeq makes of no sequence, of one more, and its type.        *)
LEMMA FlattenAppend ==
  ASSUME NEW V, NEW s \in Seq(Seq(V)), NEW x \in Seq(V)
  PROVE  /\ FlattenSeq(<<>>) = <<>>
         /\ FlattenSeq(s) \in Seq(V)
         /\ FlattenSeq(Append(s, x)) = FlattenSeq(s) \o x
<1> DEFINE u == Append(s, x)
           n == Len(s)
<1>1. FlattenSeq(<<>>) = <<>>
  BY DEF FlattenSeq
<1>2. /\ u \in Seq(Seq(V)) /\ u # <<>> /\ Len(u) = n + 1 /\ n \in Nat
      /\ u[n + 1] = x /\ \A i \in 1 .. n : u[i] = s[i]
  BY AppendProperties
<1>3. PICK g \in [1 .. n + 1 -> Seq(V)] :
        /\ g[1] = u[1]
        /\ \A i \in 2 .. n + 1 : g[i] = g[i - 1] \o u[i]
        /\ FlattenSeq(u) = g[n + 1]
  <2> HIDE DEF u
  <2>1. \E g \in [1 .. Len(u) -> Seq(V)] :
          /\ g[1] = u[1]
          /\ \A i \in 2 .. Len(u) : g[i] = g[i - 1] \o u[i]
          /\ FlattenSeq(u) = g[Len(u)]
    BY ONLY <1>2, FlattenTurns
  <2> QED BY <1>2, <2>1
<1>4. CASE s = <<>>
  <2>1. n = 0 /\ FlattenSeq(s) = <<>>
    BY <1>1, <1>4
  <2>2. FlattenSeq(u) = x
    BY <1>2, <1>3, <2>1
  <2>3. <<>> \o x = x /\ <<>> \in Seq(V)
    OBVIOUS
  <2> QED BY <1>1, <2>1, <2>2, <2>3
<1>5. CASE s # <<>>
  <2>1. PICK f \in [1 .. n -> Seq(V)] :
          /\ f[1] = s[1]
          /\ \A i \in 2 .. n : f[i] = f[i - 1] \o s[i]
          /\ FlattenSeq(s) = f[n]
    BY <1>5, FlattenTurns
  <2>2. n \in 1 .. n
    BY <1>2, <1>5
  <2> DEFINE S == {i \in 0 .. n : i # 0 => f[i] = g[i]}
  <2>3. ASSUME NEW i \in 1 .. n, i - 1 \in S PROVE i \in S
    <3>1. CASE i = 1
      BY <1>2, <1>3, <2>1, <3>1
    <3>2. CASE i # 1
      <4>1. i \in 2 .. n /\ i \in 2 .. n + 1 /\ i - 1 # 0 /\ i \in 0 .. n
        BY <1>2, <3>2
      <4>2. f[i - 1] = g[i - 1]
        BY <2>3, <4>1
      <4>3. f[i] = f[i - 1] \o s[i] /\ g[i] = g[i - 1] \o u[i] /\ u[i] = s[i]
        BY <1>2, <1>3, <2>1, <4>1
      <4> QED BY <4>1, <4>2, <4>3
    <3> QED BY <3>1, <3>2
  <2>4. 0 \in S
    BY <1>2
  <2> HIDE DEF S
  <2>5. 0 .. n \subseteq S
    BY <1>2, <2>3, <2>4, Induction
  <2>6. f[n] = g[n]
    <3>1. n \in S /\ n # 0
      <4>1. n \in 0 .. n /\ n # 0
        BY <1>2, <2>2
      <4> QED BY <2>5, <4>1
    <3> QED BY <3>1 DEF S
  <2>7. g[n + 1] = g[(n + 1) - 1] \o u[n + 1] /\ (n + 1) - 1 = n
    <3>1. n + 1 \in 2 .. n + 1 /\ (n + 1) - 1 = n
      BY <1>2, <2>2
    <3> QED BY <1>3, <3>1
  <2>8. f[n] \in Seq(V)
    BY <2>1, <2>2
  <2> QED BY <1>1, <1>2, <1>3, <2>1, <2>6, <2>7, <2>8
<1> QED BY <1>4, <1>5

(* What g makes of each element of s, one after the other.                 *)
Spelled(g, s) == FlattenSeq([i \in DOMAIN s |-> g[s[i]]])

(* What is made of no element.                                             *)
LEMMA SpelledEmpty ==
  ASSUME NEW g
  PROVE  Spelled(g, <<>>) = <<>>
<1>1. [i \in DOMAIN <<>> |-> g[<<>>[i]]] = <<>>
  OBVIOUS
<1>2. FlattenSeq(<<>>) = <<>>
  BY DEF FlattenSeq
<1> QED BY <1>1, <1>2 DEF Spelled

(* What is made of a sequence and of one element more.                     *)
LEMMA SpelledAppend ==
  ASSUME NEW D, NEW V, NEW g \in [D -> Seq(V)]
  PROVE  /\ \A s \in Seq(D) : Spelled(g, s) \in Seq(V)
         /\ \A s \in Seq(D), c \in D :
              Spelled(g, Append(s, c)) = Spelled(g, s) \o g[c]
<1>1. ASSUME NEW s \in Seq(D), NEW c \in D
      PROVE  /\ Spelled(g, s) \in Seq(V)
             /\ Spelled(g, Append(s, c)) = Spelled(g, s) \o g[c]
  <2> DEFINE Q(r) == [i \in DOMAIN r |-> g[r[i]]]
             n == Len(s)
  <2>1. n \in Nat /\ DOMAIN s = 1 .. n /\ \A i \in 1 .. n : s[i] \in D
    OBVIOUS
  <2>2. Q(s) \in [1 .. n -> Seq(V)]
    BY <2>1
  <2>3. Q(s) \in Seq(Seq(V)) /\ Len(Q(s)) = n
    <3> DEFINE q == Q(s)
    <3> HIDE DEF q
    <3>1. q \in [1 .. n -> Seq(V)] /\ n \in Nat
      BY <2>1, <2>2 DEF q
    <3> DEFINE X == Seq(V)
    <3> HIDE DEF X, n
    <3>2. q \in [1 .. n -> X] /\ n \in Nat
      BY <3>1 DEF X
    <3>3. q \in Seq(X) /\ Len(q) = n
      BY ONLY <3>2
    <3> QED BY <3>3 DEF q, X
  <2>4. Q(Append(s, c)) = Append(Q(s), g[c])
    <3> DEFINE a == Append(s, c)
               b == Append(Q(s), g[c])
    <3>1. /\ DOMAIN a = 1 .. n + 1 /\ a[n + 1] = c
          /\ \A i \in 1 .. n : a[i] = s[i]
      BY <2>1
    <3>2. g[c] \in Seq(V)
      OBVIOUS
    <3>3. b \in Seq(Seq(V)) /\ Len(b) = n + 1 /\ b[n + 1] = g[c]
          /\ \A i \in 1 .. n : b[i] = Q(s)[i]
      <4> DEFINE q == Q(s)
      <4>1. q \in Seq(Seq(V)) /\ Len(q) = n
        BY <2>3
      <4> HIDE DEF q
      <4>2. /\ Append(q, g[c]) \in Seq(Seq(V)) /\ Len(Append(q, g[c])) = n + 1
            /\ Append(q, g[c])[n + 1] = g[c]
            /\ \A i \in 1 .. n : Append(q, g[c])[i] = q[i]
        BY ONLY <3>2, <4>1, AppendProperties
      <4> QED BY <4>2 DEF q
    <3>4. \A i \in 1 .. n + 1 : Q(a)[i] = b[i]
      <4> TAKE i \in 1 .. n + 1
      <4>1. CASE i = n + 1
        BY <3>1, <3>3, <4>1
      <4>2. CASE i # n + 1
        <5>1. i \in 1 .. n
          BY <2>1, <4>2
        <5>2. Q(a)[i] = g[a[i]] /\ a[i] = s[i] /\ b[i] = Q(s)[i]
          BY <3>1, <3>3, <5>1
        <5>3. Q(s)[i] = g[s[i]]
          BY <2>1, <5>1
        <5> QED BY <5>2, <5>3
      <4> QED BY <4>1, <4>2
    <3>5. DOMAIN Q(a) = 1 .. n + 1
      BY <3>1
    <3>6. DOMAIN b = 1 .. n + 1
      BY <3>3
    <3> HIDE DEF b, a
    <3>7. b = [i \in 1 .. n + 1 |-> b[i]]
      BY <3>3
    <3>8. Q(a) = [i \in 1 .. n + 1 |-> Q(a)[i]]
      BY <3>5
    <3>9. Q(a) = b
      BY <3>4, <3>7, <3>8
    <3> QED BY <3>9 DEF a, b
  <2>6. g[c] \in Seq(V)
    OBVIOUS
  <2>7. /\ FlattenSeq(Q(s)) \in Seq(V)
        /\ FlattenSeq(Append(Q(s), g[c])) = FlattenSeq(Q(s)) \o g[c]
    <3> HIDE DEF Q
    <3> QED BY ONLY <2>3, <2>6, FlattenAppend
  <2> QED BY <2>4, <2>7 DEF Spelled
<1>2. ASSUME NEW s \in Seq(D) PROVE Spelled(g, s) \in Seq(V)
  <2>1. CASE s = <<>>
    <3>1. Spelled(g, s) = <<>>
      BY <2>1, SpelledEmpty
    <3>2. <<>> \in Seq(V)
      OBVIOUS
    <3> QED BY <3>1, <3>2
  <2>2. CASE s # <<>>
    <3>1. s[1] \in D
      BY <2>2
    <3> QED BY <1>1, <3>1
  <2> QED BY <2>1, <2>2
<1> QED BY <1>1, <1>2

(* What is made of one sequence after another.                             *)
LEMMA SpelledConcat ==
  ASSUME NEW D, NEW V, NEW g \in [D -> Seq(V)]
  PROVE  \A s \in Seq(D), t \in Seq(D) :
           Spelled(g, s \o t) = Spelled(g, s) \o Spelled(g, t)
<1> TAKE s \in Seq(D), t \in Seq(D)
<1> DEFINE S == {u \in Seq(D) :
                   Spelled(g, s \o u) = Spelled(g, s) \o Spelled(g, u)}
<1>1. /\ \A u \in Seq(D) : Spelled(g, u) \in Seq(V)
      /\ \A u \in Seq(D), c \in D :
           Spelled(g, Append(u, c)) = Spelled(g, u) \o g[c]
  BY SpelledAppend
<1>2. Spelled(g, <<>>) = <<>> /\ \A u \in Seq(D) : Spelled(g, u) \in Seq(V)
  BY <1>1, SpelledEmpty
<1>3. <<>> \in S
  <2>1. s \o <<>> = s /\ <<>> \in Seq(D)
    OBVIOUS
  <2>2. Spelled(g, s) \o <<>> = Spelled(g, s)
    BY <1>2
  <2> QED BY <1>2, <2>1, <2>2
<1>4. ASSUME NEW u \in Seq(D), NEW c \in D, u \in S PROVE Append(u, c) \in S
  <2>1. s \o Append(u, c) = Append(s \o u, c) /\ s \o u \in Seq(D)
        /\ Append(u, c) \in Seq(D)
    OBVIOUS
  <2>2. Spelled(g, Append(s \o u, c)) = Spelled(g, s \o u) \o g[c]
    BY <1>1, <2>1
  <2>3. Spelled(g, s \o u) = Spelled(g, s) \o Spelled(g, u)
    BY <1>4
  <2>4. Spelled(g, Append(u, c)) = Spelled(g, u) \o g[c]
    BY <1>1
  <2>5. (Spelled(g, s) \o Spelled(g, u)) \o g[c]
          = Spelled(g, s) \o (Spelled(g, u) \o g[c])
    <3>1. /\ Spelled(g, s) \in Seq(V) /\ Spelled(g, u) \in Seq(V)
          /\ g[c] \in Seq(V)
      BY <1>2
    <3> DEFINE x == Spelled(g, s)
               y == Spelled(g, u)
               z == g[c]
    <3> HIDE DEF x, y, z
    <3>2. x \in Seq(V) /\ y \in Seq(V) /\ z \in Seq(V)
      BY <3>1 DEF x, y, z
    <3>3. (x \o y) \o z = x \o (y \o z)
      BY ONLY <3>2, SMTT(60)
    <3> QED BY <3>3 DEF x, y, z
  <2> QED BY <2>1, <2>2, <2>3, <2>4, <2>5
<1> HIDE DEF S
<1>5. Seq(D) \subseteq S
  BY <1>3, <1>4, SequenceInduction
<1> QED BY <1>5 DEF S

-----------------------------------------------------------------------------
(* What the flags of the loop mean.                                        *)

BreakAt(t, i) == CodePoint[t[i]].break

IndicAt(t, i) == CodePoint[t[i]].indic

(* Of the first n code points, the last ones are an emoji and what extends *)
(* it, or a consonant and what goes on with it, with a linker or without.  *)
PictureUpTo(t, n) ==
  \E i \in 1 .. n : /\ BreakAt(t, i) = "EXTPICT"
                    /\ \A j \in i + 1 .. n : BreakAt(t, j) = "EXTEND"

ConjunctUpTo(t, n) ==
  \E i \in 1 .. n :
    /\ IndicAt(t, i) = "CONSONANT"
    /\ \A j \in i + 1 .. n : IndicAt(t, j) \in {"EXTEND", "LINKER"}

LinkedUpTo(t, n) ==
  \E i \in 1 .. n :
    /\ IndicAt(t, i) = "CONSONANT"
    /\ \A j \in i + 1 .. n : IndicAt(t, j) \in {"EXTEND", "LINKER"}
    /\ \E j \in i + 1 .. n : IndicAt(t, j) = "LINKER"

(* The regional indicators at the end of the first n code points.          *)
FlagsUpTo(t, n) ==
  {i \in 1 .. n : \A j \in i .. n : BreakAt(t, j) = "REGIONAL_INDICATOR"}

(* What the flags are after n code points of t.                            *)
FlagsMean(t, n, w) ==
  /\ w.emoji = (BreakAt(t, n) \in {"EXTEND", "ZWJ"} /\ PictureUpTo(t, n - 1))
  /\ w.odd = (/\ BreakAt(t, n) = "REGIONAL_INDICATOR"
              /\ Cardinality(FlagsUpTo(t, n)) % 2 = 0)
  /\ w.within = (/\ IndicAt(t, n) \in {"EXTEND", "LINKER"}
                 /\ ConjunctUpTo(t, n - 1))
  /\ w.seen = (IndicAt(t, n) \in {"EXTEND", "LINKER"} /\ LinkedUpTo(t, n - 1))

(* A place of A with places of B only behind it, up to n: it is n, or n is *)
(* of B and there is one up to n - 1.                                      *)
LEMMA SinceTurn ==
  ASSUME NEW n \in Nat \ {0}, NEW A, NEW B
  PROVE  (\E i \in 1 .. n : i \in A /\ \A j \in i + 1 .. n : j \in B)
         <=> \/ n \in A
             \/ /\ n \in B
                /\ \E i \in 1 .. n - 1 :
                     i \in A /\ \A j \in i + 1 .. n - 1 : j \in B
<1>1. ASSUME NEW i \in 1 .. n, i \in A, \A j \in i + 1 .. n : j \in B,
             n \notin A
      PROVE  /\ n \in B /\ i \in 1 .. n - 1
             /\ \A j \in i + 1 .. n - 1 : j \in B
  <2>1. i # n
    BY <1>1
  <2>2. n \in i + 1 .. n /\ i \in 1 .. n - 1
    BY <2>1
  <2>3. \A j \in i + 1 .. n - 1 : j \in i + 1 .. n
    OBVIOUS
  <2> QED BY <1>1, <2>2, <2>3
<1>2. ASSUME n \in A
      PROVE  \E i \in 1 .. n : i \in A /\ \A j \in i + 1 .. n : j \in B
  <2>1. n \in 1 .. n /\ \A j \in n + 1 .. n : FALSE
    OBVIOUS
  <2> QED BY <1>2, <2>1
<1>3. ASSUME NEW i \in 1 .. n - 1, i \in A, n \in B,
             \A j \in i + 1 .. n - 1 : j \in B
      PROVE  i \in 1 .. n /\ \A j \in i + 1 .. n : j \in B
  <2>1. \A j \in i + 1 .. n : j = n \/ j \in i + 1 .. n - 1
    OBVIOUS
  <2>2. i \in 1 .. n
    OBVIOUS
  <2> QED BY <1>3, <2>1, <2>2
<1> QED BY <1>1, <1>2, <1>3

(* The same with one of C among the places of B.                           *)
LEMMA LinkedTurn ==
  ASSUME NEW n \in Nat \ {0}, NEW A, NEW B, NEW C
  PROVE  (\E i \in 1 .. n : /\ i \in A /\ \A j \in i + 1 .. n : j \in B
                            /\ \E j \in i + 1 .. n : j \in C)
         <=> /\ n \in B
             /\ \/ \E i \in 1 .. n - 1 :
                     /\ i \in A /\ \A j \in i + 1 .. n - 1 : j \in B
                     /\ \E j \in i + 1 .. n - 1 : j \in C
                \/ /\ n \in C
                   /\ \E i \in 1 .. n - 1 :
                        i \in A /\ \A j \in i + 1 .. n - 1 : j \in B
<1>1. ASSUME NEW i \in 1 .. n, i \in A, \A j \in i + 1 .. n : j \in B,
             NEW k \in i + 1 .. n, k \in C
      PROVE  /\ n \in B /\ i \in 1 .. n - 1
             /\ \A j \in i + 1 .. n - 1 : j \in B
             /\ n \in C \/ k \in i + 1 .. n - 1
  <2>1. n \in i + 1 .. n /\ i \in 1 .. n - 1
    OBVIOUS
  <2>2. \A j \in i + 1 .. n - 1 : j \in i + 1 .. n
    OBVIOUS
  <2>3. k = n \/ k \in i + 1 .. n - 1
    OBVIOUS
  <2> QED BY <1>1, <2>1, <2>2, <2>3
<1>2. ASSUME NEW i \in 1 .. n - 1, i \in A, n \in B,
             \A j \in i + 1 .. n - 1 : j \in B
      PROVE  /\ i \in 1 .. n /\ \A j \in i + 1 .. n : j \in B
             /\ n \in i + 1 .. n /\ \A j \in i + 1 .. n - 1 : j \in i + 1 .. n
  <2>1. \A j \in i + 1 .. n : j = n \/ j \in i + 1 .. n - 1
    OBVIOUS
  <2>2. /\ i \in 1 .. n /\ n \in i + 1 .. n
        /\ \A j \in i + 1 .. n - 1 : j \in i + 1 .. n
    OBVIOUS
  <2> QED BY <1>2, <2>1, <2>2
<1> QED BY <1>1, <1>2

(* What stands at the end of n code points, from what stands before.       *)
LEMMA UpToTurn ==
  ASSUME NEW t, NEW n \in Nat \ {0}
  PROVE  /\ PictureUpTo(t, n) <=>
              (\/ BreakAt(t, n) = "EXTPICT"
               \/ BreakAt(t, n) = "EXTEND" /\ PictureUpTo(t, n - 1))
         /\ ConjunctUpTo(t, n) <=>
              (\/ IndicAt(t, n) = "CONSONANT"
               \/ /\ IndicAt(t, n) \in {"EXTEND", "LINKER"}
                  /\ ConjunctUpTo(t, n - 1))
         /\ LinkedUpTo(t, n) <=>
              (/\ IndicAt(t, n) \in {"EXTEND", "LINKER"}
               /\ \/ LinkedUpTo(t, n - 1)
                  \/ IndicAt(t, n) = "LINKER" /\ ConjunctUpTo(t, n - 1))
<1> DEFINE At(X) == {i \in 1 .. n : BreakAt(t, i) \in X}
           In(X) == {i \in 1 .. n : IndicAt(t, i) \in X}
<1>1. n \in 1 .. n /\ \A i \in 1 .. n - 1 : i \in 1 .. n
  OBVIOUS
<1>2. /\ \A i \in 1 .. n : \A j \in i + 1 .. n : j \in 1 .. n
      /\ \A i \in 1 .. n - 1 : \A j \in i + 1 .. n - 1 : j \in 1 .. n
  OBVIOUS
<1>3. PictureUpTo(t, n) <=>
        (\/ BreakAt(t, n) = "EXTPICT"
         \/ BreakAt(t, n) = "EXTEND" /\ PictureUpTo(t, n - 1))
  <2> DEFINE A == At({"EXTPICT"})
             B == At({"EXTEND"})
  <2>1. PictureUpTo(t, n) <=>
          \E i \in 1 .. n : i \in A /\ \A j \in i + 1 .. n : j \in B
    BY <1>2 DEF PictureUpTo
  <2>2. PictureUpTo(t, n - 1) <=>
          \E i \in 1 .. n - 1 : i \in A /\ \A j \in i + 1 .. n - 1 : j \in B
    BY <1>1, <1>2 DEF PictureUpTo
  <2>3. /\ n \in A <=> BreakAt(t, n) = "EXTPICT"
        /\ n \in B <=> BreakAt(t, n) = "EXTEND"
    BY <1>1
  <2> HIDE DEF A, B
  <2>4. (\E i \in 1 .. n : i \in A /\ \A j \in i + 1 .. n : j \in B)
        <=> \/ n \in A
            \/ /\ n \in B
               /\ \E i \in 1 .. n - 1 :
                    i \in A /\ \A j \in i + 1 .. n - 1 : j \in B
    BY ONLY n \in Nat \ {0}, SinceTurn
  <2>5. PictureUpTo(t, n) \in BOOLEAN
    BY DEF PictureUpTo
  <2> QED BY <2>1, <2>2, <2>3, <2>4, <2>5
<1>4. ConjunctUpTo(t, n) <=>
        (\/ IndicAt(t, n) = "CONSONANT"
         \/ /\ IndicAt(t, n) \in {"EXTEND", "LINKER"}
            /\ ConjunctUpTo(t, n - 1))
  <2> DEFINE A == In({"CONSONANT"})
             B == In({"EXTEND", "LINKER"})
  <2>1. ConjunctUpTo(t, n) <=>
          \E i \in 1 .. n : i \in A /\ \A j \in i + 1 .. n : j \in B
    BY <1>2 DEF ConjunctUpTo
  <2>2. ConjunctUpTo(t, n - 1) <=>
          \E i \in 1 .. n - 1 : i \in A /\ \A j \in i + 1 .. n - 1 : j \in B
    BY <1>1, <1>2 DEF ConjunctUpTo
  <2>3. /\ n \in A <=> IndicAt(t, n) = "CONSONANT"
        /\ n \in B <=> IndicAt(t, n) \in {"EXTEND", "LINKER"}
    BY <1>1
  <2> HIDE DEF A, B
  <2>4. (\E i \in 1 .. n : i \in A /\ \A j \in i + 1 .. n : j \in B)
        <=> \/ n \in A
            \/ /\ n \in B
               /\ \E i \in 1 .. n - 1 :
                    i \in A /\ \A j \in i + 1 .. n - 1 : j \in B
    BY ONLY n \in Nat \ {0}, SinceTurn
  <2>5. ConjunctUpTo(t, n) \in BOOLEAN
    BY DEF ConjunctUpTo
  <2> QED BY <2>1, <2>2, <2>3, <2>4, <2>5
<1>5. LinkedUpTo(t, n) <=>
        (/\ IndicAt(t, n) \in {"EXTEND", "LINKER"}
         /\ \/ LinkedUpTo(t, n - 1)
            \/ IndicAt(t, n) = "LINKER" /\ ConjunctUpTo(t, n - 1))
  <2> DEFINE A == In({"CONSONANT"})
             B == In({"EXTEND", "LINKER"})
             C == In({"LINKER"})
  <2>1. LinkedUpTo(t, n) <=>
          \E i \in 1 .. n : /\ i \in A /\ \A j \in i + 1 .. n : j \in B
                            /\ \E j \in i + 1 .. n : j \in C
    BY <1>2 DEF LinkedUpTo
  <2>2. LinkedUpTo(t, n - 1) <=>
          \E i \in 1 .. n - 1 :
            /\ i \in A /\ \A j \in i + 1 .. n - 1 : j \in B
            /\ \E j \in i + 1 .. n - 1 : j \in C
    BY <1>1, <1>2 DEF LinkedUpTo
  <2>3. ConjunctUpTo(t, n - 1) <=>
          \E i \in 1 .. n - 1 : i \in A /\ \A j \in i + 1 .. n - 1 : j \in B
    BY <1>1, <1>2 DEF ConjunctUpTo
  <2>4. /\ n \in C <=> IndicAt(t, n) = "LINKER"
        /\ n \in B <=> IndicAt(t, n) \in {"EXTEND", "LINKER"}
    BY <1>1
  <2> HIDE DEF A, B, C
  <2>5. (\E i \in 1 .. n : /\ i \in A /\ \A j \in i + 1 .. n : j \in B
                           /\ \E j \in i + 1 .. n : j \in C)
        <=> /\ n \in B
            /\ \/ \E i \in 1 .. n - 1 :
                    /\ i \in A /\ \A j \in i + 1 .. n - 1 : j \in B
                    /\ \E j \in i + 1 .. n - 1 : j \in C
               \/ /\ n \in C
                  /\ \E i \in 1 .. n - 1 :
                       i \in A /\ \A j \in i + 1 .. n - 1 : j \in B
    BY ONLY n \in Nat \ {0}, LinkedTurn
  <2>6. LinkedUpTo(t, n) \in BOOLEAN
    BY DEF LinkedUpTo
  <2> QED BY <2>1, <2>2, <2>3, <2>4, <2>5, <2>6
<1> QED BY <1>3, <1>4, <1>5

(* One more regional indicator, or none.                                   *)
LEMMA FlagsTurn ==
  ASSUME NEW t, NEW n \in Nat
  PROVE  /\ BreakAt(t, n + 1) = "REGIONAL_INDICATOR" =>
              Cardinality(FlagsUpTo(t, n + 1)) =
                Cardinality(FlagsUpTo(t, n)) + 1
         /\ Cardinality(FlagsUpTo(t, n)) \in Nat
         /\ n # 0 /\ BreakAt(t, n) # "REGIONAL_INDICATOR" =>
              Cardinality(FlagsUpTo(t, n)) = 0
<1> DEFINE F == FlagsUpTo(t, n)
<1>1. F \subseteq 1 .. n
  BY DEF FlagsUpTo
<1>2. IsFiniteSet(1 .. n)
  BY FS_Interval
<1>3. IsFiniteSet(F)
  BY <1>1, <1>2, FS_Subset
<1>4. ASSUME BreakAt(t, n + 1) = "REGIONAL_INDICATOR"
      PROVE  FlagsUpTo(t, n + 1) = F \cup {n + 1} /\ n + 1 \notin F
  <2>1. n + 1 \notin F
    BY <1>1
  <2>2. ASSUME NEW i \in 1 .. n
        PROVE  (\A j \in i .. n : BreakAt(t, j) = "REGIONAL_INDICATOR") <=>
               (\A j \in i .. n + 1 : BreakAt(t, j) = "REGIONAL_INDICATOR")
    <3>1. \A j \in i .. n + 1 : j = n + 1 \/ j \in i .. n
      OBVIOUS
    <3>2. \A j \in i .. n : j \in i .. n + 1
      OBVIOUS
    <3> QED BY <1>4, <3>1, <3>2
  <2>3. /\ n + 1 \in 1 .. n + 1 /\ \A j \in n + 1 .. n + 1 : j = n + 1
        /\ \A i \in 1 .. n + 1 : i = n + 1 \/ i \in 1 .. n
        /\ \A i \in 1 .. n : i \in 1 .. n + 1
    OBVIOUS
  <2>4. \A i : i \in FlagsUpTo(t, n + 1) <=> i \in F \cup {n + 1}
    BY <1>4, <2>2, <2>3 DEF FlagsUpTo
  <2> QED BY <2>1, <2>4
<1>5. ASSUME n # 0, BreakAt(t, n) # "REGIONAL_INDICATOR" PROVE F = {}
  <2>1. \A i \in 1 .. n : n \in i .. n
    OBVIOUS
  <2> QED BY <1>5, <2>1 DEF FlagsUpTo
<1> HIDE DEF F
<1>6. Cardinality(F) \in Nat /\ (F = {} => Cardinality(F) = 0)
  BY <1>3, FS_CardinalityType, FS_EmptySet
<1>7. n + 1 \notin F => Cardinality(F \cup {n + 1}) = Cardinality(F) + 1
  BY <1>3, FS_AddElement
<1> QED BY <1>4, <1>5, <1>6, <1>7 DEF F

(* What the tables say of a code point that stands in a text.              *)
LEMMA PropertiesOf ==
  ASSUME NEW t \in Seq(DOMAIN CodePoint), NEW i \in 1 .. Len(t)
  PROVE  /\ IndicAt(t, i) \in {"EXTEND", "LINKER"} =>
              BreakAt(t, i) \in Extending
         /\ IndicAt(t, i) = "CONSONANT" => BreakAt(t, i) = "OTHER"
<1>1. t[i] \in DOMAIN CodePoint
  OBVIOUS
<1> QED BY <1>1, PropertyAssumption DEF IndicAt, BreakAt

(* A turn keeps what the flags mean, unless a mark follows a joiner.       *)
LEMMA FlagsKept ==
  ASSUME NEW t, NEW n \in Nat \ {0}, NEW w \in Broken, FlagsMean(t, n, w),
         ~ (BreakAt(t, n) = "ZWJ" /\ BreakAt(t, n + 1) \in Extending)
  PROVE  FlagsMean(t, n + 1, ReadCodePoint(w, t[n], t[n + 1]))
<1> DEFINE b == BreakAt(t, n)
           c == BreakAt(t, n + 1)
           p == IndicAt(t, n)
           q == IndicAt(t, n + 1)
           v == ReadCodePoint(w, t[n], t[n + 1])
           g == GraphemeBreakAllowed(b, c, w)
           i == IndicConjunctBreakAllowed(p, q, w)
           P == PictureUpTo(t, n - 1)
           C == ConjunctUpTo(t, n - 1)
           L == LinkedUpTo(t, n - 1)
           N == Cardinality(FlagsUpTo(t, n))
<1>1. /\ v.emoji = g.emoji /\ v.odd = g.odd
      /\ v.within = i.within /\ v.seen = i.seen
  BY DEF ReadCodePoint, Extend, BreakAt, IndicAt
<1>2. /\ w.emoji \in BOOLEAN /\ w.odd \in BOOLEAN
      /\ w.within \in BOOLEAN /\ w.seen \in BOOLEAN
  BY DEF Broken
<1>3. /\ w.emoji = (b \in {"EXTEND", "ZWJ"} /\ P)
      /\ w.odd = (b = "REGIONAL_INDICATOR" /\ N % 2 = 0)
      /\ w.within = (p \in {"EXTEND", "LINKER"} /\ C)
      /\ w.seen = (p \in {"EXTEND", "LINKER"} /\ L)
  BY DEF FlagsMean
<1>4. /\ PictureUpTo(t, n) <=> b = "EXTPICT" \/ (b = "EXTEND" /\ P)
      /\ ConjunctUpTo(t, n) <=>
           p = "CONSONANT" \/ (p \in {"EXTEND", "LINKER"} /\ C)
      /\ LinkedUpTo(t, n) <=>
           p \in {"EXTEND", "LINKER"} /\ (L \/ (p = "LINKER" /\ C))
  BY ONLY n \in Nat \ {0}, UpToTurn
<1>5. P \in BOOLEAN /\ C \in BOOLEAN /\ L \in BOOLEAN /\ (L => C)
  BY DEF PictureUpTo, ConjunctUpTo, LinkedUpTo
<1>6. /\ c = "REGIONAL_INDICATOR" => Cardinality(FlagsUpTo(t, n + 1)) = N + 1
      /\ N \in Nat /\ (b # "REGIONAL_INDICATOR" => N = 0)
  BY FlagsTurn
<1>7. ~ (b = "ZWJ" /\ c \in {"EXTEND", "ZWJ", "SPACINGMARK"})
  BY DEF Extending
<1>8. (n + 1) - 1 = n
  OBVIOUS
<1> DEFINE N1 == Cardinality(FlagsUpTo(t, n + 1))
<1> HIDE DEF b, c, p, q, P, C, L, N, N1, v
<1>9. g.emoji = (/\ c \in {"EXTEND", "ZWJ"}
                 /\ b = "EXTPICT" \/ (b = "EXTEND" /\ P))
  <2>1. g.emoji = CASE b = "EXTEND"  -> w.emoji /\ c \in {"EXTEND", "ZWJ"}
                    [] b = "ZWJ"     -> w.emoji /\ c \in Extending
                    [] b = "EXTPICT" -> w.emoji \/ c \in {"EXTEND", "ZWJ"}
                    [] OTHER         -> w.emoji
    BY DEF GraphemeBreakAllowed
  <2> HIDE DEF g
  <2>2. CASE b = "EXTEND"
    <3>1. g.emoji = (w.emoji /\ c \in {"EXTEND", "ZWJ"}) /\ w.emoji = P
      BY <1>3, <1>5, <2>1, <2>2
    <3> QED BY <1>5, <2>2, <3>1
  <2>3. CASE b = "ZWJ"
    <3>1. g.emoji = (w.emoji /\ c \in Extending)
      BY <2>1, <2>3
    <3> QED BY <1>7, <2>3, <3>1 DEF Extending
  <2>4. CASE b = "EXTPICT"
    <3>1. g.emoji = (w.emoji \/ c \in {"EXTEND", "ZWJ"})
      BY <2>1, <2>4
    <3>2. w.emoji = FALSE
      BY <1>3, <2>4
    <3> QED BY <2>4, <3>1, <3>2
  <2>5. CASE b \notin {"EXTEND", "ZWJ", "EXTPICT"}
    <3>1. g.emoji = w.emoji /\ w.emoji = FALSE
      BY <1>3, <2>1, <2>5
    <3> QED BY <2>5, <3>1
  <2> QED BY <2>2, <2>3, <2>4, <2>5
<1>10. g.odd = (c = "REGIONAL_INDICATOR" /\ N1 % 2 = 0)
  <2>1. CASE b = "REGIONAL_INDICATOR"
    <3>1. g.odd = (c = "REGIONAL_INDICATOR" /\ ~ (N % 2 = 0))
      BY <1>2, <1>3, <2>1 DEF GraphemeBreakAllowed
    <3>2. c = "REGIONAL_INDICATOR" => (N1 % 2 = 0 <=> ~ (N % 2 = 0))
      BY <1>6 DEF N1
    <3> QED BY <3>1, <3>2
  <2>2. CASE b # "REGIONAL_INDICATOR"
    <3>1. g.odd = FALSE
      BY <1>2, <1>3, <2>2 DEF GraphemeBreakAllowed
    <3>2. c = "REGIONAL_INDICATOR" => N1 = 1
      BY <1>6, <2>2 DEF N1
    <3>3. 1 % 2 # 0
      OBVIOUS
    <3> QED BY <3>1, <3>2, <3>3
  <2> QED BY <2>1, <2>2
<1>11. i.within = (/\ q \in {"EXTEND", "LINKER"}
                   /\ p = "CONSONANT" \/ (p \in {"EXTEND", "LINKER"} /\ C))
  <2>1. CASE p = "None"
    BY <2>1 DEF IndicConjunctBreakAllowed
  <2>2. CASE p # "None"
    <3>1. i.within = (/\ q \in {"EXTEND", "LINKER"}
                      /\ p = "CONSONANT" \/ w.within)
      BY <2>2 DEF IndicConjunctBreakAllowed
    <3> HIDE DEF i
    <3> QED BY <1>3, <3>1
  <2> QED BY <2>1, <2>2
<1>12. i.seen = (/\ q \in {"EXTEND", "LINKER"}
                 /\ p \in {"EXTEND", "LINKER"}
                 /\ L \/ (p = "LINKER" /\ C))
  <2>1. CASE p = "None"
    BY <2>1 DEF IndicConjunctBreakAllowed
  <2>2. CASE p = "CONSONANT"
    BY <2>2 DEF IndicConjunctBreakAllowed
  <2>3. CASE p = "LINKER"
    <3>1. i.seen = (q \in {"EXTEND", "LINKER"} /\ w.within)
      BY <2>3 DEF IndicConjunctBreakAllowed
    <3>2. w.within = C
      BY <1>3, <1>5, <2>3
    <3> QED BY <1>5, <2>3, <3>1, <3>2
  <2>4. CASE p \notin {"None", "CONSONANT", "LINKER"}
    <3>1. i.seen = (q \in {"EXTEND", "LINKER"} /\ w.seen)
      BY <2>4 DEF IndicConjunctBreakAllowed
    <3> HIDE DEF i
    <3> QED BY <1>3, <2>4, <3>1
  <2> QED BY <2>1, <2>2, <2>3, <2>4
<1> HIDE DEF g, i
<1>13. /\ v.emoji = (c \in {"EXTEND", "ZWJ"} /\ PictureUpTo(t, n))
       /\ v.odd = (c = "REGIONAL_INDICATOR" /\ N1 % 2 = 0)
       /\ v.within = (q \in {"EXTEND", "LINKER"} /\ ConjunctUpTo(t, n))
       /\ v.seen = (q \in {"EXTEND", "LINKER"} /\ LinkedUpTo(t, n))
  BY <1>1, <1>4, <1>9, <1>10, <1>11, <1>12
<1> QED BY <1>8, <1>13 DEF FlagsMean, c, q, N1, v

(* The flags of the first code point.                                      *)
LEMMA FirstFlags ==
  ASSUME NEW t
  PROVE  FlagsMean(t, 1, FirstCodePoint(t[1]))
<1> DEFINE w == FirstCodePoint(t[1])
<1>1. /\ w.emoji = FALSE /\ w.odd = FALSE
      /\ w.within = FALSE /\ w.seen = FALSE
  BY DEF FirstCodePoint, NoWord
<1>2. 1 - 1 = 0 /\ \A i \in 1 .. 0 : FALSE
  OBVIOUS
<1>3. ~ PictureUpTo(t, 0) /\ ~ ConjunctUpTo(t, 0) /\ ~ LinkedUpTo(t, 0)
  BY <1>2 DEF PictureUpTo, ConjunctUpTo, LinkedUpTo
<1>4. FlagsUpTo(t, 0) = {} /\ Cardinality(FlagsUpTo(t, 0)) = 0
  <2>1. FlagsUpTo(t, 0) = {}
    BY <1>2 DEF FlagsUpTo
  <2> QED BY <2>1, FS_EmptySet
<1>5. BreakAt(t, 1) = "REGIONAL_INDICATOR" =>
        Cardinality(FlagsUpTo(t, 1)) = 1
  <2>1. BreakAt(t, 0 + 1) = "REGIONAL_INDICATOR" =>
          Cardinality(FlagsUpTo(t, 0 + 1)) = Cardinality(FlagsUpTo(t, 0)) + 1
    BY FlagsTurn
  <2> QED BY <1>4, <2>1
<1>6. 1 % 2 # 0
  OBVIOUS
<1> HIDE DEF w
<1> QED BY <1>1, <1>2, <1>3, <1>5, <1>6 DEF FlagsMean, w

(* The rules of UAX 29 in the words of the flags.                          *)
LEMMA JoinsAs ==
  ASSUME NEW t, NEW n
  PROVE  LET b == BreakAt(t, n)
             c == BreakAt(t, n + 1)
             X == {k \in 1 .. n : \A j \in k .. n + 1 :
                                    BreakAt(t, j) = "REGIONAL_INDICATOR"}
         IN  Joins(t, n) <=>
               \/ b = "CR" /\ c = "LF"
               \/ /\ b \notin Controls /\ c \notin Controls
                  /\ \/ \/ b = "L" /\ c \in {"L", "V", "LV", "LVT"}
                        \/ b \in {"LV", "V"} /\ c \in {"V", "T"}
                        \/ b \in {"LVT", "T"} /\ c = "T"
                     \/ IndicAt(t, n + 1) = "CONSONANT" /\ LinkedUpTo(t, n)
                     \/ b = "ZWJ" /\ c = "EXTPICT" /\ PictureUpTo(t, n - 1)
                     \/ c \in Extending \/ b = "PREPEND"
                     \/ Cardinality(X) % 2 = 1
<1> DEFINE b == BreakAt(t, n)
           c == BreakAt(t, n + 1)
           X == {k \in 1 .. n : \A j \in k .. n + 1 :
                                  BreakAt(t, j) = "REGIONAL_INDICATOR"}
           M == Cardinality(X) % 2 = 1
           L == LinkedUpTo(t, n)
           P == PictureUpTo(t, n - 1)
<1>1. Joins(t, n) <=>
        \/ b = "CR" /\ c = "LF"
        \/ /\ Controls \cap {b, c} = {}
           /\ \/ \/ b = "L" /\ c \in {"L", "V", "LV", "LVT"}
                 \/ b \in {"LV", "V"} /\ c \in {"V", "T"}
                 \/ b \in {"LVT", "T"} /\ c = "T"
              \/ IndicAt(t, n + 1) = "CONSONANT" /\ L
              \/ b = "ZWJ" /\ c = "EXTPICT" /\ P
              \/ c \in Extending \/ b = "PREPEND"
              \/ M
  BY Zenon DEF Joins, BreakAt, IndicAt, LinkedUpTo, PictureUpTo
<1> HIDE DEF b, c, M, L, P
<1>2. Controls \cap {b, c} = {} <=> b \notin Controls /\ c \notin Controls
  OBVIOUS
<1> QED BY <1>1, <1>2 DEF b, c, M, L, P

(* The two state machines break a text where the rules of UAX 29 do.       *)
LEMMA BreaksAsRules ==
  ASSUME NEW t \in Seq(DOMAIN CodePoint), NEW n \in 1 .. Len(t) - 1,
         NEW w \in Broken, FlagsMean(t, n, w)
  PROVE  (/\ GraphemeBreakAllowed(BreakAt(t, n), BreakAt(t, n + 1), w).allowed
          /\ IndicConjunctBreakAllowed(IndicAt(t, n), IndicAt(t, n + 1), w)
               .allowed)
         <=> ~ Joins(t, n)
<1> DEFINE b == BreakAt(t, n)
           c == BreakAt(t, n + 1)
           p == IndicAt(t, n)
           q == IndicAt(t, n + 1)
           g == GraphemeBreakAllowed(b, c, w)
           i == IndicConjunctBreakAllowed(p, q, w)
           P == PictureUpTo(t, n - 1)
           C == ConjunctUpTo(t, n - 1)
           L == LinkedUpTo(t, n - 1)
           N == Cardinality(FlagsUpTo(t, n))
           X == {k \in 1 .. n : \A j \in k .. n + 1 :
                                  BreakAt(t, j) = "REGIONAL_INDICATOR"}
           M == Cardinality(X)
           E == {"EXTEND", "LINKER"}
           hangul == \/ b = "L" /\ c \in {"L", "V", "LV", "LVT"}
                     \/ b \in {"LV", "V"} /\ c \in {"V", "T"}
                     \/ b \in {"LVT", "T"} /\ c = "T"
<1>1. n \in Nat \ {0} /\ n \in 1 .. Len(t) /\ n + 1 \in 1 .. Len(t)
  OBVIOUS
<1>2. /\ w.emoji = (b \in {"EXTEND", "ZWJ"} /\ P)
      /\ w.odd = (b = "REGIONAL_INDICATOR" /\ N % 2 = 0)
      /\ w.within = (p \in {"EXTEND", "LINKER"} /\ C)
      /\ w.seen = (p \in {"EXTEND", "LINKER"} /\ L)
  BY DEF FlagsMean
<1>3. /\ p \in E => b \in Extending
      /\ p = "CONSONANT" => b = "OTHER"
      /\ q \in E => c \in Extending
      /\ q = "CONSONANT" => c = "OTHER"
  BY <1>1, PropertiesOf
<1>4. P \in BOOLEAN /\ C \in BOOLEAN /\ L \in BOOLEAN /\ (L => C)
  BY DEF PictureUpTo, ConjunctUpTo, LinkedUpTo
<1>5. LinkedUpTo(t, n) <=> p \in E /\ (L \/ (p = "LINKER" /\ C))
  BY ONLY <1>1, UpToTurn
<1>6. M % 2 = 1 <=> b = "REGIONAL_INDICATOR" /\ c = b /\ N % 2 # 0
  <2>1. N \in Nat
    BY <1>1, FlagsTurn
  <2>2. CASE c = "REGIONAL_INDICATOR"
    <3>1. \A k \in 1 .. n : \A j \in k .. n + 1 : j = n + 1 \/ j \in k .. n
      OBVIOUS
    <3>2. \A k \in 1 .. n : \A j \in k .. n : j \in k .. n + 1
      OBVIOUS
    <3>3. X = FlagsUpTo(t, n)
      BY <2>2, <3>1, <3>2 DEF FlagsUpTo
    <3>4. b # "REGIONAL_INDICATOR" => N = 0
      BY <1>1, FlagsTurn
    <3>5. M = N
      BY <3>3
    <3> HIDE DEF M, N, b, c
    <3>6. (M % 2 = 1 <=> N % 2 # 0) /\ (N = 0 => N % 2 = 0)
      BY <2>1, <3>5
    <3> QED BY <2>2, <3>4, <3>6
  <2>3. CASE c # "REGIONAL_INDICATOR"
    <3>1. \A k \in 1 .. n : n + 1 \in k .. n + 1
      OBVIOUS
    <3>2. X = {}
      BY <2>3, <3>1
    <3>3. M = 0
      BY <3>2, FS_EmptySet
    <3> HIDE DEF M
    <3> QED BY <2>3, <3>3
  <2> QED BY <2>2, <2>3
<1>7. Joins(t, n) <=>
        \/ b = "CR" /\ c = "LF"
        \/ /\ b \notin Controls /\ c \notin Controls
           /\ \/ hangul
              \/ q = "CONSONANT" /\ LinkedUpTo(t, n)
              \/ b = "ZWJ" /\ c = "EXTPICT" /\ P
              \/ c \in Extending \/ b = "PREPEND"
              \/ M % 2 = 1
  BY JoinsAs
<1> HIDE DEF b, c, p, q, P, C, L, M, N
<1>8. /\ w.emoji \in BOOLEAN /\ w.odd \in BOOLEAN
      /\ w.within \in BOOLEAN /\ w.seen \in BOOLEAN
  BY DEF Broken
<1>9. i.allowed <=>
        ~ \/ q \in E /\ (p = "CONSONANT" \/ (p \in E /\ C))
          \/ q = "CONSONANT" /\ p \in E /\ (L \/ (p = "LINKER" /\ C))
  <2>1. CASE p = "None"
    BY <2>1 DEF IndicConjunctBreakAllowed
  <2>2. CASE p = "CONSONANT"
    BY <2>2 DEF IndicConjunctBreakAllowed
  <2>3. CASE p \notin {"None", "CONSONANT"}
    <3>1. i.allowed <=> /\ ~ (q \in E /\ w.within)
                        /\ ~ (/\ q = "CONSONANT"
                              /\ IF p = "EXTEND" THEN w.seen ELSE w.within)
      BY <1>8, <2>3 DEF IndicConjunctBreakAllowed
    <3> HIDE DEF i
    <3>2. w.within <=> p \in E /\ C
      BY <1>2
    <3>3. w.seen <=> p \in E /\ L
      BY <1>2
    <3>4. CASE p = "EXTEND"
      BY <2>3, <3>1, <3>2, <3>3, <3>4
    <3>5. CASE p = "LINKER"
      BY <1>4, <2>3, <3>1, <3>2, <3>5
    <3>6. CASE p \notin E
      BY <2>3, <3>1, <3>2, <3>6
    <3> QED BY <3>4, <3>5, <3>6
  <2> QED BY <2>1, <2>2, <2>3
<1>10. g.allowed <=> ~ \/ b = "CR" /\ c = "LF"
                       \/ /\ b \notin Controls /\ c \notin Controls
                          /\ \/ hangul
                             \/ b = "ZWJ" /\ c = "EXTPICT" /\ P
                             \/ c \in Extending \/ b = "PREPEND"
                             \/ b = "REGIONAL_INDICATOR" /\ c = b /\ N % 2 # 0
  <2>1. g.allowed <=> IF b = "PREPEND" THEN c \in Controls
                      ELSE c \notin Joined(b, w)
    BY DEF GraphemeBreakAllowed
  <2>2. CASE b = "PREPEND"
    BY <2>1, <2>2 DEF Controls
  <2>3. CASE b # "PREPEND"
    BY <1>2, <1>4, <1>8, <2>1, <2>3 DEF Joined, Controls, Extending
  <2> QED BY <2>2, <2>3
<1>11. \A x \in Extending \cup {"OTHER"} : x \notin Controls
  BY DEF Extending, Controls
<1> HIDE DEF g, i
<1>12. (g.allowed /\ i.allowed) <=> ~ Joins(t, n)
  <2>1. CASE b = "CR" /\ c = "LF"
    BY <1>7, <1>10, <2>1
  <2> DEFINE D == b \notin Controls /\ c \notin Controls
             H == hangul
             J == b = "ZWJ" /\ c = "EXTPICT" /\ P
             O == c \in Extending \/ b = "PREPEND"
             I == q \in E /\ (p = "CONSONANT" \/ (p \in E /\ C))
             K == q = "CONSONANT" /\ p \in E /\ (L \/ (p = "LINKER" /\ C))
             R == b = "REGIONAL_INDICATOR" /\ c = b /\ N % 2 # 0
  <2>2. CASE ~ (b = "CR" /\ c = "LF")
    <3>1. g.allowed <=> ~ (D /\ (H \/ J \/ O \/ R))
      BY <1>10, <2>2
    <3>2. i.allowed <=> ~ (I \/ K)
      BY <1>9
    <3>3. Joins(t, n) <=> D /\ (H \/ K \/ J \/ O \/ R)
      BY <1>5, <1>6, <1>7, <2>2
    <3>4. I => O /\ D
      BY <1>3, <1>11
    <3>5. K => D
      BY <1>3, <1>11
    <3> HIDE DEF D, H, J, O, I, K, R
    <3> QED BY <3>1, <3>2, <3>3, <3>4, <3>5
  <2> QED BY <2>1, <2>2
<1> QED BY <1>12 DEF g, i, b, c, p, q

-----------------------------------------------------------------------------
(* A text is broken into characters where the rules say.                   *)

Field(field) == [c \in DOMAIN CodePoint |-> CodePoint[c][field]]

(* Spelling a text is spelling its code points one after the other.        *)
LEMMA SpellIs ==
  ASSUME NEW s \in Seq(DOMAIN CodePoint), NEW field
  PROVE  Spell(s, field) = Spelled(Field(field), s)
<1>1. \A i \in DOMAIN s : s[i] \in DOMAIN CodePoint
  OBVIOUS
<1>2. [i \in DOMAIN s |-> CodePoint[s[i]][field]]
        = [i \in DOMAIN s |-> Field(field)[s[i]]]
  BY <1>1 DEF Field
<1> QED BY <1>2 DEF Spell, Spelled

(* Decomposing a text, and a text with a code point more.                  *)
LEMMA NormalAppend ==
  /\ Spell(<<>>, "normal") = <<>>
  /\ \A s \in Seq(DOMAIN CodePoint) :
       Spell(s, "normal") \in Seq(NormalCodePoints)
  /\ \A s \in Seq(DOMAIN CodePoint), c \in DOMAIN CodePoint :
       Spell(Append(s, c), "normal") =
         Spell(s, "normal") \o CodePoint[c].normal
<1> DEFINE D == DOMAIN CodePoint
           g == Field("normal")
<1>1. /\ g \in [D -> Seq(NormalCodePoints)]
      /\ \A c \in D : g[c] = CodePoint[c].normal
  BY CodePointAssumption DEF Field
<1>2. <<>> \in Seq(D) /\ \A s \in Seq(D), c \in D : Append(s, c) \in Seq(D)
  OBVIOUS
<1>3. \A s \in Seq(D) : Spell(s, "normal") = Spelled(g, s)
  BY SpellIs
<1> HIDE DEF g, D
<1>4. Spelled(g, <<>>) = <<>>
  BY SpelledEmpty
<1>5. /\ \A s \in Seq(D) : Spelled(g, s) \in Seq(NormalCodePoints)
      /\ \A s \in Seq(D), c \in D :
           Spelled(g, Append(s, c)) = Spelled(g, s) \o g[c]
  BY ONLY <1>1, SpelledAppend
<1>6. Spell(<<>>, "normal") = <<>>
  BY <1>2, <1>3, <1>4
<1>7. \A s \in Seq(D) : Spell(s, "normal") \in Seq(NormalCodePoints)
  BY <1>3, <1>5
<1>8. \A s \in Seq(D), c \in D :
        Spell(Append(s, c), "normal") =
          Spell(s, "normal") \o CodePoint[c].normal
  BY <1>1, <1>2, <1>3, <1>5
<1> QED BY <1>6, <1>7, <1>8 DEF D

(* Where the rules start a character among the first n code points.        *)
StartsUpTo(t, n) == {k \in 1 .. n : k = 1 \/ ~ Joins(t, k - 1)}

EndsUpTo(p, m, n, i) == IF i = m THEN n ELSE p[i + 1] - 1

(* The first n code points of t are broken into characters, the i-th of    *)
(* which starts at p[i].                                                   *)
BrokenAt(t, n, characters, p) ==
  /\ p \in Placements(Len(characters), n)
  /\ ToSet(p) = StartsUpTo(t, n)
  /\ \A i \in 1 .. Len(characters) :
       characters[i] =
         Spell(SubSeq(t, p[i], EndsUpTo(p, Len(characters), n, i)), "normal")

(* A piece of a sequence, with an element more.                            *)
LEMMA SubSeqTurn ==
  ASSUME NEW D, NEW t \in Seq(D), NEW a \in 1 .. Len(t)
  PROVE  /\ SubSeq(t, a, a) = Append(<<>>, t[a])
         /\ \A n \in a .. Len(t) : SubSeq(t, a, n) \in Seq(D)
         /\ \A n \in a .. Len(t) - 1 :
              SubSeq(t, a, n + 1) = Append(SubSeq(t, a, n), t[n + 1])
<1>1. SubSeq(t, a, a) = Append(<<>>, t[a])
  <2>1. SubSeq(t, a, a) \in Seq(D) /\ Len(SubSeq(t, a, a)) = 1
    OBVIOUS
  <2>2. SubSeq(t, a, a)[1] = t[a]
    OBVIOUS
  <2> DEFINE s == SubSeq(t, a, a)
             e == t[a]
  <2> HIDE DEF s, e
  <2>3. s \in Seq(D) /\ Len(s) = 1 /\ s[1] = e
    BY <2>1, <2>2 DEF s, e
  <2>4. s = <<e>>
    BY ONLY <2>3
  <2> QED BY <2>4 DEF s, e
<1>2. \A n \in a .. Len(t) : SubSeq(t, a, n) \in Seq(D)
  OBVIOUS
<1>3. \A n \in a .. Len(t) - 1 :
        SubSeq(t, a, n + 1) = Append(SubSeq(t, a, n), t[n + 1])
  OBVIOUS
<1> QED BY <1>1, <1>2, <1>3

(* The first character starts at the first code point.                     *)
LEMMA BrokenFirst ==
  ASSUME NEW t \in Seq(DOMAIN CodePoint), t # <<>>
  PROVE  \E p : BrokenAt(t, 1, FirstCodePoint(t[1]).characters, p)
<1> DEFINE p == [i \in 1 .. 1 |-> 1]
           x == CodePoint[t[1]].normal
           s == <<x>>
<1>1. FirstCodePoint(t[1]).characters = s
  BY DEF FirstCodePoint, NoWord
<1>2. Len(s) = 1 /\ s[1] = x /\ 1 \in 1 .. 1 /\ \A i \in 1 .. 1 : i = 1
  OBVIOUS
<1>3. p \in Placements(1, 1)
  <2>1. p \in [1 .. 1 -> 1 .. 1] /\ \A i \in 1 .. 1 - 1 : FALSE
    BY <1>2
  <2> QED BY <2>1 DEF Placements
<1>4. ToSet(p) = {1}
  <2>1. DOMAIN p = {1} /\ p[1] = 1
    BY <1>2
  <2> HIDE DEF p
  <2> QED BY <2>1 DEF ToSet
<1>5. StartsUpTo(t, 1) = {1}
  BY <1>2 DEF StartsUpTo
<1>6. t[1] \in DOMAIN CodePoint /\ SubSeq(t, 1, 1) = Append(<<>>, t[1])
  <2>1. t[1] \in DOMAIN CodePoint /\ 1 \in 1 .. Len(t)
    OBVIOUS
  <2> QED BY <2>1, SubSeqTurn
<1>7. Spell(SubSeq(t, 1, 1), "normal") = x
  <2>1. <<>> \in Seq(DOMAIN CodePoint)
    OBVIOUS
  <2>2. Spell(SubSeq(t, 1, 1), "normal") = <<>> \o x
    BY <1>6, <2>1, NormalAppend
  <2>3. x \in Seq(NormalCodePoints)
    BY <1>6, CodePointAssumption
  <2> HIDE DEF x
  <2> QED BY <2>2, <2>3
<1>8. EndsUpTo(p, 1, 1, 1) = 1 /\ p[1] = 1
  BY <1>2 DEF EndsUpTo
<1> HIDE DEF p, x
<1>9. BrokenAt(t, 1, s, p)
  BY <1>2, <1>3, <1>4, <1>5, <1>7, <1>8 DEF BrokenAt
<1> QED BY <1>1, <1>9

(* There is a character before each code point.                            *)
LEMMA BrokenIsNotEmpty ==
  ASSUME NEW t, NEW n \in Nat \ {0}, NEW s \in Seq(Seq(NormalCodePoints)),
         NEW p, BrokenAt(t, n, s, p)
  PROVE  Len(s) \in Nat \ {0} /\ DOMAIN p = 1 .. Len(s)
<1>1. 1 \in StartsUpTo(t, n)
  <2>1. 1 \in 1 .. n
    OBVIOUS
  <2> QED BY <2>1 DEF StartsUpTo
<1>2. DOMAIN p = 1 .. Len(s) /\ ToSet(p) = StartsUpTo(t, n)
  BY DEF BrokenAt, Placements
<1>3. \E i \in DOMAIN p : p[i] = 1
  BY <1>1, <1>2 DEF ToSet
<1> QED BY <1>2, <1>3

(* A code point that starts a character.                                   *)
LEMMA BrokenByBreak ==
  ASSUME NEW t \in Seq(DOMAIN CodePoint), NEW n \in 1 .. Len(t) - 1,
         NEW s \in Seq(Seq(NormalCodePoints)), NEW p, BrokenAt(t, n, s, p),
         ~ Joins(t, n)
  PROVE  \E q : BrokenAt(t, n + 1, Append(s, CodePoint[t[n + 1]].normal), q)
<1> DEFINE m == Len(s)
           x == CodePoint[t[n + 1]].normal
           u == Append(s, x)
           q == [i \in 1 .. m + 1 |-> IF i = m + 1 THEN n + 1 ELSE p[i]]
<1>1. /\ n \in Nat \ {0} /\ n + 1 \in Nat /\ n + 1 \in 1 .. Len(t)
      /\ n + 1 \in 1 .. n + 1 /\ n < n + 1 /\ (n + 1) - 1 = n
      /\ t[n + 1] \in DOMAIN CodePoint
  OBVIOUS
<1>2. m \in Nat \ {0} /\ DOMAIN p = 1 .. m
  BY <1>1, BrokenIsNotEmpty
<1>3. /\ p \in Placements(m, n) /\ ToSet(p) = StartsUpTo(t, n)
      /\ \A i \in 1 .. m :
           s[i] = Spell(SubSeq(t, p[i], EndsUpTo(p, m, n, i)), "normal")
  BY DEF BrokenAt
<1>4. q \in Placements(m + 1, n + 1)
  <2> HIDE DEF m, q
  <2>1. [i \in 1 .. m + 1 |-> IF i = m + 1 THEN n + 1 ELSE p[i]]
          \in Placements(m + 1, n + 1)
    BY ONLY <1>1, <1>2, <1>3, LongerPlacement
  <2> QED BY <2>1 DEF q
<1>5. x \in Seq(NormalCodePoints)
  BY <1>1, CodePointAssumption
<1>6. /\ u \in Seq(Seq(NormalCodePoints)) /\ Len(u) = m + 1 /\ u[m + 1] = x
      /\ \A i \in 1 .. m : u[i] = s[i]
  <2> HIDE DEF x
  <2> QED BY ONLY <1>5, s \in Seq(Seq(NormalCodePoints)), AppendProperties
<1>7. /\ DOMAIN q = 1 .. m + 1 /\ q[m + 1] = n + 1
      /\ \A i \in 1 .. m : q[i] = p[i]
      /\ \A i \in 1 .. m + 1 : i = m + 1 \/ i \in 1 .. m
      /\ \A i \in 1 .. m : i \in 1 .. m + 1 /\ i # m + 1
      /\ \A i \in 1 .. m : i # m => i + 1 \in 1 .. m
      /\ m + 1 \in 1 .. m + 1
  <2>1. /\ m + 1 \in 1 .. m + 1
        /\ \A i \in 1 .. m : i \in 1 .. m + 1 /\ i # m + 1
        /\ \A i \in 1 .. m : i # m => i + 1 \in 1 .. m
        /\ \A i \in 1 .. m + 1 : i = m + 1 \/ i \in 1 .. m
    BY <1>2
  <2> QED BY <2>1
<1> HIDE DEF u, q, x
<1>8. ToSet(q) = StartsUpTo(t, n + 1)
  <2>1. \A k : k \in StartsUpTo(t, n + 1) <=>
                 k = n + 1 \/ k \in StartsUpTo(t, n)
    <3>1. \A k \in 1 .. n + 1 : k = n + 1 \/ k \in 1 .. n
      BY <1>1
    <3>2. \A k \in 1 .. n : k \in 1 .. n + 1
      BY <1>1
    <3> QED BY <1>1, <3>1, <3>2 DEF StartsUpTo
  <2>2. \A k : k \in ToSet(q) <=> k = n + 1 \/ k \in ToSet(p)
    BY <1>2, <1>7 DEF ToSet
  <2> QED BY <1>3, <2>1, <2>2
<1>9. ASSUME NEW i \in 1 .. m
      PROVE  EndsUpTo(q, m + 1, n + 1, i) = EndsUpTo(p, m, n, i)
  <2>1. CASE i = m
    BY <1>1, <1>7, <2>1 DEF EndsUpTo
  <2>2. CASE i # m
    BY <1>7, <2>2 DEF EndsUpTo
  <2> QED BY <2>1, <2>2
<1>10. \A i \in 1 .. m :
         u[i] = Spell(SubSeq(t, q[i], EndsUpTo(q, m + 1, n + 1, i)), "normal")
  BY <1>3, <1>6, <1>7, <1>9
<1>11. u[m + 1] =
         Spell(SubSeq(t, q[m + 1], EndsUpTo(q, m + 1, n + 1, m + 1)),
               "normal")
  <2>1. EndsUpTo(q, m + 1, n + 1, m + 1) = n + 1
    BY DEF EndsUpTo
  <2>2. SubSeq(t, n + 1, n + 1) = Append(<<>>, t[n + 1])
    BY <1>1, SubSeqTurn
  <2>3. <<>> \in Seq(DOMAIN CodePoint)
    OBVIOUS
  <2>4. Spell(SubSeq(t, n + 1, n + 1), "normal") = <<>> \o x
    BY <1>1, <2>2, <2>3, NormalAppend DEF x
  <2>5. <<>> \o x = x
    BY ONLY <1>5
  <2> QED BY <1>6, <1>7, <2>1, <2>4, <2>5
<1>12. \A i \in 1 .. m + 1 :
         u[i] = Spell(SubSeq(t, q[i], EndsUpTo(q, m + 1, n + 1, i)), "normal")
  BY <1>7, <1>10, <1>11
<1>13. BrokenAt(t, n + 1, u, q)
  BY <1>4, <1>6, <1>8, <1>12 DEF BrokenAt
<1> QED BY <1>13 DEF u, x

(* A code point that joins the last character.                             *)
LEMMA BrokenByJoin ==
  ASSUME NEW t \in Seq(DOMAIN CodePoint), NEW n \in 1 .. Len(t) - 1,
         NEW s \in Seq(Seq(NormalCodePoints)), NEW p, BrokenAt(t, n, s, p),
         Joins(t, n)
  PROVE  BrokenAt(t, n + 1,
                  [s EXCEPT ![Len(s)] = @ \o CodePoint[t[n + 1]].normal], p)
<1> DEFINE m == Len(s)
           x == CodePoint[t[n + 1]].normal
           u == [s EXCEPT ![m] = @ \o x]
<1>1. /\ n \in Nat \ {0} /\ n + 1 \in Nat /\ n + 1 \in 1 .. Len(t)
      /\ n <= n + 1 /\ (n + 1) - 1 = n /\ n + 1 # 1 /\ n \in Nat
      /\ t[n + 1] \in DOMAIN CodePoint
  OBVIOUS
<1>2. m \in Nat \ {0} /\ DOMAIN p = 1 .. m
  BY <1>1, BrokenIsNotEmpty
<1>3. /\ p \in Placements(m, n) /\ ToSet(p) = StartsUpTo(t, n)
      /\ \A i \in 1 .. m :
           s[i] = Spell(SubSeq(t, p[i], EndsUpTo(p, m, n, i)), "normal")
  BY DEF BrokenAt
<1>4. p \in Placements(m, n + 1)
  BY <1>1, <1>2, <1>3, WiderPlacement
<1>5. DOMAIN s = 1 .. m /\ m \in 1 .. m /\ \A i \in 1 .. m : i \in 1 .. m
  BY <1>2
<1>6. /\ Len(u) = m /\ u[m] = s[m] \o x
      /\ \A i \in 1 .. m : i # m => u[i] = s[i]
  <2>1. DOMAIN u = 1 .. m /\ u[m] = s[m] \o x
        /\ \A i \in 1 .. m : i # m => u[i] = s[i]
    BY <1>5
  <2> HIDE DEF u, m
  <2>2. m \in Nat
    BY <1>2
  <2>3. Len(u) = m
    BY ONLY <2>1, <2>2
  <2> QED BY <2>1, <2>3
<1>7. ToSet(p) = StartsUpTo(t, n + 1)
  <2>1. \A k \in 1 .. n + 1 : k = n + 1 \/ k \in 1 .. n
    BY <1>1
  <2>2. \A k \in 1 .. n : k \in 1 .. n + 1
    BY <1>1
  <2>3. \A k : k \in StartsUpTo(t, n + 1) <=> k \in StartsUpTo(t, n)
    BY <1>1, <2>1, <2>2 DEF StartsUpTo
  <2> QED BY <1>3, <2>3
<1>8. p[m] \in 1 .. n
  BY <1>3, <1>5 DEF Placements
<1>9. ASSUME NEW i \in 1 .. m, i # m
      PROVE  u[i] = Spell(SubSeq(t, p[i], EndsUpTo(p, m, n + 1, i)), "normal")
  BY <1>3, <1>6, <1>9 DEF EndsUpTo
<1>10. u[m] = Spell(SubSeq(t, p[m], EndsUpTo(p, m, n + 1, m)), "normal")
  <2>1. EndsUpTo(p, m, n, m) = n /\ EndsUpTo(p, m, n + 1, m) = n + 1
    BY DEF EndsUpTo
  <2> DEFINE a == p[m]
  <2>2. a \in 1 .. Len(t) /\ n \in a .. Len(t) - 1 /\ n \in a .. Len(t)
    BY <1>8
  <2> HIDE DEF a
  <2>3. /\ SubSeq(t, a, n) \in Seq(DOMAIN CodePoint)
        /\ SubSeq(t, a, n + 1) = Append(SubSeq(t, a, n), t[n + 1])
    BY <2>2, SubSeqTurn
  <2>4. Spell(SubSeq(t, a, n + 1), "normal")
          = Spell(SubSeq(t, a, n), "normal") \o x
    BY <1>1, <2>3, NormalAppend
  <2>5. s[m] = Spell(SubSeq(t, a, n), "normal")
    BY <1>3, <1>5, <2>1 DEF a
  <2> QED BY <1>6, <2>1, <2>4, <2>5 DEF a
<1> HIDE DEF u
<1>11. \A i \in 1 .. m :
         u[i] = Spell(SubSeq(t, p[i], EndsUpTo(p, m, n + 1, i)), "normal")
  BY <1>9, <1>10
<1>12. BrokenAt(t, n + 1, u, p)
  BY <1>4, <1>6, <1>7, <1>11 DEF BrokenAt
<1> QED BY <1>12 DEF u

(* A turn of the loop breaks the text where the rules do.                  *)
LEMMA BrokenTurn ==
  ASSUME NEW t \in Seq(DOMAIN CodePoint), NEW n \in 1 .. Len(t) - 1,
         ~ JoinerBeforeMark(t), NEW w \in Broken, FlagsMean(t, n, w),
         NEW p, BrokenAt(t, n, w.characters, p)
  PROVE  LET v == ReadCodePoint(w, t[n], t[n + 1])
         IN  /\ FlagsMean(t, n + 1, v)
             /\ \E q : BrokenAt(t, n + 1, v.characters, q)
<1> DEFINE v == ReadCodePoint(w, t[n], t[n + 1])
           s == w.characters
           x == CodePoint[t[n + 1]].normal
           A == GraphemeBreakAllowed(BreakAt(t, n), BreakAt(t, n + 1), w)
                  .allowed
           B == IndicConjunctBreakAllowed(IndicAt(t, n), IndicAt(t, n + 1), w)
                  .allowed
<1>1. n \in Nat \ {0} /\ n \in 1 .. Len(t) - 1
  OBVIOUS
<1>2. ~ (BreakAt(t, n) = "ZWJ" /\ BreakAt(t, n + 1) \in Extending)
  BY <1>1 DEF JoinerBeforeMark, BreakAt
<1>3. FlagsMean(t, n + 1, v)
  BY <1>1, <1>2, FlagsKept
<1>4. s \in Seq(Seq(NormalCodePoints))
  BY DEF Broken
<1>5. v.characters = IF A /\ B THEN Append(s, x)
                     ELSE [s EXCEPT ![Len(s)] = @ \o x]
  BY DEF ReadCodePoint, Extend, BreakAt, IndicAt
<1>6. (A /\ B) <=> ~ Joins(t, n)
  BY BreaksAsRules
<1> HIDE DEF A, B, s, x, v
<1>7. BrokenAt(t, n, s, p)
  BY DEF s
<1>8. CASE Joins(t, n)
  <2>1. v.characters = [s EXCEPT ![Len(s)] = @ \o x]
    BY <1>5, <1>6, <1>8
  <2>3. BrokenAt(t, n + 1,
                 [s EXCEPT ![Len(s)] = @ \o CodePoint[t[n + 1]].normal], p)
    BY <1>4, <1>7, <1>8, BrokenByJoin
  <2>2. BrokenAt(t, n + 1, v.characters, p)
    BY <2>1, <2>3 DEF x
  <2> QED BY <1>3, <2>2 DEF v
<1>9. CASE ~ Joins(t, n)
  <2>1. v.characters = Append(s, x)
    BY <1>5, <1>6, <1>9
  <2>2. \E q : BrokenAt(t, n + 1, v.characters, q)
    BY <1>4, <1>7, <1>9, <2>1, BrokenByBreak DEF x
  <2> QED BY <1>3, <2>2 DEF v
<1> QED BY <1>8, <1>9

(* The loop of BreakCodePointsIntoCharacters (Word.cpp:262-330), with its  *)
(* flags, breaks every text into characters where the rules of UAX 29 do,  *)
(* unless a joiner stands before a mark in it.                             *)
THEOREM TextsBreakByRules ==
  ASSUME NEW t \in Seq(DOMAIN CodePoint), ~ JoinerBeforeMark(t)
  PROVE  BrokenByRules(t, BreakCodePointsIntoCharacters(t))
<1> DEFINE s == BreakCodePointsIntoCharacters(t)
           n == Len(t)
<1>1. PICK f \in [0 .. n -> Broken] :
        /\ f[0] = NoWord
        /\ \A i \in 1 .. n :
             f[i] = IF i = 1 THEN FirstCodePoint(t[1])
                    ELSE ReadCodePoint(f[i - 1], t[i - 1], t[i])
        /\ ReadCodePoints(t) = f[n]
  BY ReadTurns
<1>2. n \in Nat /\ s = f[n].characters
  BY <1>1 DEF BreakCodePointsIntoCharacters
<1>3. CASE n = 0
  <2>1. s = <<>> /\ Len(s) = 0 /\ t = <<>> /\ DOMAIN t = {} /\ DOMAIN s = {}
    BY <1>1, <1>2, <1>3 DEF NoWord
  <2> DEFINE p == [i \in 1 .. 0 |-> 1]
  <2>2. p \in Placements(0, 0) /\ DOMAIN p = {}
    <3>1. p \in [1 .. 0 -> 1 .. 0] /\ \A i \in 1 .. 0 - 1 : FALSE
      OBVIOUS
    <3> QED BY <3>1 DEF Placements
  <2> HIDE DEF p
  <2>3. ToSet(p) = {}
    BY <2>2 DEF ToSet
  <2> HIDE DEF s, n
  <2> QED BY <1>3, <2>1, <2>2, <2>3 DEF BrokenByRules, s, n
<1>4. CASE n # 0
  <2> DEFINE S == {i \in 0 .. n : i # 0 =>
                     /\ FlagsMean(t, i, f[i])
                     /\ \E p : BrokenAt(t, i, f[i].characters, p)}
  <2>1. 0 \in S
    BY <1>2
  <2>2. ASSUME NEW i \in 1 .. n, i - 1 \in S PROVE i \in S
    <3>1. CASE i = 1
      <4>1. f[1] = FirstCodePoint(t[1]) /\ 1 \in 0 .. n /\ t # <<>>
        BY <1>1, <1>2, <3>1
      <4>2. FlagsMean(t, 1, f[1]) /\ \E p : BrokenAt(t, 1, f[1].characters, p)
        BY <4>1, FirstFlags, BrokenFirst
      <4> QED BY <3>1, <4>1, <4>2
    <3>2. CASE i # 1
      <4> DEFINE j == i - 1
      <4>1. /\ j \in 1 .. Len(t) - 1 /\ j + 1 = i /\ j # 0 /\ i \in 0 .. n
            /\ j \in 0 .. n
        BY <1>2, <3>2
      <4>2. f[i] = ReadCodePoint(f[j], t[j], t[i]) /\ f[j] \in Broken
        BY <1>1, <3>2, <4>1
      <4>3. FlagsMean(t, j, f[j]) /\ \E p : BrokenAt(t, j, f[j].characters, p)
        BY <2>2, <4>1
      <4> HIDE DEF j
      <4>4. PICK p : BrokenAt(t, j, f[j].characters, p)
        BY <4>3
      <4> DEFINE v == ReadCodePoint(f[j], t[j], t[j + 1])
      <4>5. /\ FlagsMean(t, j + 1, v)
            /\ \E q : BrokenAt(t, j + 1, v.characters, q)
        BY <4>1, <4>2, <4>3, <4>4, BrokenTurn
      <4>6. v = f[i]
        BY <4>1, <4>2
      <4> QED BY <4>1, <4>5, <4>6
    <3> QED BY <3>1, <3>2
  <2> HIDE DEF S
  <2>3. 0 .. n \subseteq S
    BY <1>2, <2>1, <2>2, Induction
  <2>4. n \in S
    BY <1>2, <2>3
  <2>5. PICK p : BrokenAt(t, n, s, p)
    BY <1>2, <1>4, <2>4 DEF S
  <2>6. s \in Seq(Seq(NormalCodePoints))
    BY BreakType
  <2>7. DOMAIN s = 1 .. Len(s) /\ DOMAIN t = 1 .. n
    BY <2>6
  <2> HIDE DEF s, n
  <2>8. BrokenByRules(t, s)
    BY <2>5, <2>7 DEF BrokenAt, BrokenByRules, StartsUpTo, EndsUpTo, n
  <2> QED BY <2>8 DEF s
<1> QED BY <1>3, <1>4

(* Reading a text with a code point more is one more turn.                 *)
LEMMA ReadAppend ==
  ASSUME NEW t \in Seq(DOMAIN CodePoint), NEW c \in DOMAIN CodePoint
  PROVE  ReadCodePoints(Append(t, c)) =
           IF t = <<>> THEN FirstCodePoint(c)
           ELSE ReadCodePoint(ReadCodePoints(t), t[Len(t)], c)
<1> DEFINE u == Append(t, c)
           n == Len(t)
<1>1. /\ u \in Seq(DOMAIN CodePoint) /\ Len(u) = n + 1 /\ u[n + 1] = c
      /\ \A i \in 1 .. n : u[i] = t[i]
  BY AppendProperties
<1>2. n \in Nat /\ (t = <<>> <=> n = 0)
  OBVIOUS
<1>3. PICK f \in [0 .. n -> Broken] :
        /\ f[0] = NoWord
        /\ \A i \in 1 .. n :
             f[i] = IF i = 1 THEN FirstCodePoint(t[1])
                    ELSE ReadCodePoint(f[i - 1], t[i - 1], t[i])
        /\ ReadCodePoints(t) = f[n]
  BY ReadTurns
<1>4. PICK g \in [0 .. n + 1 -> Broken] :
        /\ g[0] = NoWord
        /\ \A i \in 1 .. n + 1 :
             g[i] = IF i = 1 THEN FirstCodePoint(u[1])
                    ELSE ReadCodePoint(g[i - 1], u[i - 1], u[i])
        /\ ReadCodePoints(u) = g[n + 1]
  <2> HIDE DEF u
  <2>1. \E g \in [0 .. Len(u) -> Broken] :
          /\ g[0] = NoWord
          /\ \A i \in 1 .. Len(u) :
               g[i] = IF i = 1 THEN FirstCodePoint(u[1])
                      ELSE ReadCodePoint(g[i - 1], u[i - 1], u[i])
          /\ ReadCodePoints(u) = g[Len(u)]
    BY ONLY <1>1, ReadTurns
  <2> QED BY <1>1, <2>1
<1> HIDE DEF u
<1> DEFINE S == {i \in 0 .. n : f[i] = g[i]}
<1>5. 0 \in S
  BY <1>2, <1>3, <1>4
<1>6. ASSUME NEW i \in 1 .. n, i - 1 \in S PROVE i \in S
  <2>1. i \in 1 .. n + 1 /\ i \in 0 .. n /\ u[i] = t[i]
    BY <1>1, <1>2
  <2>2. CASE i = 1
    <3>1. f[i] = FirstCodePoint(t[1]) /\ g[i] = FirstCodePoint(u[1])
      BY <1>3, <1>4, <2>1, <2>2
    <3> QED BY <2>1, <2>2, <3>1
  <2>3. CASE i # 1
    <3>1. f[i - 1] = g[i - 1] /\ i - 1 \in 1 .. n
      BY <1>2, <1>6, <2>3
    <3>2. u[i - 1] = t[i - 1]
      BY <1>1, <3>1
    <3>3. /\ f[i] = ReadCodePoint(f[i - 1], t[i - 1], t[i])
          /\ g[i] = ReadCodePoint(g[i - 1], u[i - 1], u[i])
      BY <1>3, <1>4, <2>1, <2>3
    <3> QED BY <2>1, <3>1, <3>2, <3>3
  <2> QED BY <2>2, <2>3
<1> HIDE DEF S
<1>7. 0 .. n \subseteq S
  BY <1>2, <1>5, <1>6, Induction
<1>8. f[n] = g[n]
  <2>1. n \in 0 .. n
    BY <1>2
  <2> QED BY <1>7, <2>1 DEF S
<1>9. n + 1 \in 1 .. n + 1 /\ (n + 1) - 1 = n /\ (n + 1 = 1 <=> n = 0)
  BY <1>2
<1>10. g[n + 1] = IF n + 1 = 1 THEN FirstCodePoint(u[1])
                  ELSE ReadCodePoint(g[n], u[n], u[n + 1])
  <2>1. g[n + 1] = IF n + 1 = 1 THEN FirstCodePoint(u[1])
                   ELSE ReadCodePoint(g[(n + 1) - 1], u[(n + 1) - 1], u[n + 1])
    BY <1>4, <1>9
  <2> QED BY <1>9, <2>1
<1>11. CASE n = 0
  <2>1. u[1] = c
    BY <1>1, <1>11
  <2> QED BY <1>2, <1>4, <1>9, <1>10, <1>11, <2>1 DEF u
<1>12. CASE n # 0
  <2>1. n \in 1 .. n
    BY <1>2, <1>12
  <2>2. u[n] = t[n]
    BY <1>1, <2>1
  <2> QED BY <1>1, <1>2, <1>3, <1>4, <1>8, <1>9, <1>10, <1>12, <2>2 DEF u
<1> QED BY <1>11, <1>12

(* The word is what reading the text so far has made of it.                *)
ReadInv == text \in Seq(DOMAIN CodePoint) /\ word = ReadCodePoints(text)

(* Nothing is read.                                                        *)
LEMMA ReadNothing == ReadCodePoints(<<>>) = NoWord
<1>1. <<>> \in Seq(DOMAIN CodePoint) /\ Len(<<>>) = 0
  OBVIOUS
<1>2. PICK f \in [0 .. Len(<<>>) -> Broken] :
        f[0] = NoWord /\ ReadCodePoints(<<>>) = f[Len(<<>>)]
  BY <1>1, ReadTurns
<1> QED BY <1>1, <1>2

(* The word is read as the text is typed (Word.cpp:262-330).               *)
THEOREM TypingReads == Spec => []ReadInv
<1>1. Init => ReadInv
  <2>1. <<>> \in Seq(DOMAIN CodePoint)
    OBVIOUS
  <2> QED BY <2>1, ReadNothing DEF Init, ReadInv
<1>2. ReadInv /\ [Next]_vars => ReadInv'
  <2> SUFFICES ASSUME ReadInv, [Next]_vars PROVE ReadInv'
    OBVIOUS
  <2>1. ASSUME NEW c \in DOMAIN CodePoint, Type(c) PROVE ReadInv'
    <3>1. /\ text' = Append(text, c)
          /\ word' = IF text = <<>> THEN FirstCodePoint(c)
                     ELSE ReadCodePoint(word, text[Len(text)], c)
      BY <2>1 DEF Type, Last
    <3>2. text \in Seq(DOMAIN CodePoint) /\ word = ReadCodePoints(text)
      BY DEF ReadInv
    <3>3. text' \in Seq(DOMAIN CodePoint)
      BY <3>1, <3>2
    <3>4. word' = ReadCodePoints(text')
      BY <3>1, <3>2, ReadAppend
    <3> QED BY <3>3, <3>4 DEF ReadInv
  <2>2. CASE NewText
    <3>1. <<>> \in Seq(DOMAIN CodePoint)
      OBVIOUS
    <3> QED BY <2>2, <3>1, ReadNothing DEF NewText, ReadInv
  <2>3. CASE text' = text /\ word' = word
    BY <2>3 DEF ReadInv
  <2>4. CASE UNCHANGED vars
    BY <2>3, <2>4 DEF vars
  <2>5. CASE Next
    BY <2>1, <2>2, <2>3, <2>5
       DEF Next, FilterAndSortCandidates, NextCandidate, SkipCandidate,
           RejectCandidate, KeepCandidate, StartSort, PartialSort, Return
  <2> QED BY <2>4, <2>5
<1> QED BY <1>1, <1>2, PTL DEF Spec

(* Word.cpp:259-261: the characters of the text are always where the rules *)
(* of UAX 29 put them, unless a joiner stands before a mark.               *)
THEOREM BreaksAreThoseOfTheRules == Spec => []BreaksFollowRules
<1>1. ReadInv => BreaksFollowRules
  BY TextsBreakByRules
     DEF ReadInv, BreaksFollowRules, BreakCodePointsIntoCharacters
<1> QED BY <1>1, TypingReads, PTL

-----------------------------------------------------------------------------
(* Pieces of sequences, and the order that the classes give.               *)

(* The end of a sequence behind its first k elements.                      *)
LEMMA EndPiece ==
  ASSUME NEW D, NEW s \in Seq(D), NEW k \in 0 .. Len(s)
  PROVE  /\ SubSeq(s, k + 1, Len(s)) \in Seq(D)
         /\ Len(SubSeq(s, k + 1, Len(s))) = Len(s) - k
         /\ \A j \in 1 .. Len(s) - k : SubSeq(s, k + 1, Len(s))[j] = s[k + j]
<1>1. SubSeq(s, k + 1, Len(s)) \in Seq(D)
  <2>1. CASE k = Len(s)
    <3>1. SubSeq(s, k + 1, Len(s)) = <<>>
      BY <2>1
    <3>2. <<>> \in Seq(D)
      OBVIOUS
    <3> QED BY <3>1, <3>2
  <2>2. CASE k # Len(s)
    BY <2>2
  <2> QED BY <2>1, <2>2
<1>2. Len(SubSeq(s, k + 1, Len(s))) = Len(s) - k
  OBVIOUS
<1>3. ASSUME NEW j \in 1 .. Len(s) - k
      PROVE  SubSeq(s, k + 1, Len(s))[j] = s[k + j]
  <2>1. /\ k + 1 + j - 1 = k + j /\ j \in 1 .. Len(s) - (k + 1) + 1
        /\ j \in 1 .. Len(SubSeq(s, k + 1, Len(s)))
    BY <1>2
  <2>2. SubSeq(s, k + 1, Len(s))[j] = s[k + 1 + j - 1]
    BY <2>1
  <2> QED BY <2>1, <2>2
<1> QED BY <1>1, <1>2, <1>3

(* The elements of one sequence after another.                             *)
LEMMA ConcatElements ==
  ASSUME NEW D, NEW x \in Seq(D), NEW z \in Seq(D)
  PROVE  /\ x \o z \in Seq(D) /\ Len(x \o z) = Len(x) + Len(z)
         /\ \A j \in 1 .. Len(x) : (x \o z)[j] = x[j]
         /\ \A j \in 1 .. Len(z) : (x \o z)[Len(x) + j] = z[j]
<1>1. x \o z \in Seq(D) /\ Len(x \o z) = Len(x) + Len(z)
  OBVIOUS
<1>2. \A j \in 1 .. Len(x) : (x \o z)[j] = x[j]
  OBVIOUS
<1>3. ASSUME NEW j \in 1 .. Len(z) PROVE (x \o z)[Len(x) + j] = z[j]
  <2>1. /\ Len(x) + j \in 1 .. Len(x) + Len(z) /\ Len(x) + j > Len(x)
        /\ (Len(x) + j) - Len(x) = j
    OBVIOUS
  <2> QED BY <2>1
<1> QED BY <1>1, <1>2, <1>3

(* Where InsertByClass (the sort of Character.cpp:80-82) puts a code point. *)
MayNotPass(s, c) ==
  {i \in DOMAIN s : \/ CodePoint[c].class = 0
                    \/ CodePoint[s[i]].class <= CodePoint[c].class}

(* c is put after the first k of s, which end with the last one that it    *)
(* may not pass.                                                           *)
Inserts(s, c, k, r) ==
  /\ k \in 0 .. Len(s) /\ Len(r) = Len(s) + 1
  /\ \A j \in 1 .. k : r[j] = s[j]
  /\ r[k + 1] = c
  /\ \A j \in k + 2 .. Len(s) + 1 : r[j] = s[j - 1]
  /\ k # 0 => k \in MayNotPass(s, c)
  /\ \A j \in MayNotPass(s, c) : j <= k

(* What InsertByClass does.                                                *)
LEMMA InsertInserts ==
  ASSUME NEW D, NEW s \in Seq(D), NEW c \in D
  PROVE  /\ InsertByClass(s, c) \in Seq(D)
         /\ \E k : Inserts(s, c, k, InsertByClass(s, c))
<1> DEFINE n == Len(s)
           K == MayNotPass(s, c) \cup {0}
           k == Max(K)
           r == InsertByClass(s, c)
<1>1. n \in Nat /\ DOMAIN s = 1 .. n /\ \A i \in 1 .. n : s[i] \in D
  OBVIOUS
<1>2. K \in SUBSET (0 .. n) /\ K # {}
  BY <1>1 DEF MayNotPass
<1> HIDE DEF K
<1>3. k \in K /\ \A x \in K : x <= k
  BY <1>1, <1>2, Greatest
<1>4. k \in 0 .. n
  BY <1>2, <1>3
<1>5. r = InsertAt(s, 1 + k, c)
  BY DEF InsertByClass, K, MayNotPass
<1> HIDE DEF k, n, r
<1>6. r = [j \in 1 .. n + 1 |->
             IF j < 1 + k THEN s[j] ELSE IF j = 1 + k THEN c ELSE s[j - 1]]
  <2> DEFINE a == SubSeq(s, 1, k)
             z == SubSeq(s, k + 1, n)
             x == a \o <<c>>
  <2>1. r = x \o z
    <3>1. r = SubSeq(s, 1, (1 + k) - 1) \o <<c>> \o SubSeq(s, 1 + k, n)
      BY <1>5 DEF InsertAt, n
    <3>2. (1 + k) - 1 = k /\ 1 + k = k + 1
      BY <1>4
    <3> QED BY <3>1, <3>2
  <2>2. a \in Seq(D) /\ Len(a) = k /\ \A j \in 1 .. k : a[j] = s[j]
    BY <1>1, <1>4 DEF n
  <2>3. z \in Seq(D) /\ Len(z) = n - k /\ \A j \in 1 .. n - k : z[j] = s[k + j]
    BY <1>4, EndPiece DEF n
  <2> HIDE DEF a, z
  <2>4. /\ x \in Seq(D) /\ Len(x) = k + 1 /\ x[k + 1] = c
        /\ \A j \in 1 .. k : x[j] = s[j]
    BY <1>4, <2>2
  <2> HIDE DEF x
  <2>5. /\ Len(x \o z) = n + 1 /\ x \o z \in Seq(D)
        /\ \A j \in 1 .. k + 1 : (x \o z)[j] = x[j]
        /\ \A j \in 1 .. n - k : (x \o z)[k + 1 + j] = z[j]
    <3>0. x \in Seq(D) /\ z \in Seq(D)
      BY <2>3, <2>4
    <3>1. /\ x \o z \in Seq(D) /\ Len(x \o z) = Len(x) + Len(z)
          /\ \A j \in 1 .. Len(x) : (x \o z)[j] = x[j]
          /\ \A j \in 1 .. Len(z) : (x \o z)[Len(x) + j] = z[j]
      BY ONLY <3>0, ConcatElements
    <3>2. Len(x) + Len(z) = n + 1
      BY <1>1, <1>4, <2>3, <2>4
    <3> QED BY <2>3, <2>4, <3>1, <3>2
  <2>6. r \in Seq(D) /\ Len(r) = n + 1
    BY <2>1, <2>5
  <2>7. ASSUME NEW j \in 1 .. n + 1
        PROVE  r[j] = IF j < 1 + k THEN s[j]
                      ELSE IF j = 1 + k THEN c ELSE s[j - 1]
    <3>1. CASE j < 1 + k
      <4>1. j \in 1 .. k /\ j \in 1 .. k + 1
        BY <1>4, <3>1
      <4> QED BY <2>1, <2>4, <2>5, <3>1, <4>1
    <3>2. CASE j = 1 + k
      <4>1. k + 1 \in 1 .. k + 1 /\ j = k + 1 /\ ~ (j < 1 + k)
        BY <1>4, <3>2
      <4> QED BY <2>1, <2>4, <2>5, <3>2, <4>1
    <3>3. CASE j > 1 + k
      <4> DEFINE i == j - (k + 1)
      <4>1. /\ i \in 1 .. n - k /\ j = k + 1 + i /\ ~ (j < 1 + k) /\ j # 1 + k
            /\ k + i = j - 1
        BY <1>1, <1>4, <3>3
      <4> HIDE DEF i
      <4>2. r[j] = z[i] /\ z[i] = s[k + i]
        BY <2>1, <2>3, <2>5, <4>1
      <4> QED BY <4>1, <4>2
    <3> QED BY <1>4, <3>1, <3>2, <3>3
  <2>8. r = [j \in 1 .. n + 1 |-> r[j]]
    BY <2>6
  <2> QED BY <2>7, <2>8
<1>7. ASSUME NEW j \in 1 .. n + 1 PROVE r[j] \in D
  <2>1. CASE j < 1 + k
    <3>1. j \in 1 .. n
      BY <1>1, <1>4, <2>1
    <3> QED BY <1>1, <1>6, <2>1, <3>1
  <2>2. CASE j = 1 + k
    <3>1. ~ (j < 1 + k)
      BY <1>4, <2>2
    <3> QED BY <1>6, <2>2, <3>1
  <2>3. CASE j > 1 + k
    <3>1. j - 1 \in 1 .. n /\ ~ (j < 1 + k) /\ j # 1 + k
      BY <1>1, <1>4, <2>3
    <3> QED BY <1>1, <1>6, <3>1
  <2> QED BY <1>4, <2>1, <2>2, <2>3
<1>8. DOMAIN r = 1 .. n + 1
  BY <1>6
<1>9. /\ \A j \in 1 .. k : r[j] = s[j]
      /\ r[k + 1] = c
      /\ \A j \in k + 2 .. n + 1 : r[j] = s[j - 1]
  <2>1. \A j \in 1 .. k : j \in 1 .. n + 1 /\ j < 1 + k
    BY <1>1, <1>4
  <2>2. k + 1 \in 1 .. n + 1 /\ ~ (k + 1 < 1 + k) /\ k + 1 = 1 + k
    BY <1>1, <1>4
  <2>3. \A j \in k + 2 .. n + 1 :
          j \in 1 .. n + 1 /\ ~ (j < 1 + k) /\ j # 1 + k
    BY <1>1, <1>4
  <2> QED BY <1>6, <2>1, <2>2, <2>3
<1>10. r \in Seq(D) /\ Len(r) = n + 1
  <2>1. r = [j \in 1 .. n + 1 |-> r[j]]
    BY <1>6
  <2> HIDE DEF r
  <2>2. r \in [1 .. n + 1 -> D]
    BY <1>7, <2>1
  <2> QED BY <1>1, <2>2
<1> HIDE DEF r
<1>11. (k # 0 => k \in MayNotPass(s, c)) /\ \A j \in MayNotPass(s, c) : j <= k
  BY <1>3 DEF K
<1>12. Inserts(s, c, k, r)
  BY <1>4, <1>9, <1>10, <1>11 DEF Inserts, n
<1> QED BY <1>10, <1>12 DEF r

(* What CanonicalSort makes of nothing and of one code point more.         *)
LEMMA SortAppend ==
  ASSUME NEW D
  PROVE  /\ CanonicalSort(<<>>) = <<>>
         /\ \A s \in Seq(D) : CanonicalSort(s) \in Seq(D)
         /\ \A s \in Seq(D), c \in D :
              CanonicalSort(Append(s, c)) = InsertByClass(CanonicalSort(s), c)
<1> DEFINE Loop(s, g) ==
             /\ g[0] = <<>>
             /\ \A i \in 1 .. Len(s) : g[i] = InsertByClass(g[i - 1], s[i])
             /\ CanonicalSort(s) = g[Len(s)]
<1>1. ASSUME NEW s \in Seq(D)
      PROVE  \E g \in [0 .. Len(s) -> Seq(D)] : Loop(s, g)
  <2> DEFINE n == Len(s)
             T(f) == [i \in 0 .. n |-> IF i = 0 THEN <<>>
                                       ELSE InsertByClass(f[i - 1], s[i])]
             step == [i \in 1 .. n |->
                        [v \in Seq(D) |-> InsertByClass(v, s[i])]]
  <2>1. n \in Nat /\ \A i \in 1 .. n : s[i] \in D
    OBVIOUS
  <2>2. <<>> \in Seq(D)
    OBVIOUS
  <2>3. ASSUME NEW i \in 1 .. n, NEW v \in Seq(D)
        PROVE  InsertByClass(v, s[i]) \in Seq(D)
    BY <2>1, InsertInserts
  <2>4. step \in [1 .. n -> [Seq(D) -> Seq(D)]]
    BY <2>3
  <2>5. \A i \in 1 .. n : \A v \in Seq(D) : step[i][v] = InsertByClass(v, s[i])
    OBVIOUS
  <2> HIDE DEF step
  <2>6. PICK g \in [0 .. n -> Seq(D)] : Recurs(g, n, <<>>, step)
    BY ONLY <2>1, <2>2, <2>4, Recursion
  <2>7. g[0] = <<>> /\ \A i \in 1 .. n : g[i] = InsertByClass(g[i - 1], s[i])
    <3>1. ASSUME NEW i \in 1 .. n PROVE g[i] = InsertByClass(g[i - 1], s[i])
      <4>1. i - 1 \in 0 .. n
        BY <2>1
      <4> HIDE DEF n
      <4>2. g[i - 1] \in Seq(D)
        BY <2>6, <4>1
      <4> QED BY <2>5, <2>6, <4>2 DEF Recurs
    <3> QED BY <2>6, <3>1 DEF Recurs
  <2>8. g = T(g)
    <3>1. \A i \in 0 .. n : g[i] = T(g)[i]
      <4> TAKE i \in 0 .. n
      <4>1. CASE i = 0
        BY <2>7, <4>1
      <4>2. CASE i # 0
        <5>1. i \in 1 .. n
          BY <2>1, <4>2
        <5> QED BY <2>7, <4>2, <5>1
      <4> QED BY <4>1, <4>2
    <3>2. g = [i \in 0 .. n |-> g[i]]
      OBVIOUS
    <3> QED BY <3>1, <3>2
  <2>9. PICK f : f = T(f) /\ CanonicalSort(s) = f[n]
    <3>1. CanonicalSort(s) = (CHOOSE f : f = T(f))[n]
      BY DEF CanonicalSort
    <3> QED BY <2>8, <3>1
  <2>10. f[0] = <<>> /\ \A i \in 1 .. n : f[i] = InsertByClass(f[i - 1], s[i])
    <3>1. \A i \in 0 .. n : f[i] = T(f)[i]
      BY <2>9
    <3>2. 0 \in 0 .. n /\ \A i \in 1 .. n : i \in 0 .. n /\ i # 0
      BY <2>1
    <3> QED BY <3>1, <3>2
  <2> DEFINE S == {i \in 0 .. n : f[i] = g[i]}
  <2>11. 0 \in S
    BY <2>1, <2>7, <2>10
  <2>12. ASSUME NEW i \in 1 .. n, i - 1 \in S PROVE i \in S
    <3>1. i \in 0 .. n /\ f[i - 1] = g[i - 1]
      BY <2>1, <2>12
    <3> QED BY <2>7, <2>10, <3>1
  <2> HIDE DEF S
  <2>13. 0 .. n \subseteq S
    BY ONLY <2>1, <2>11, <2>12, Induction
  <2>14. f[n] = g[n]
    <3>1. n \in S
      BY <2>1, <2>13
    <3> QED BY <3>1 DEF S
  <2> QED BY <2>6, <2>7, <2>9, <2>14
<1>2. \A s \in Seq(D) : CanonicalSort(s) \in Seq(D)
  <2> TAKE s \in Seq(D)
  <2>1. PICK g \in [0 .. Len(s) -> Seq(D)] : Loop(s, g)
    BY <1>1
  <2>2. Len(s) \in 0 .. Len(s)
    OBVIOUS
  <2> QED BY <2>1, <2>2
<1>3. CanonicalSort(<<>>) = <<>>
  <2>1. <<>> \in Seq(D) /\ Len(<<>>) = 0
    OBVIOUS
  <2> QED BY <1>1, <2>1
<1>4. ASSUME NEW s \in Seq(D), NEW c \in D
      PROVE  CanonicalSort(Append(s, c)) = InsertByClass(CanonicalSort(s), c)
  <2> DEFINE u == Append(s, c)
             n == Len(s)
  <2>1. /\ u \in Seq(D) /\ Len(u) = n + 1 /\ u[n + 1] = c /\ n \in Nat
        /\ \A i \in 1 .. n : u[i] = s[i]
    BY AppendProperties
  <2> HIDE DEF u
  <2>2. PICK f : Loop(s, f)
    BY <1>1
  <2>3. PICK g : Loop(u, g)
    BY <1>1, <2>1
  <2> DEFINE S == {i \in 0 .. n : f[i] = g[i]}
  <2>4. 0 \in S
    BY <2>1, <2>2, <2>3
  <2>5. ASSUME NEW i \in 1 .. n, i - 1 \in S PROVE i \in S
    <3>1. i \in 0 .. n /\ f[i - 1] = g[i - 1] /\ i \in 1 .. n + 1 /\ u[i] = s[i]
      BY <2>1, <2>5
    <3> QED BY <2>1, <2>2, <2>3, <3>1
  <2> HIDE DEF S
  <2>6. 0 .. n \subseteq S
    BY ONLY <2>1, <2>4, <2>5, Induction
  <2>7. f[n] = g[n]
    <3>1. n \in S
      BY <2>1, <2>6
    <3> QED BY <3>1 DEF S
  <2>8. n + 1 \in 1 .. n + 1 /\ (n + 1) - 1 = n
    BY <2>1
  <2>9. g[n + 1] = InsertByClass(g[n], c)
    BY <2>1, <2>3, <2>8
  <2> QED BY <2>1, <2>2, <2>3, <2>7, <2>9 DEF u
<1> QED BY <1>2, <1>3, <1>4

(* Sequences with the same elements are the same.                          *)
LEMMA SameElements ==
  ASSUME NEW D, NEW x \in Seq(D), NEW y \in Seq(D), Len(x) = Len(y),
         \A i \in 1 .. Len(x) : x[i] = y[i]
  PROVE  x = y
<1>1. /\ x = [i \in 1 .. Len(x) |-> x[i]]
      /\ y = [i \in 1 .. Len(y) |-> y[i]]
  OBVIOUS
<1> QED BY <1>1

(* A code point of class zero is put at the end.                           *)
LEMMA InsertBase ==
  ASSUME NEW D, NEW s \in Seq(D), NEW c \in D, CodePoint[c].class = 0
  PROVE  InsertByClass(s, c) = Append(s, c)
<1> DEFINE r == InsertByClass(s, c)
           n == Len(s)
<1>1. r \in Seq(D) /\ \E k : Inserts(s, c, k, r)
  BY InsertInserts
<1> HIDE DEF r
<1>2. PICK k : Inserts(s, c, k, r)
  BY <1>1
<1>3. n \in Nat /\ DOMAIN s = 1 .. n
  OBVIOUS
<1>4. MayNotPass(s, c) = 1 .. n
  BY <1>3 DEF MayNotPass
<1>5. k = n
  <2>1. n # 0 => n \in MayNotPass(s, c)
    BY <1>3, <1>4
  <2>2. k \in 0 .. n /\ \A j \in MayNotPass(s, c) : j <= k
    BY <1>2 DEF Inserts
  <2> HIDE DEF n
  <2> QED BY <1>3, <2>1, <2>2
<1> DEFINE y == Append(s, c)
<1>6. /\ y \in Seq(D) /\ Len(y) = n + 1 /\ y[n + 1] = c
      /\ \A i \in 1 .. n : y[i] = s[i]
  BY AppendProperties
<1> HIDE DEF y
<1>7. \A i \in 1 .. n + 1 : i = n + 1 \/ i \in 1 .. n
  BY <1>3
<1>8. r = y
  <2>1. Len(r) = n + 1 /\ r[n + 1] = c /\ \A i \in 1 .. n : r[i] = s[i]
    BY <1>2, <1>5 DEF Inserts
  <2>2. \A i \in 1 .. Len(r) : r[i] = y[i]
    BY <1>6, <1>7, <2>1
  <2>3. Len(r) = Len(y) /\ r \in Seq(D) /\ y \in Seq(D)
    BY <1>1, <1>6, <2>1
  <2> QED BY ONLY <2>2, <2>3, SameElements
<1> QED BY <1>8 DEF r, y

(* Those of B have the class zero of bases, those of M any.                *)
BasesAndMarks(B, M) ==
  /\ \A d \in B : CodePoint[d].class = 0
  /\ \A d \in M : CodePoint[d].class \in Nat

MarksStayBehind(B, M) ==
  \A b \in Seq(B), m \in Seq(M), c \in M :
    \E y \in Seq(M) : InsertByClass(b \o m, c) = b \o y

(* A mark does not pass the bases of a cluster.                            *)
LEMMA InsertMark ==
  ASSUME NEW B, NEW M, BasesAndMarks(B, M)
  PROVE  MarksStayBehind(B, M)
<1> SUFFICES ASSUME NEW b \in Seq(B), NEW m \in Seq(M), NEW c \in M
             PROVE  \E y \in Seq(M) : InsertByClass(b \o m, c) = b \o y
  BY DEF MarksStayBehind
<1>0. (\A d \in B : CodePoint[d].class = 0) /\ CodePoint[c].class \in Nat
  BY DEF BasesAndMarks
<1> DEFINE s == b \o m
           r == InsertByClass(s, c)
           l == Len(b)
           n == Len(m)
           D == B \cup M
<1>1. /\ b \in Seq(D) /\ m \in Seq(D) /\ c \in D /\ l \in Nat /\ n \in Nat
      /\ \A i \in 1 .. l : b[i] \in B
      /\ \A i \in 1 .. n : m[i] \in M
  OBVIOUS
<1> HIDE DEF D
<1>2. /\ s \in Seq(D) /\ Len(s) = l + n
      /\ \A i \in 1 .. l : s[i] = b[i]
      /\ \A i \in 1 .. n : s[l + i] = m[i]
  <2>1. b \in Seq(D) /\ m \in Seq(D)
    BY <1>1
  <2> QED BY ONLY <2>1, ConcatElements
<1> HIDE DEF s
<1>3. r \in Seq(D) /\ \E k : Inserts(s, c, k, r)
  BY <1>1, <1>2, InsertInserts
<1> HIDE DEF r
<1>4. PICK k : Inserts(s, c, k, r)
  BY <1>3
<1>5. /\ k \in 0 .. l + n /\ Len(r) = l + n + 1
      /\ \A j \in 1 .. k : r[j] = s[j]
      /\ r[k + 1] = c
      /\ \A j \in k + 2 .. l + n + 1 : r[j] = s[j - 1]
      /\ \A j \in MayNotPass(s, c) : j <= k
  BY <1>2, <1>4 DEF Inserts
<1>6. l <= k
  <2>1. CASE l = 0
    BY <1>5, <2>1
  <2>2. CASE l # 0
    <3>1. l \in 1 .. l /\ l \in DOMAIN s
      BY <1>1, <1>2, <2>2
    <3>2. CodePoint[s[l]].class = 0
      BY <1>0, <1>1, <1>2, <3>1
    <3>3. l \in MayNotPass(s, c)
      BY <1>0, <3>1, <3>2 DEF MayNotPass
    <3> QED BY <1>5, <3>3
  <2> QED BY <2>1, <2>2
<1> DEFINE y == [j \in 1 .. n + 1 |-> r[l + j]]
<1> HIDE DEF l, n
<1>7. ASSUME NEW j \in 1 .. n + 1 PROVE r[l + j] \in M
  <2>1. CASE l + j <= k
    <3>1. l + j \in 1 .. k /\ j \in 1 .. n
      BY <1>1, <1>5, <2>1
    <3>2. r[l + j] = s[l + j] /\ s[l + j] = m[j]
      BY <1>2, <1>5, <3>1
    <3> QED BY <1>1, <3>1, <3>2
  <2>2. CASE l + j = k + 1
    BY <1>5, <2>2
  <2>3. CASE l + j > k + 1
    <3>1. /\ l + j \in k + 2 .. l + n + 1 /\ j - 1 \in 1 .. n
          /\ (l + j) - 1 = l + (j - 1)
      BY <1>1, <1>5, <1>6, <2>3, SMTT(60)
    <3>2. r[l + j] = s[l + (j - 1)]
      BY <1>5, <3>1
    <3>3. s[l + (j - 1)] = m[j - 1]
      BY <1>2, <3>1
    <3> QED BY <1>1, <3>1, <3>2, <3>3
  <2> QED BY <1>1, <1>5, <2>1, <2>2, <2>3
<1>8. /\ y \in Seq(M) /\ y \in Seq(D) /\ Len(y) = n + 1
      /\ \A j \in 1 .. n + 1 : y[j] = r[l + j]
  <2>1. y \in [1 .. n + 1 -> M] /\ M \subseteq D
    BY <1>7 DEF D
  <2>2. \A j \in 1 .. n + 1 : y[j] = r[l + j]
    OBVIOUS
  <2> HIDE DEF y, D
  <2>3. n + 1 \in Nat /\ y \in [1 .. n + 1 -> D] /\ y \in [1 .. n + 1 -> M]
    BY <1>1, <2>1
  <2>4. y \in Seq(M) /\ Len(y) = n + 1
    BY ONLY <2>3
  <2>5. y \in Seq(D)
    BY ONLY <2>3
  <2> QED BY <2>2, <2>4, <2>5
<1> HIDE DEF y
<1> DEFINE z == b \o y
<1>9. /\ z \in Seq(D) /\ Len(z) = l + (n + 1)
      /\ \A i \in 1 .. l : z[i] = b[i]
      /\ \A i \in 1 .. n + 1 : z[l + i] = y[i]
  <2>1. b \in Seq(D) /\ y \in Seq(D)
    BY <1>1, <1>8
  <2>2. /\ z \in Seq(D) /\ Len(z) = Len(b) + Len(y)
        /\ \A i \in 1 .. Len(b) : z[i] = b[i]
        /\ \A i \in 1 .. Len(y) : z[Len(b) + i] = y[i]
    BY ONLY <2>1, ConcatElements
  <2> QED BY <1>8, <2>2 DEF l
<1> HIDE DEF z
<1>10. r = z
  <2>1. ASSUME NEW i \in 1 .. l + (n + 1) PROVE r[i] = z[i]
    <3>1. CASE i <= l
      <4>1. i \in 1 .. l /\ i \in 1 .. k
        BY <1>1, <1>5, <1>6, <3>1
      <4> QED BY <1>2, <1>5, <1>9, <4>1
    <3>2. CASE i > l
      <4> DEFINE j == i - l
      <4>1. j \in 1 .. n + 1 /\ i = l + j
        BY <1>1, <3>2
      <4> HIDE DEF j
      <4> QED BY <1>8, <1>9, <4>1
    <3> QED BY <1>1, <3>1, <3>2
  <2>2. Len(r) = Len(z) /\ Len(r) = l + (n + 1) /\ r \in Seq(D) /\ z \in Seq(D)
    BY <1>1, <1>3, <1>5, <1>9
  <2>3. \A i \in 1 .. Len(r) : r[i] = z[i]
    BY <2>1, <2>2
  <2> QED BY ONLY <2>2, <2>3, SameElements
<1> QED BY <1>8, <1>10 DEF r, z, s

(* The bases stay where they are and the marks stay behind them.           *)
LEMMA SortOfCluster ==
  ASSUME NEW B, NEW M, BasesAndMarks(B, M)
  PROVE  \A b \in Seq(B), m \in Seq(M) :
           \E y \in Seq(M) : CanonicalSort(b \o m) = b \o y
<1> TAKE b \in Seq(B), m \in Seq(M)
<1> DEFINE D == B \cup M
           X == {x \in Seq(B) : CanonicalSort(x) = x}
           Y == {z \in Seq(M) :
                   \E y \in Seq(M) : CanonicalSort(b \o z) = b \o y}
<1>1. B \subseteq D /\ M \subseteq D /\ Seq(B) \subseteq Seq(D)
      /\ Seq(M) \subseteq Seq(D)
  OBVIOUS
<1> HIDE DEF D
<1>2. /\ CanonicalSort(<<>>) = <<>>
      /\ \A s \in Seq(D), c \in D :
           CanonicalSort(Append(s, c)) = InsertByClass(CanonicalSort(s), c)
  BY SortAppend
<1>3. Seq(B) \subseteq X
  <2>1. <<>> \in X
    <3>1. <<>> \in Seq(B)
      OBVIOUS
    <3> QED BY <1>2, <3>1
  <2>2. ASSUME NEW x \in Seq(B), NEW c \in B, x \in X PROVE Append(x, c) \in X
    <3>1. CanonicalSort(Append(x, c)) = InsertByClass(x, c)
      BY <1>1, <1>2, <2>2
    <3>2. InsertByClass(x, c) = Append(x, c)
      BY InsertBase DEF BasesAndMarks
    <3>3. Append(x, c) \in Seq(B)
      OBVIOUS
    <3> QED BY <3>1, <3>2, <3>3
  <2> HIDE DEF X
  <2> QED BY <2>1, <2>2, SequenceInduction
<1>4. Seq(M) \subseteq Y
  <2>1. <<>> \in Y
    <3>1. <<>> \in Seq(M) /\ b \o <<>> = b
      OBVIOUS
    <3> QED BY <1>3, <3>1
  <2>2. ASSUME NEW z \in Seq(M), NEW c \in M, z \in Y PROVE Append(z, c) \in Y
    <3>1. PICK y \in Seq(M) : CanonicalSort(b \o z) = b \o y
      BY <2>2
    <3>2. b \o Append(z, c) = Append(b \o z, c)
      OBVIOUS
    <3>3. b \in Seq(D) /\ z \in Seq(D) /\ c \in D
      BY <1>1
    <3>4. b \o z \in Seq(D)
      BY ONLY <3>3
    <3>5. CanonicalSort(Append(b \o z, c)) = InsertByClass(b \o y, c)
      BY <1>2, <3>1, <3>3, <3>4
    <3>6. \E x \in Seq(M) : InsertByClass(b \o y, c) = b \o x
      <4>1. MarksStayBehind(B, M)
        BY ONLY BasesAndMarks(B, M), InsertMark
      <4> QED BY <4>1 DEF MarksStayBehind
    <3>7. Append(z, c) \in Seq(M)
      OBVIOUS
    <3> QED BY <3>2, <3>5, <3>6, <3>7
  <2> HIDE DEF Y
  <2> QED BY <2>1, <2>2, SequenceInduction
<1> QED BY <1>4

-----------------------------------------------------------------------------
(* The order of results.                                                   *)

(* s comes before t if it is less at the first place where they differ.    *)
LEMMA TextLessIs ==
  ASSUME NEW s \in Seq(Nat), NEW t \in Seq(Nat)
  PROVE  TextLess(s, t) <=>
           \E n \in 0 .. Len(s) :
             /\ n <= Len(t) /\ \A i \in 1 .. n : s[i] = t[i]
             /\ \/ n = Len(s) /\ n < Len(t)
                \/ n < Len(s) /\ n < Len(t) /\ s[n + 1] < t[n + 1]
<1>1. ASSUME NEW n \in 0 .. Len(s), n <= Len(t)
      PROVE  SubSeq(s, 1, n) = SubSeq(t, 1, n)
               <=> \A i \in 1 .. n : s[i] = t[i]
  <2>1. /\ SubSeq(s, 1, n) = [i \in 1 .. n |-> s[i]]
        /\ SubSeq(t, 1, n) = [i \in 1 .. n |-> t[i]]
    BY <1>1
  <2> QED BY <2>1
<1> QED BY <1>1 DEF TextLess

(* It is decided where they first differ.                                  *)
LEMMA FirstDifference ==
  ASSUME NEW s \in Seq(Nat), NEW t \in Seq(Nat), NEW k \in 1 .. Len(s),
         k <= Len(t), \A i \in 1 .. k - 1 : s[i] = t[i], s[k] # t[k]
  PROVE  TextLess(s, t) <=> s[k] < t[k]
<1>0. s \in Seq(Nat) /\ t \in Seq(Nat) /\ k \in 1 .. Len(s) /\ k <= Len(t)
  OBVIOUS
<1>1. /\ Len(s) \in Nat /\ Len(t) \in Nat /\ k \in Nat /\ k - 1 \in Nat
      /\ (k - 1) + 1 = k /\ 1 <= k /\ k <= Len(s) /\ k <= Len(t)
  <2>1. Len(s) \in Nat /\ Len(t) \in Nat
    BY ONLY <1>0
  <2> QED BY ONLY <1>0, <2>1
<1>2. ASSUME s[k] < t[k] PROVE TextLess(s, t)
  <2> DEFINE n == k - 1
  <2>1. n \in 0 .. Len(s) /\ n < Len(s) /\ n < Len(t) /\ n <= Len(t)
    BY ONLY <1>1
  <2>2. s[n + 1] < t[n + 1] /\ \A i \in 1 .. n : s[i] = t[i]
    BY <1>1, <1>2
  <2> HIDE DEF n
  <2> QED BY <2>1, <2>2, TextLessIs
<1>3. ASSUME TextLess(s, t) PROVE s[k] < t[k]
  <2>1. PICK n \in 0 .. Len(s) :
          /\ n <= Len(t) /\ \A i \in 1 .. n : s[i] = t[i]
          /\ \/ n = Len(s) /\ n < Len(t)
             \/ n < Len(s) /\ n < Len(t) /\ s[n + 1] < t[n + 1]
    BY <1>3, TextLessIs
  <2> DEFINE x == Len(s)
             y == Len(t)
  <2>2. /\ x \in Nat /\ y \in Nat /\ n \in 0 .. x /\ n <= y
        /\ k \in Nat /\ 1 <= k /\ k <= x /\ k <= y
    BY ONLY <1>1, <2>1
  <2> HIDE DEF x, y
  <2>3. ~ (k <= n)
    <3>1. k <= n => k \in 1 .. n
      BY ONLY <2>2
    <3>2. k \in 1 .. n => s[k] = t[k]
      BY ONLY <2>1
    <3> QED BY <3>1, <3>2
  <2>4. n < x /\ s[n + 1] < t[n + 1]
    <3>1. n < x
      BY ONLY <2>2, <2>3
    <3> QED BY ONLY <2>1, <2>2, <3>1 DEF x, y
  <2>5. n + 1 \in 1 .. x /\ n + 1 \in 1 .. y /\ n + 1 <= k
    BY ONLY <2>2, <2>3, <2>4
  <2>6. ~ (n + 1 <= k - 1)
    <3>1. s[n + 1] \in Nat /\ s[n + 1] # t[n + 1]
      <4>1. s[n + 1] \in Nat /\ t[n + 1] \in Nat
        BY ONLY <1>0, <2>5, ElementOfSeq DEF x, y
      <4> QED BY ONLY <2>4, <4>1
    <3>2. n + 1 <= k - 1 => n + 1 \in 1 .. k - 1
      BY ONLY <2>2, <2>5
    <3>3. n + 1 \in 1 .. k - 1 => s[n + 1] = t[n + 1]
      OBVIOUS
    <3> QED BY <3>1, <3>2, <3>3
  <2>7. n + 1 = k
    BY ONLY <2>2, <2>5, <2>6
  <2> QED BY <2>4, <2>7
<1> QED BY <1>2, <1>3

(* The order of texts is total, without a text before itself.              *)
LEMMA TextLessTotal ==
  ASSUME NEW s \in Seq(Nat), NEW t \in Seq(Nat)
  PROVE  /\ ~ TextLess(s, s)
         /\ s = t \/ TextLess(s, t) \/ TextLess(t, s)
<1>1. Len(s) \in Nat /\ Len(t) \in Nat
  OBVIOUS
<1>2. ~ TextLess(s, s)
  <2>1. \A i \in 1 .. Len(s) : s[i] \in Nat
    OBVIOUS
  <2>2. \A n \in 0 .. Len(s) : n < Len(s) => n + 1 \in 1 .. Len(s)
    OBVIOUS
  <2>3. ASSUME NEW n \in 0 .. Len(s), n < Len(s) PROVE ~ (s[n + 1] < s[n + 1])
    <3>1. s[n + 1] \in Nat
      BY <2>1, <2>2, <2>3
    <3> QED BY <3>1
  <2>4. \A n \in 0 .. Len(s) : ~ (n = Len(s) /\ n < Len(s))
    BY <1>1
  <2> QED BY <2>3, <2>4, TextLessIs
<1> DEFINE m == IF Len(s) <= Len(t) THEN Len(s) ELSE Len(t)
           D == {i \in 1 .. m : s[i] # t[i]}
<1>3. m \in Nat /\ m <= Len(s) /\ m <= Len(t)
  BY <1>1
<1>4. CASE D = {}
  <2>1. \A i \in 1 .. m : s[i] = t[i]
    BY <1>4
  <2>2. CASE Len(s) = Len(t)
    <3>1. m = Len(s) /\ m = Len(t)
      BY <2>2
    <3> HIDE DEF m, D
    <3>2. s = [i \in 1 .. Len(s) |-> s[i]] /\ t = [i \in 1 .. Len(t) |-> t[i]]
      OBVIOUS
    <3>3. s = t
      BY <2>1, <3>1, <3>2
    <3> HIDE DEF D
    <3> QED BY <1>2, <3>3
  <2>3. CASE Len(s) < Len(t)
    <3>1. m = Len(s) /\ m \in 0 .. Len(s)
      BY <1>1, <2>3
    <3> HIDE DEF m, D
    <3>2. TextLess(s, t)
      BY <1>3, <2>1, <2>3, <3>1, TextLessIs
    <3> QED BY <1>2, <3>2
  <2>4. CASE Len(t) < Len(s)
    <3>1. m = Len(t) /\ m \in 0 .. Len(t) /\ m <= Len(s)
      BY <1>1, <2>4
    <3>2. \A i \in 1 .. m : t[i] = s[i]
      BY <2>1
    <3> HIDE DEF m, D
    <3>3. TextLess(t, s)
      BY <2>4, <3>1, <3>2, TextLessIs
    <3> QED BY <1>2, <3>3
  <2> QED BY <1>1, <2>2, <2>3, <2>4
<1>5. CASE D # {}
  <2> DEFINE k == Min(D)
  <2>1. k \in 1 .. m /\ s[k] # t[k] /\ \A i \in D : k <= i
    <3>1. D \in SUBSET Nat
      BY <1>3
    <3>2. k \in D /\ \A i \in D : k <= i
      BY <1>5, <3>1, Least
    <3> QED BY <3>2
  <2> HIDE DEF k
  <2>2. \A i \in 1 .. k - 1 : i \in 1 .. m /\ ~ (k <= i)
    BY <1>3, <2>1
  <2>3. \A i \in 1 .. k - 1 : s[i] = t[i] /\ t[i] = s[i]
    BY <2>1, <2>2
  <2> HIDE DEF D
  <2>4. /\ k \in 1 .. Len(s) /\ k <= Len(t) /\ k \in 1 .. Len(t)
        /\ k <= Len(s)
    BY <1>1, <1>3, <2>1
  <2> HIDE DEF m
  <2>5. s[k] \in Nat /\ t[k] \in Nat
    <3>1. \A i \in 1 .. Len(s) : s[i] \in Nat
      OBVIOUS
    <3>2. \A i \in 1 .. Len(t) : t[i] \in Nat
      OBVIOUS
    <3> QED BY <2>4, <3>1, <3>2
  <2>6. TextLess(s, t) <=> s[k] < t[k]
    BY <2>1, <2>3, <2>4, FirstDifference
  <2>7. TextLess(t, s) <=> t[k] < s[k]
    BY <2>1, <2>3, <2>4, FirstDifference
  <2>8. s[k] < t[k] \/ t[k] < s[k]
    BY <2>1, <2>5
  <2> QED BY <1>2, <2>6, <2>7, <2>8
<1> QED BY <1>2, <1>4, <1>5

(* And transitive.                                                         *)
LEMMA TextLessTransitive ==
  ASSUME NEW s \in Seq(Nat), NEW t \in Seq(Nat), NEW u \in Seq(Nat),
         TextLess(s, t), TextLess(t, u)
  PROVE  TextLess(s, u)
<1>1. Len(s) \in Nat /\ Len(t) \in Nat /\ Len(u) \in Nat
  OBVIOUS
<1>2. PICK n \in 0 .. Len(s) :
        /\ n <= Len(t) /\ \A i \in 1 .. n : s[i] = t[i]
        /\ \/ n = Len(s) /\ n < Len(t)
           \/ n < Len(s) /\ n < Len(t) /\ s[n + 1] < t[n + 1]
  BY TextLessIs
<1>3. PICK m \in 0 .. Len(t) :
        /\ m <= Len(u) /\ \A i \in 1 .. m : t[i] = u[i]
        /\ \/ m = Len(t) /\ m < Len(u)
           \/ m < Len(t) /\ m < Len(u) /\ t[m + 1] < u[m + 1]
  BY TextLessIs
<1> DEFINE x == Len(s)
           y == Len(t)
           z == Len(u)
<1>4. n \in 0 .. x /\ n <= y /\ m \in 0 .. y /\ m <= z
  BY <1>2, <1>3
<1>5. /\ \A i \in 1 .. x : s[i] \in Nat
      /\ \A i \in 1 .. y : t[i] \in Nat
      /\ \A i \in 1 .. z : u[i] \in Nat
  <2>1. \A i \in 1 .. x : s[i] \in Nat
    OBVIOUS
  <2>2. \A i \in 1 .. y : t[i] \in Nat
    OBVIOUS
  <2>3. \A i \in 1 .. z : u[i] \in Nat
    OBVIOUS
  <2> QED BY <2>1, <2>2, <2>3
<1>6. CASE n < m
  <2>1. /\ n + 1 \in 1 .. m /\ n < z /\ n <= z /\ n # y
        /\ \A i \in 1 .. n : i \in 1 .. m
    BY ONLY <1>1, <1>4, <1>6
  <2>2. /\ t[n + 1] = u[n + 1] /\ \A i \in 1 .. n : s[i] = u[i]
    BY <1>2, <1>3, <2>1
  <2>3. (n = x /\ n < z) \/ (n < x /\ n < z /\ s[n + 1] < u[n + 1])
    <3>1. n = x \/ (n < x /\ s[n + 1] < t[n + 1])
      BY <1>2, Zenon
    <3> QED BY <2>1, <2>2, <3>1
  <2> QED BY <1>4, <2>1, <2>2, <2>3, TextLessIs
<1>7. CASE m < n
  <2>1. /\ m + 1 \in 1 .. n /\ m < x /\ m # y /\ m \in 0 .. x
        /\ \A i \in 1 .. m : i \in 1 .. n
    BY ONLY <1>1, <1>4, <1>7
  <2>2. /\ s[m + 1] = t[m + 1] /\ \A i \in 1 .. m : s[i] = u[i]
    BY <1>2, <1>3, <2>1
  <2>3. m < z /\ s[m + 1] < u[m + 1]
    BY <1>3, <2>1, <2>2
  <2> QED BY <1>4, <2>1, <2>2, <2>3, TextLessIs
<1>8. CASE n = m
  <2>1. \A i \in 1 .. n : s[i] = u[i]
    BY <1>2, <1>3, <1>8
  <2>2. (n = x /\ n < z) \/ (n < x /\ n < z /\ s[n + 1] < u[n + 1])
    <3>1. CASE n < x /\ n < z
      <4>1. /\ n + 1 \in 1 .. x /\ n + 1 \in 1 .. z
            /\ n < y => n + 1 \in 1 .. y
        BY ONLY <1>1, <1>4, <1>8, <3>1
      <4>2. n < y /\ s[n + 1] < t[n + 1] /\ t[n + 1] < u[n + 1]
        BY <1>2, <1>3, <1>8, <3>1
      <4> DEFINE c == s[n + 1]
                 d == t[n + 1]
                 e == u[n + 1]
      <4>3. c \in Nat /\ d \in Nat /\ e \in Nat /\ c < d /\ d < e
        BY <1>5, <4>1, <4>2
      <4> HIDE DEF c, d, e
      <4>4. c < e
        BY ONLY <4>3
      <4> QED BY <3>1, <4>4 DEF c, e
    <3>2. n = x \/ n < x
      BY ONLY <1>1, <1>4
    <3>3. n < z
      BY <1>3, <1>8
    <3> QED BY <3>1, <3>2, <3>3, Zenon
  <2> QED BY <1>4, <1>8, <2>1, <2>2, TextLessIs
<1> QED BY ONLY <1>1, <1>4, <1>6, <1>7, <1>8

(* What a result is worth: less is better.                                 *)
Rank(r) ==
  LET all == r.wbMatches = r.queryLength
  IN  IF r.queryLength = 0 THEN <<>>
      ELSE << IF r.firstCharSame THEN 0 ELSE 1,
              IF all THEN 0 ELSE 1,
              IF all THEN r.wbChars ELSE 0,
              IF r.queryIsPrefix THEN 0 ELSE 1,
              r.queryLength - r.wbMatches,
              r.wbChars,
              r.indexSum,
              r.length,
              IF r.isLowercase THEN 0 ELSE 1 >>

LEMMA RankType ==
  ASSUME NEW l \in Nat, NEW r, ResultFor(r, l)
  PROVE  /\ Rank(r) \in Seq(Nat)
         /\ Len(Rank(r)) = IF l = 0 THEN 0 ELSE 9
<1>1. /\ r.queryLength = l
      /\ r.wbMatches \in 0 .. l /\ r.indexSum \in Nat
      /\ r.wbChars \in Nat /\ r.length \in Nat
  BY DEF ResultFor
<1>2. CASE l = 0
  <2>1. Rank(r) = <<>>
    BY <1>1, <1>2 DEF Rank
  <2> QED BY <1>2, <2>1
<1>3. CASE l # 0
  <2> DEFINE all == r.wbMatches = l
             a == IF r.firstCharSame THEN 0 ELSE 1
             b == IF all THEN 0 ELSE 1
             c == IF all THEN r.wbChars ELSE 0
             d == IF r.queryIsPrefix THEN 0 ELSE 1
             e == l - r.wbMatches
             f == IF r.isLowercase THEN 0 ELSE 1
  <2>1. Rank(r) = <<a, b, c, d, e, r.wbChars, r.indexSum, r.length, f>>
    BY <1>1, <1>3 DEF Rank
  <2>2. /\ a \in Nat /\ b \in Nat /\ c \in Nat /\ d \in Nat /\ e \in Nat
        /\ f \in Nat
    BY <1>1
  <2> HIDE DEF a, b, c, d, e, f
  <2> QED BY <1>1, <1>3, <2>1, <2>2
<1> QED BY <1>2, <1>3

(* The first of some tests that decides, if any does.                      *)
LEMMA FirstTest ==
  ASSUME NEW n \in Nat, NEW decides, NEW D, D = {i \in 1 .. n : decides[i]},
         D # {}
  PROVE  /\ Min(D) \in 1 .. n /\ decides[Min(D)]
         /\ \A i \in 1 .. n : i < Min(D) => ~ decides[i]
<1>1. D \in SUBSET Nat
  OBVIOUS
<1>2. Min(D) \in D /\ \A i \in D : Min(D) <= i
  BY <1>1, Least
<1>3. ASSUME NEW i \in 1 .. n, i < Min(D) PROVE ~ decides[i]
  <2>1. Min(D) \in Nat /\ ~ (Min(D) <= i)
    BY <1>1, <1>2, <1>3
  <2> QED BY <1>2, <2>1
<1> QED BY <1>2, <1>3

(* Result::operator< (Result.cpp:71-140) compares what the results are     *)
(* worth and then their texts: that one has the whole query among its word *)
(* boundary characters, which it asks of both at once, is worth something  *)
(* for each of them.                                                       *)
THEOREM OrderIsByRank ==
  ASSUME NEW l \in Nat, NEW r, NEW s, ResultFor(r, l), ResultFor(s, l)
  PROVE  LessThan(r, s) <=>
           \/ TextLess(Rank(r), Rank(s))
           \/ /\ Rank(r) = Rank(s)
              /\ TextLess(r.caseSwappedText, s.caseSwappedText)
<1> DEFINE complete == l \in {r.wbMatches, s.wbMatches}
           tests ==
             << <<r.firstCharSame # s.firstCharSame, r.firstCharSame>>,
                <<complete /\ r.wbMatches # s.wbMatches,
                  r.wbMatches > s.wbMatches>>,
                <<complete /\ r.wbChars # s.wbChars, r.wbChars < s.wbChars>>,
                <<r.queryIsPrefix # s.queryIsPrefix, r.queryIsPrefix>>,
                <<r.wbMatches # s.wbMatches, r.wbMatches > s.wbMatches>>,
                <<r.wbChars # s.wbChars, r.wbChars < s.wbChars>>,
                <<r.indexSum # s.indexSum, r.indexSum < s.indexSum>>,
                <<r.length # s.length, r.length < s.length>>,
                <<r.isLowercase # s.isLowercase, r.isLowercase>> >>
           decisive == {i \in DOMAIN tests : l > 0 /\ tests[i][1]}
           text_less == TextLess(r.caseSwappedText, s.caseSwappedText)
           all(x) == x.wbMatches = l
           a == Rank(r)
           b == Rank(s)
<1>1. LessThan(r, s) = IF decisive = {} THEN text_less
                       ELSE tests[Min(decisive)][2]
  BY DEF LessThan, ResultFor
<1>2. DOMAIN tests = 1 .. 9
  OBVIOUS
<1>3. /\ a \in Seq(Nat) /\ b \in Seq(Nat)
      /\ Len(a) = (IF l = 0 THEN 0 ELSE 9) /\ Len(b) = Len(a)
  BY RankType
<1>4. /\ r.firstCharSame \in BOOLEAN /\ s.firstCharSame \in BOOLEAN
      /\ r.queryIsPrefix \in BOOLEAN /\ s.queryIsPrefix \in BOOLEAN
      /\ r.isLowercase \in BOOLEAN /\ s.isLowercase \in BOOLEAN
      /\ r.wbMatches \in 0 .. l /\ s.wbMatches \in 0 .. l
      /\ r.indexSum \in Nat /\ s.indexSum \in Nat
      /\ r.wbChars \in Nat /\ s.wbChars \in Nat
      /\ r.length \in Nat /\ s.length \in Nat
  BY DEF ResultFor
<1>5. r.queryLength = l /\ s.queryLength = l
  BY DEF ResultFor
<1> DEFINE D(i) == tests[i][1]
           V(i) == tests[i][2]
           E(i) == a[i] = b[i]
           B(i) == a[i] < b[i]
<1> HIDE DEF tests, decisive, text_less, a, b
<1>6. ASSUME l # 0
      PROVE  /\ a = << IF r.firstCharSame THEN 0 ELSE 1,
                       IF all(r) THEN 0 ELSE 1,
                       IF all(r) THEN r.wbChars ELSE 0,
                       IF r.queryIsPrefix THEN 0 ELSE 1,
                       l - r.wbMatches, r.wbChars, r.indexSum, r.length,
                       IF r.isLowercase THEN 0 ELSE 1 >>
             /\ b = << IF s.firstCharSame THEN 0 ELSE 1,
                       IF all(s) THEN 0 ELSE 1,
                       IF all(s) THEN s.wbChars ELSE 0,
                       IF s.queryIsPrefix THEN 0 ELSE 1,
                       l - s.wbMatches, s.wbChars, s.indexSum, s.length,
                       IF s.isLowercase THEN 0 ELSE 1 >>
  BY <1>5, <1>6 DEF Rank, a, b
<1> DEFINE p(x) == IF x THEN 0 ELSE 1
           c(x) == IF all(x) THEN x.wbChars ELSE 0
           m(x) == l - x.wbMatches
<1>7. ASSUME l # 0
      PROVE  /\ a[1] = p(r.firstCharSame) /\ b[1] = p(s.firstCharSame)
             /\ a[2] = p(all(r)) /\ b[2] = p(all(s))
             /\ a[3] = c(r) /\ b[3] = c(s)
             /\ a[4] = p(r.queryIsPrefix) /\ b[4] = p(s.queryIsPrefix)
             /\ a[5] = m(r) /\ b[5] = m(s)
             /\ a[6] = r.wbChars /\ b[6] = s.wbChars
             /\ a[7] = r.indexSum /\ b[7] = s.indexSum
             /\ a[8] = r.length /\ b[8] = s.length
             /\ a[9] = p(r.isLowercase) /\ b[9] = p(s.isLowercase)
  BY <1>6, <1>7
<1>8. /\ D(1) <=> r.firstCharSame # s.firstCharSame
      /\ V(1) <=> r.firstCharSame
      /\ D(2) <=> complete /\ r.wbMatches # s.wbMatches
      /\ V(2) <=> r.wbMatches > s.wbMatches
      /\ D(3) <=> complete /\ r.wbChars # s.wbChars
      /\ V(3) <=> r.wbChars < s.wbChars
      /\ D(4) <=> r.queryIsPrefix # s.queryIsPrefix
      /\ V(4) <=> r.queryIsPrefix
      /\ D(5) <=> r.wbMatches # s.wbMatches
      /\ V(5) <=> r.wbMatches > s.wbMatches
      /\ D(6) <=> r.wbChars # s.wbChars
      /\ V(6) <=> r.wbChars < s.wbChars
      /\ D(7) <=> r.indexSum # s.indexSum
      /\ V(7) <=> r.indexSum < s.indexSum
      /\ D(8) <=> r.length # s.length
      /\ V(8) <=> r.length < s.length
      /\ D(9) <=> r.isLowercase # s.isLowercase
      /\ V(9) <=> r.isLowercase
  BY DEF tests
<1> HIDE DEF D, V
<1>9. ASSUME l # 0, NEW i \in 1 .. 9, \A j \in 1 .. 9 : j < i => ~ D(j)
      PROVE  (E(i) <=> ~ D(i)) /\ (D(i) => (B(i) <=> V(i)))
  <2>1. CASE i = 1
    <3>1. (E(1) <=> ~ D(1)) /\ (D(1) => (B(1) <=> V(1)))
      BY <1>4, <1>7, <1>8, <1>9
    <3> QED BY <2>1, <3>1
  <2>2. ASSUME ~ D(2) PROVE complete <=> all(r) /\ all(s)
    BY <1>4, <1>8, <2>2
  <2>3. CASE i = 2
    <3>1. (E(2) <=> ~ D(2)) /\ (D(2) => (B(2) <=> V(2)))
      BY <1>4, <1>7, <1>8, <1>9
    <3> QED BY <2>3, <3>1
  <2>4. CASE i = 3
    <3>1. ~ D(2)
      BY <1>9, <2>4
    <3>2. (all(r) <=> all(s)) /\ (complete <=> all(r))
      BY <1>4, <1>8, <2>2, <3>1
    <3>3. (E(3) <=> ~ D(3)) /\ (D(3) => (B(3) <=> V(3)))
      BY <1>4, <1>7, <1>8, <1>9, <3>2
    <3> QED BY <2>4, <3>3
  <2>5. CASE i = 4
    <3>1. (E(4) <=> ~ D(4)) /\ (D(4) => (B(4) <=> V(4)))
      BY <1>4, <1>7, <1>8, <1>9
    <3> QED BY <2>5, <3>1
  <2>6. CASE i = 5
    <3>1. (E(5) <=> ~ D(5)) /\ (D(5) => (B(5) <=> V(5)))
      BY <1>4, <1>7, <1>8, <1>9
    <3> QED BY <2>6, <3>1
  <2>7. CASE i = 6
    <3>1. (E(6) <=> ~ D(6)) /\ (D(6) => (B(6) <=> V(6)))
      BY <1>4, <1>7, <1>8, <1>9
    <3> QED BY <2>7, <3>1
  <2>8. CASE i = 7
    <3>1. (E(7) <=> ~ D(7)) /\ (D(7) => (B(7) <=> V(7)))
      BY <1>4, <1>7, <1>8, <1>9
    <3> QED BY <2>8, <3>1
  <2>9. CASE i = 8
    <3>1. (E(8) <=> ~ D(8)) /\ (D(8) => (B(8) <=> V(8)))
      BY <1>4, <1>7, <1>8, <1>9
    <3> QED BY <2>9, <3>1
  <2>10. CASE i = 9
    <3>1. (E(9) <=> ~ D(9)) /\ (D(9) => (B(9) <=> V(9)))
      BY <1>4, <1>7, <1>8, <1>9
    <3> QED BY <2>10, <3>1
  <2> QED BY <2>1, <2>3, <2>4, <2>5, <2>6, <2>7, <2>8, <2>9, <2>10
<1>10. decisive = {i \in 1 .. 9 : l > 0 /\ D(i)}
  BY <1>2 DEF decisive, D
<1> HIDE DEF E, B
<1>11. CASE decisive = {}
  <2>1. LessThan(r, s) <=> text_less
    BY <1>1, <1>11
  <2>2. a = b
    <3>1. CASE l = 0
      BY <1>3, <3>1
    <3>2. CASE l # 0
      <4>1. \A i \in 1 .. 9 : ~ D(i)
        BY <1>10, <1>11, <3>2
      <4>2. \A i \in 1 .. 9 : a[i] = b[i]
        BY <1>9, <3>2, <4>1 DEF E
      <4>3. a = [i \in 1 .. 9 |-> a[i]] /\ b = [i \in 1 .. 9 |-> b[i]]
        BY <1>3, <3>2
      <4> QED BY <4>2, <4>3
    <3> QED BY <3>1, <3>2
  <2>3. ~ TextLess(a, b)
    BY <1>3, <2>2, TextLessTotal
  <2> QED BY <2>1, <2>2, <2>3 DEF text_less, a, b
<1>12. CASE decisive # {}
  <2> DEFINE k == Min(decisive)
  <2>1. l # 0 /\ decisive = {i \in 1 .. 9 : D(i)}
    BY <1>10, <1>12
  <2>2. /\ k \in 1 .. 9 /\ D(k)
        /\ \A i \in 1 .. 9 : i < k => ~ D(i)
    <3> DEFINE decides == [i \in 1 .. 9 |-> D(i)]
    <3>1. 9 \in Nat /\ decisive = {i \in 1 .. 9 : decides[i]}
      BY <2>1
    <3> HIDE DEF decides
    <3>2. /\ k \in 1 .. 9 /\ decides[k]
          /\ \A i \in 1 .. 9 : i < k => ~ decides[i]
      BY <1>12, <3>1, FirstTest
    <3> QED BY <3>2 DEF decides
  <2>3. LessThan(r, s) = V(k)
    BY <1>1, <1>12 DEF V
  <2> HIDE DEF k
  <2>4. ~ E(k) /\ (B(k) <=> V(k))
    BY <1>9, <2>1, <2>2
  <2>5. ASSUME NEW i \in 1 .. k - 1 PROVE E(i)
    <3>1. i \in 1 .. 9 /\ i < k
      BY <2>2
    <3>2. \A j \in 1 .. 9 : j < i => ~ D(j)
      BY <2>2, <3>1
    <3> QED BY <1>9, <2>1, <2>2, <3>1, <3>2
  <2>6. k \in 1 .. Len(a) /\ k <= Len(b)
    BY <1>3, <2>1, <2>2
  <2>7. TextLess(a, b) <=> a[k] < b[k]
    <3>1. a[k] # b[k] /\ \A i \in 1 .. k - 1 : a[i] = b[i]
      BY <2>4, <2>5 DEF E
    <3> QED BY <1>3, <2>6, <3>1, FirstDifference
  <2>8. a # b
    BY <2>4 DEF E
  <2>9. LessThan(r, s) <=> TextLess(a, b)
    BY <2>3, <2>4, <2>7 DEF B
  <2> QED BY <2>8, <2>9 DEF a, b
<1> QED BY <1>11, <1>12

(* An order by rank and then by text is a strict weak order.               *)
LEMMA OrderIsStrict ==
  ASSUME NEW l \in Nat, NEW r, NEW s, NEW t,
         ResultFor(r, l), ResultFor(s, l), ResultFor(t, l),
         r.caseSwappedText \in Seq(Nat), s.caseSwappedText \in Seq(Nat),
         t.caseSwappedText \in Seq(Nat)
  PROVE  /\ ~ (LessThan(r, s) /\ LessThan(s, r))
         /\ LessThan(r, s) => LessThan(r, t) \/ LessThan(t, s)
<1> DEFINE X == {r, s, t}
           N == Seq(Nat)
<1>1. \A x, y \in X : LessThan(x, y) <=>
        \/ TextLess(Rank(x), Rank(y))
        \/ /\ Rank(x) = Rank(y)
           /\ TextLess(x.caseSwappedText, y.caseSwappedText)
  BY OrderIsByRank
<1>2. \A x \in X : Rank(x) \in N /\ x.caseSwappedText \in N
  BY RankType
<1>3. \A u, v \in N : ~ TextLess(u, u) /\ (u = v \/ TextLess(u, v)
                                                   \/ TextLess(v, u))
  BY TextLessTotal
<1>4. \A u, v, w \in N : TextLess(u, v) /\ TextLess(v, w) => TextLess(u, w)
  BY TextLessTransitive
<1>5. r \in X /\ s \in X /\ t \in X
  OBVIOUS
<1> HIDE DEF X, N
<1>6. ~ (LessThan(r, s) /\ LessThan(s, r))
  BY <1>1, <1>2, <1>3, <1>4, <1>5
<1>7. LessThan(r, s) => LessThan(r, t) \/ LessThan(t, s)
  <2> SUFFICES ASSUME LessThan(r, s), ~ LessThan(r, t), ~ LessThan(t, s)
               PROVE  FALSE
    OBVIOUS
  <2>1. TextLess(Rank(r), Rank(s)) \/ Rank(r) = Rank(s)
    BY <1>1, <1>5
  <2>2. Rank(t) = Rank(r) \/ TextLess(Rank(t), Rank(r))
    BY <1>1, <1>2, <1>3, <1>5
  <2>3. Rank(s) = Rank(t) \/ TextLess(Rank(s), Rank(t))
    BY <1>1, <1>2, <1>3, <1>5
  <2>4. Rank(r) = Rank(s) /\ Rank(t) = Rank(r)
    BY <1>2, <1>3, <1>4, <1>5, <2>1, <2>2, <2>3
  <2> DEFINE x == r.caseSwappedText
             y == s.caseSwappedText
             z == t.caseSwappedText
  <2>5. TextLess(x, y) /\ ~ TextLess(x, z) /\ ~ TextLess(z, y)
    BY <1>1, <1>2, <1>3, <1>5, <2>4
  <2>6. x \in N /\ y \in N /\ z \in N
    BY <1>2, <1>5
  <2> HIDE DEF x, y, z
  <2> QED BY <1>3, <1>4, <2>5, <2>6
<1> QED BY <1>6, <1>7

(* The text by which candidates are compared last is of numbers.           *)
LEMMA SwappedType ==
  ASSUME NEW t \in Seq(DOMAIN CodePoint)
  PROVE  NewCandidate(t).caseSwappedText \in Seq(Nat)
<1> DEFINE D == DOMAIN CodePoint
           g == Field("swapped")
           h == [c \in Chars |-> c.swapped]
           w == Characters(t)
<1>1. g \in [D -> Seq(Nat)]
  BY SwappedAssumption DEF Field
<1>2. ASSUME NEW c \in Chars PROVE c.swapped \in Seq(Nat)
  <2>1. PICK s \in Seq(NormalCodePoints) : c = NewCharacter(s)
    BY DEF Chars
  <2>2. CanonicalSort(s) \in Seq(D)
    <3>1. s \in Seq(D)
      BY DEF NormalCodePoints
    <3> QED BY <3>1, SortAppend
  <2>3. c.swapped = Spelled(g, CanonicalSort(s))
    BY <2>1, <2>2, SpellIs DEF NewCharacter, CharacterOf
  <2>4. Spelled(g, CanonicalSort(s)) \in Seq(Nat)
    <3> HIDE DEF g
    <3> QED BY ONLY <1>1, <2>2, SpelledAppend
  <2> QED BY <2>3, <2>4
<1>3. h \in [Chars -> Seq(Nat)]
  BY <1>2
<1>4. w \in Seq(Chars)
  BY CharactersType
<1>5. Spelled(h, w) \in Seq(Nat)
  <2> HIDE DEF h, w
  <2> QED BY <1>3, <1>4, SpelledAppend
<1>6. NewCandidate(t).caseSwappedText =
        FlattenSeq([i \in DOMAIN w |-> w[i].swapped])
  BY DEF NewCandidate, NewWord, WordOf, CandidateOf
<1>7. [i \in DOMAIN w |-> w[i].swapped] = [i \in DOMAIN w |-> h[w[i]]]
  <2>1. \A i \in DOMAIN w : w[i] \in Chars
    BY <1>4
  <2> QED BY <2>1
<1> QED BY <1>5, <1>6, <1>7 DEF Spelled

(* Utils.h:121-125: the results that are sorted are in a strict weak       *)
(* order, as std::partial_sort asks.                                       *)
THEOREM OrderedResults == Spec => []ResultsAreOrdered
<1>1. IInv => ResultsAreOrdered
  <2> SUFFICES ASSUME IInv, phase = "sorting",
                      NEW m \in ToSet(matches), NEW n \in ToSet(matches),
                      NEW o \in ToSet(matches)
               PROVE  /\ ~ (/\ LessThan(m.result, n.result)
                            /\ LessThan(n.result, m.result))
                      /\ LessThan(m.result, n.result) =>
                           \/ LessThan(m.result, o.result)
                           \/ LessThan(o.result, n.result)
    BY DEF ResultsAreOrdered
  <2> DEFINE l == Len(query.characters)
  <2>1. l \in Nat
    <3>1. query.characters \in Seq(Chars)
      BY MatchesFacts
    <3> QED BY <3>1
  <2>2. ASSUME NEW x \in ToSet(matches)
        PROVE  /\ ResultFor(x.result, l)
               /\ x.result.caseSwappedText \in Seq(Nat)
    <3> DEFINE i == x.index
               q == query.characters
    <3>1. ResultFor(x.result, l)
      BY MatchResults
    <3>2. /\ i \in 1 .. index /\ Answers(i) /\ x = MatchOf(i)
          /\ index \in 0 .. Len(Candidates)
      BY MatchesFacts
    <3>3. i \in 1 .. Len(Candidates)
      <4>1. Len(Candidates) \in Nat
        BY CandidatesType
      <4> QED BY <3>2, <4>1
    <3>4. /\ QueryMatchResult(Candidates[i], q).isSubsequence
          /\ x.result = QueryMatchResult(Candidates[i], q)
      BY <3>2 DEF Answers, MatchOf
    <3>5. x.result.caseSwappedText = Candidates[i].caseSwappedText
      <4> DEFINE c == Candidates[i]
                 v == Match(c, q, Len(c.characters))
      <4>1. QueryMatchResult(c, q) = IF v.met < Len(q) THEN NotASubsequence
                                     ELSE NewResult(c, q, v.sum, v.prefix)
        BY DEF QueryMatchResult, ResultOf
      <4>2. NotASubsequence.isSubsequence = FALSE
        BY DEF NotASubsequence
      <4>3. x.result = NewResult(c, q, v.sum, v.prefix)
        BY <3>4, <4>1, <4>2
      <4> HIDE DEF c, v
      <4>4. x.result.caseSwappedText = c.caseSwappedText
        BY <4>3 DEF NewResult
      <4> QED BY <4>4 DEF c
    <3>6. /\ Candidates[i] = NewCandidate(Texts[i])
          /\ Texts[i] \in Seq(DOMAIN CodePoint)
      <4>1. Candidates = [j \in DOMAIN Texts |-> NewCandidate(Texts[j])]
        BY DEF Candidates, ForEach
      <4>2. DOMAIN Candidates = 1 .. Len(Candidates)
        BY CandidatesType
      <4>3. i \in DOMAIN Texts
        BY <3>3, <4>1, <4>2
      <4>4. Texts[i] \in Seq(DOMAIN CodePoint)
        BY <4>3, MatchingAssumption
      <4> QED BY <4>1, <4>3, <4>4
    <3>7. x.result.caseSwappedText \in Seq(Nat)
      BY <3>5, <3>6, SwappedType
    <3> QED BY <3>1, <3>7
  <2> HIDE DEF l
  <2> QED BY <2>1, <2>2, OrderIsStrict
<1> QED BY <1>1, Invariant, PTL

-----------------------------------------------------------------------------
(* The characters of a simple script.                                      *)

NormalsOf(P) == UNION {ToSet(CodePoint[c].normal) : c \in P}

BasesOf(P) == {c \in NormalsOf(P) : ~ IsMark(c)}

MarksOf(P) == {c \in NormalsOf(P) : IsMark(c)}

Caseless(s) == \A i \in 1 .. Len(s) : ~ CodePoint[s[i]].upper

(* Bases that may be in one character.                                     *)
Stems(P) == {b \in Seq(BasesOf(P)) : Len(b) <= 1 \/ Caseless(b)}

Clusters(P) == {b \o m : b \in Stems(P), m \in Seq(MarksOf(P))}

(* A sequence is of what its elements are.                                 *)
LEMMA SequenceOf ==
  ASSUME NEW D, NEW s \in Seq(D), NEW E, \A i \in 1 .. Len(s) : s[i] \in E
  PROVE  s \in Seq(E)
<1>1. s = [i \in 1 .. Len(s) |-> s[i]] /\ Len(s) \in Nat
  OBVIOUS
<1>2. s \in [1 .. Len(s) -> E]
  BY <1>1
<1> QED BY <1>1, <1>2

(* A sequence is its first k elements and the others.                      *)
LEMMA TwoPieces ==
  ASSUME NEW D, NEW s \in Seq(D), NEW k \in 0 .. Len(s)
  PROVE  /\ SubSeq(s, 1, k) \in Seq(D) /\ Len(SubSeq(s, 1, k)) = k
         /\ \A i \in 1 .. k : SubSeq(s, 1, k)[i] = s[i]
         /\ s = SubSeq(s, 1, k) \o SubSeq(s, k + 1, Len(s))
<1> DEFINE x == SubSeq(s, 1, k)
           z == SubSeq(s, k + 1, Len(s))
           n == Len(s)
<1>1. n \in Nat /\ k \in 0 .. n /\ s \in Seq(D)
  OBVIOUS
<1>2. x \in Seq(D) /\ Len(x) = k /\ \A i \in 1 .. k : x[i] = s[i]
  OBVIOUS
<1>3. z \in Seq(D) /\ Len(z) = n - k /\ \A j \in 1 .. n - k : z[j] = s[k + j]
  BY EndPiece
<1> HIDE DEF x, z
<1>4. x \in Seq(D) /\ z \in Seq(D)
  BY <1>2, <1>3
<1>5. /\ x \o z \in Seq(D) /\ Len(x \o z) = Len(x) + Len(z)
      /\ \A j \in 1 .. Len(x) : (x \o z)[j] = x[j]
      /\ \A j \in 1 .. Len(z) : (x \o z)[Len(x) + j] = z[j]
  BY ONLY <1>4, ConcatElements
<1> DEFINE y == x \o z
<1> HIDE DEF n, y
<1>6. /\ y \in Seq(D) /\ Len(y) = n
      /\ \A j \in 1 .. k : y[j] = s[j]
      /\ \A j \in 1 .. n - k : y[k + j] = s[k + j]
  <2>1. Len(x) = k /\ Len(z) = n - k /\ k + (n - k) = n
    BY <1>1, <1>2, <1>3
  <2>2. y \in Seq(D) /\ Len(y) = n
    BY <1>5, <2>1 DEF y
  <2>3. \A j \in 1 .. k : y[j] = s[j]
    BY <1>2, <1>5, <2>1 DEF y
  <2>4. \A j \in 1 .. n - k : y[k + j] = s[k + j]
    BY <1>3, <1>5, <2>1 DEF y
  <2> QED BY <2>2, <2>3, <2>4
<1>7. ASSUME NEW i \in 1 .. n PROVE s[i] = y[i]
  <2>1. CASE i <= k
    <3>1. i \in 1 .. k
      BY <1>1, <2>1
    <3> QED BY <1>6, <3>1
  <2>2. CASE i > k
    <3>1. i - k \in 1 .. n - k /\ k + (i - k) = i
      BY <1>1, <2>2
    <3>2. y[k + (i - k)] = s[k + (i - k)]
      BY <1>6, <3>1
    <3> QED BY <3>1, <3>2
  <2> QED BY <1>1, <2>1, <2>2
<1>8. s = y
  <2>1. Len(s) = Len(y) /\ \A i \in 1 .. Len(s) : s[i] = y[i]
    BY <1>6, <1>7 DEF n
  <2> QED BY ONLY <1>1, <1>6, <2>1, SameElements
<1> QED BY <1>2, <1>8 DEF x, y, z

(* What the decompositions in a simple script look like.                   *)
LEMMA SimpleNormals ==
  ASSUME NEW P \in SUBSET DOMAIN CodePoint, SimpleScript(P), NEW c \in P
  PROVE  /\ CodePoint[c].break \notin {"ZWJ", "PREPEND"}
         /\ CodePoint[c].indic # "LINKER"
         /\ CodePoint[c].normal \in Clusters(P)
         /\ IsMark(c) => CodePoint[c].normal \in Seq(MarksOf(P))
         /\ CodePoint[c].break \in Syllabic =>
              CodePoint[c].normal \in {b \in Seq(BasesOf(P)) : Caseless(b)}
<1> DEFINE s == CodePoint[c].normal
           n == Len(s)
           N == NormalsOf(P)
<1>1. /\ CodePoint[c].break \notin {"ZWJ", "PREPEND"}
      /\ CodePoint[c].indic # "LINKER"
      /\ IsCluster(s)
      /\ IsMark(c) => \A d \in ToSet(s) : IsMark(d)
      /\ CodePoint[c].break \in Syllabic =>
           \A d \in ToSet(s) : ~ IsMark(d) /\ ~ CodePoint[d].upper
  BY DEF SimpleScript
<1>2. s \in Seq(NormalCodePoints)
  BY CodePointAssumption
<1>3. n \in Nat /\ DOMAIN s = 1 .. n
  BY <1>2
<1>4. \A i \in 1 .. n : s[i] \in ToSet(s) /\ s[i] \in N
  <2>1. \A i \in 1 .. n : s[i] \in ToSet(s)
    BY <1>3 DEF ToSet
  <2> HIDE DEF n
  <2> QED BY <2>1 DEF NormalsOf
<1> HIDE DEF s, N
<1>5. IsMark(c) => s \in Seq(MarksOf(P))
  <2> SUFFICES ASSUME IsMark(c) PROVE s \in Seq(MarksOf(P))
    OBVIOUS
  <2>1. \A i \in 1 .. n : s[i] \in MarksOf(P)
    BY <1>1, <1>4 DEF MarksOf, N
  <2> QED BY ONLY <1>2, <2>1, SequenceOf
<1>6. CodePoint[c].break \in Syllabic =>
        s \in {b \in Seq(BasesOf(P)) : Caseless(b)}
  <2> SUFFICES ASSUME CodePoint[c].break \in Syllabic
               PROVE  s \in Seq(BasesOf(P)) /\ Caseless(s)
    OBVIOUS
  <2>1. \A i \in 1 .. n : s[i] \in BasesOf(P) /\ ~ CodePoint[s[i]].upper
    BY <1>1, <1>4 DEF BasesOf, N
  <2>2. \A i \in 1 .. Len(s) : s[i] \in BasesOf(P)
    BY <2>1
  <2>3. s \in Seq(BasesOf(P))
    BY ONLY <1>2, <2>2, SequenceOf
  <2> QED BY <2>1, <2>3 DEF Caseless
<1>7. s \in Clusters(P)
  <2>1. PICK k \in 0 .. n :
          /\ \A i \in 1 .. k : ~ IsMark(s[i])
          /\ \A i \in k + 1 .. n : IsMark(s[i])
          /\ k <= 1 \/ \A i \in 1 .. k : ~ CodePoint[s[i]].upper
    BY <1>1 DEF IsCluster
  <2> DEFINE b == SubSeq(s, 1, k)
             m == SubSeq(s, k + 1, Len(s))
  <2>2. /\ b \in Seq(NormalCodePoints) /\ Len(b) = k
        /\ \A i \in 1 .. k : b[i] = s[i]
        /\ s = b \o m
    BY <1>2, TwoPieces
  <2>3. /\ m \in Seq(NormalCodePoints) /\ Len(m) = n - k
        /\ \A j \in 1 .. n - k : m[j] = s[k + j]
    BY <1>2, EndPiece
  <2> HIDE DEF b, m
  <2>4. b \in Seq(BasesOf(P))
    <3>1. \A i \in 1 .. k : i \in 1 .. n
      BY <1>3
    <3>2. \A i \in 1 .. Len(b) : b[i] \in BasesOf(P)
      BY <1>4, <2>1, <2>2, <3>1 DEF BasesOf, N
    <3> QED BY ONLY <2>2, <3>2, SequenceOf
  <2>5. m \in Seq(MarksOf(P))
    <3>1. \A j \in 1 .. n - k : k + j \in k + 1 .. n /\ k + j \in 1 .. n
      BY <1>3
    <3>2. \A j \in 1 .. Len(m) : m[j] \in MarksOf(P)
      BY <1>4, <2>1, <2>3, <3>1 DEF MarksOf, N
    <3> QED BY ONLY <2>3, <3>2, SequenceOf
  <2>6. Len(b) <= 1 \/ Caseless(b)
    BY <2>1, <2>2 DEF Caseless
  <2>7. b \in Stems(P)
    BY <2>4, <2>6 DEF Stems
  <2>8. b \o m \in Clusters(P)
    BY ONLY <2>5, <2>7 DEF Clusters
  <2> QED BY <2>2, <2>8
<1> QED BY <1>1, <1>5, <1>6, <1>7 DEF s

(* In a simple script a character goes on with a mark or is a syllable.    *)
LEMMA SimpleJoins ==
  ASSUME NEW P \in SUBSET DOMAIN CodePoint, SimpleScript(P), NEW t \in Seq(P),
         NEW n \in 1 .. Len(t) - 1, Joins(t, n)
  PROVE  \/ IsMark(t[n + 1])
         \/ BreakAt(t, n) \in Syllabic /\ BreakAt(t, n + 1) \in Syllabic
<1> DEFINE b == BreakAt(t, n)
           c == BreakAt(t, n + 1)
           X == {k \in 1 .. n : \A j \in k .. n + 1 :
                                  BreakAt(t, j) = "REGIONAL_INDICATOR"}
<1>1. \A i \in 1 .. Len(t) : t[i] \in P
  OBVIOUS
<1>2. \A i \in 1 .. Len(t) : BreakAt(t, i) \notin {"ZWJ", "PREPEND"}
                             /\ IndicAt(t, i) # "LINKER"
  BY <1>1, SimpleNormals DEF BreakAt, IndicAt
<1>3. n \in 1 .. Len(t) /\ n + 1 \in 1 .. Len(t)
      /\ \A i \in 1 .. n : \A j \in i + 1 .. n : j \in 1 .. Len(t)
  OBVIOUS
<1>4. ~ LinkedUpTo(t, n)
  BY <1>2, <1>3 DEF LinkedUpTo
<1>5. Cardinality(X) % 2 = 1 =>
        b = "REGIONAL_INDICATOR" /\ c = "REGIONAL_INDICATOR"
  <2> SUFFICES ASSUME Cardinality(X) % 2 = 1
               PROVE  b = "REGIONAL_INDICATOR" /\ c = "REGIONAL_INDICATOR"
    OBVIOUS
  <2>1. X # {}
    <3>1. Cardinality({}) = 0 /\ 0 % 2 # 1
      BY FS_EmptySet
    <3> QED BY <3>1
  <2>2. PICK k \in 1 .. n : \A j \in k .. n + 1 :
                              BreakAt(t, j) = "REGIONAL_INDICATOR"
    BY <2>1
  <2>3. n \in k .. n + 1 /\ n + 1 \in k .. n + 1
    OBVIOUS
  <2> QED BY <2>2, <2>3
<1>6. \/ b = "CR" /\ c = "LF"
      \/ \/ b = "L" /\ c \in {"L", "V", "LV", "LVT"}
         \/ b \in {"LV", "V"} /\ c \in {"V", "T"}
         \/ b \in {"LVT", "T"} /\ c = "T"
      \/ b = "ZWJ" /\ c = "EXTPICT"
      \/ c \in Extending \/ b = "PREPEND"
      \/ Cardinality(X) % 2 = 1
  BY <1>4, JoinsAs
<1>7. IsMark(t[n + 1]) <=> c \in {"PREPEND", "EXTEND", "SPACINGMARK"}
  BY DEF IsMark, BreakAt
<1> HIDE DEF b, c, X
<1>8. b \notin {"ZWJ", "PREPEND"} /\ c \notin {"ZWJ", "PREPEND"}
  BY <1>2, <1>3 DEF b, c
<1>9. \/ c \in {"EXTEND", "SPACINGMARK"}
      \/ b \in Syllabic /\ c \in Syllabic
  BY <1>5, <1>6, <1>8 DEF Extending, Syllabic
<1> QED BY <1>7, <1>9 DEF b, c

Syllables(P) == {b \in Seq(BasesOf(P)) : Caseless(b)}

(* A syllable is a cluster; so is a syllable behind another, and a cluster *)
(* with marks behind it.                                                   *)
LEMMA LongerClusters ==
  ASSUME NEW P
  PROVE  /\ Syllables(P) \subseteq Clusters(P)
         /\ \A b \in Syllables(P), c \in Syllables(P) : b \o c \in Syllables(P)
         /\ \A s \in Clusters(P), m \in Seq(MarksOf(P)) : s \o m \in Clusters(P)
<1> DEFINE B == BasesOf(P)
           M == MarksOf(P)
<1>0. \A b \in Stems(P), m \in Seq(M) : b \o m \in Clusters(P)
  <2> TAKE b \in Stems(P), m \in Seq(M)
  <2>1. b \in Stems(P) /\ m \in Seq(MarksOf(P))
    OBVIOUS
  <2> QED BY ONLY <2>1 DEF Clusters
<1>1. ASSUME NEW b \in Syllables(P) PROVE b \in Clusters(P)
  <2>1. b \in Seq(B) /\ b \in Stems(P)
    BY DEF Syllables, Stems
  <2>2. <<>> \in Seq(M) /\ b \o <<>> = b
    BY <2>1
  <2>3. b \o <<>> \in Clusters(P)
    BY ONLY <1>0, <2>1, <2>2
  <2> QED BY <2>2, <2>3
<1>2. ASSUME NEW b \in Syllables(P), NEW c \in Syllables(P)
      PROVE  b \o c \in Syllables(P)
  <2> DEFINE x == b \o c
  <2>1. b \in Seq(B) /\ c \in Seq(B)
    BY DEF Syllables
  <2>2. /\ x \in Seq(B) /\ Len(x) = Len(b) + Len(c)
        /\ \A j \in 1 .. Len(b) : x[j] = b[j]
        /\ \A j \in 1 .. Len(c) : x[Len(b) + j] = c[j]
    BY ONLY <2>1, ConcatElements
  <2>3. Len(b) \in Nat /\ Len(c) \in Nat
    BY <2>1
  <2> HIDE DEF x
  <2>4. ASSUME NEW i \in 1 .. Len(x) PROVE ~ CodePoint[x[i]].upper
    <3>1. CASE i <= Len(b)
      <4>1. i \in 1 .. Len(b)
        BY <2>2, <2>3, <3>1
      <4> QED BY <2>2, <4>1 DEF Syllables, Caseless
    <3>2. CASE i > Len(b)
      <4> DEFINE j == i - Len(b)
      <4>1. j \in 1 .. Len(c) /\ Len(b) + j = i
        BY <2>2, <2>3, <3>2
      <4> HIDE DEF j
      <4> QED BY <2>2, <4>1 DEF Syllables, Caseless
    <3> QED BY <2>2, <2>3, <3>1, <3>2
  <2>5. x \in Syllables(P)
    BY <2>2, <2>4 DEF Syllables, Caseless
  <2> QED BY <2>5 DEF x
<1>3. ASSUME NEW s \in Clusters(P), NEW m \in Seq(M)
      PROVE  s \o m \in Clusters(P)
  <2>1. PICK b \in Stems(P), y \in Seq(M) : s = b \o y
    BY DEF Clusters
  <2>2. b \in Seq(B)
    BY DEF Stems
  <2> DEFINE D == B \cup M
             z == y \o m
  <2>3. b \in Seq(D) /\ y \in Seq(D) /\ m \in Seq(D)
    BY <2>2
  <2>4. (b \o y) \o m = b \o z
    BY ONLY <2>3
  <2>5. z \in Seq(M)
    OBVIOUS
  <2> HIDE DEF z
  <2>6. b \o z \in Clusters(P)
    BY ONLY <1>0, <2>5, b \in Stems(P)
  <2> QED BY <2>1, <2>4, <2>6
<1> QED BY <1>1, <1>2, <1>3

(* The characters read so far, of which the last may get longer.           *)
ClustersUpTo(P, t, n, w) ==
  /\ w.characters \in Seq(Clusters(P)) /\ w.characters # <<>>
  /\ BreakAt(t, n) \in Syllabic =>
       w.characters[Len(w.characters)] \in Syllables(P)

(* A code point more.                                                      *)
LEMMA ClustersTurn ==
  ASSUME NEW P \in SUBSET DOMAIN CodePoint, SimpleScript(P), NEW t \in Seq(P),
         NEW n \in 1 .. Len(t) - 1, NEW w \in Broken,
         FlagsMean(t, n, w), ClustersUpTo(P, t, n, w)
  PROVE  ClustersUpTo(P, t, n + 1, ReadCodePoint(w, t[n], t[n + 1]))
<1> DEFINE v == ReadCodePoint(w, t[n], t[n + 1])
           s == w.characters
           l == Len(s)
           c == t[n + 1]
           x == CodePoint[c].normal
           A == GraphemeBreakAllowed(BreakAt(t, n), BreakAt(t, n + 1), w)
                  .allowed
           B == IndicConjunctBreakAllowed(IndicAt(t, n), IndicAt(t, n + 1), w)
                  .allowed
<1>1. c \in P /\ t \in Seq(DOMAIN CodePoint)
  OBVIOUS
<1>2. v.characters = IF A /\ B THEN Append(s, x)
                     ELSE [s EXCEPT ![Len(s)] = @ \o x]
  BY DEF ReadCodePoint, Extend, BreakAt, IndicAt
<1>3. (A /\ B) <=> ~ Joins(t, n)
  BY <1>1, BreaksAsRules
<1>4. /\ x \in Clusters(P)
      /\ IsMark(c) => x \in Seq(MarksOf(P))
      /\ BreakAt(t, n + 1) \in Syllabic => x \in Syllables(P)
  BY <1>1, SimpleNormals DEF Syllables, BreakAt
<1>5. IsMark(c) => BreakAt(t, n + 1) \notin Syllabic
  BY DEF IsMark, BreakAt, Syllabic
<1>6. Joins(t, n) => \/ IsMark(c)
                     \/ /\ BreakAt(t, n) \in Syllabic
                        /\ BreakAt(t, n + 1) \in Syllabic
  BY SimpleJoins
<1>7. /\ s \in Seq(Clusters(P)) /\ s # <<>>
      /\ BreakAt(t, n) \in Syllabic => s[l] \in Syllables(P)
  BY DEF ClustersUpTo
<1> HIDE DEF A, B, s, x, v, c
<1>8. CASE Joins(t, n)
  <2> DEFINE u == [s EXCEPT ![l] = @ \o x]
  <2>1. v.characters = u
    BY <1>2, <1>3, <1>8
  <2>2. l \in 1 .. l /\ DOMAIN s = 1 .. l /\ l \in Nat /\ s[l] \in Clusters(P)
    BY <1>7
  <2>3. /\ s[l] \o x \in Clusters(P)
        /\ BreakAt(t, n + 1) \in Syllabic => s[l] \o x \in Syllables(P)
    <3>1. CASE IsMark(c)
      BY <1>4, <1>5, <2>2, <3>1, LongerClusters
    <3>2. CASE BreakAt(t, n) \in Syllabic /\ BreakAt(t, n + 1) \in Syllabic
      BY <1>4, <1>7, <3>2, LongerClusters
    <3> QED BY <1>6, <1>8, <3>1, <3>2
  <2>4. /\ u[l] = s[l] \o x /\ DOMAIN u = 1 .. l
        /\ \A i \in 1 .. l : u[i] \in Clusters(P)
    <3>1. u[l] = s[l] \o x /\ DOMAIN u = 1 .. l
          /\ \A i \in 1 .. l : i # l => u[i] = s[i]
      BY <2>2
    <3>2. \A i \in 1 .. l : s[i] \in Clusters(P)
      BY <1>7
    <3> HIDE DEF u, l
    <3> QED BY <2>3, <3>1, <3>2
  <2>5. u = [i \in 1 .. l |-> u[i]]
    BY <2>2
  <2> HIDE DEF u, l
  <2>6. u \in [1 .. l -> Clusters(P)] /\ l \in Nat /\ l # 0
    BY <2>2, <2>4, <2>5
  <2>7. u \in Seq(Clusters(P)) /\ Len(u) = l /\ u # <<>>
    BY ONLY <2>6
  <2> QED BY <2>1, <2>3, <2>4, <2>7 DEF ClustersUpTo, v, c
<1>9. CASE ~ Joins(t, n)
  <2> DEFINE u == Append(s, x)
  <2>1. v.characters = u
    BY <1>2, <1>3, <1>9
  <2>2. u \in Seq(Clusters(P)) /\ u # <<>> /\ u[Len(u)] = x
    BY <1>4, <1>7, AppendProperties
  <2> HIDE DEF u
  <2> QED BY <1>4, <2>1, <2>2 DEF ClustersUpTo, v, c
<1> QED BY <1>8, <1>9

(* A text in a simple script is broken into clusters.                      *)
LEMMA TextIsOfClusters ==
  ASSUME NEW P \in SUBSET DOMAIN CodePoint, SimpleScript(P), NEW t \in Seq(P)
  PROVE  BreakCodePointsIntoCharacters(t) \in Seq(Clusters(P))
<1> DEFINE n == Len(t)
<1>1. t \in Seq(DOMAIN CodePoint) /\ n \in Nat /\ \A i \in 1 .. n : t[i] \in P
  OBVIOUS
<1>2. PICK f \in [0 .. n -> Broken] :
        /\ f[0] = NoWord
        /\ \A i \in 1 .. n :
             f[i] = IF i = 1 THEN FirstCodePoint(t[1])
                    ELSE ReadCodePoint(f[i - 1], t[i - 1], t[i])
        /\ ReadCodePoints(t) = f[n]
  BY <1>1, ReadTurns
<1>3. \A i \in 1 .. n : BreakAt(t, i) # "ZWJ"
  BY <1>1, SimpleNormals DEF BreakAt
<1> DEFINE S == {i \in 0 .. n : i # 0 =>
                   FlagsMean(t, i, f[i]) /\ ClustersUpTo(P, t, i, f[i])}
<1>4. 0 \in S
  BY <1>1
<1>5. ASSUME NEW i \in 1 .. n, i - 1 \in S PROVE i \in S
  <2>1. CASE i = 1
    <3>1. f[1] = FirstCodePoint(t[1]) /\ 1 \in 0 .. n /\ t[1] \in P
      BY <1>1, <1>2, <2>1
    <3>2. FlagsMean(t, 1, f[1])
      BY <3>1, FirstFlags
    <3> DEFINE x == CodePoint[t[1]].normal
    <3>3. /\ x \in Clusters(P)
          /\ BreakAt(t, 1) \in Syllabic => x \in Syllables(P)
      BY <3>1, SimpleNormals DEF Syllables, BreakAt
    <3>4. f[1].characters = <<x>>
      BY <3>1 DEF FirstCodePoint, NoWord
    <3> HIDE DEF x
    <3>5. ClustersUpTo(P, t, 1, f[1])
      BY <3>3, <3>4 DEF ClustersUpTo
    <3> QED BY <2>1, <3>1, <3>2, <3>5
  <2>2. CASE i # 1
    <3> DEFINE j == i - 1
    <3>1. /\ j \in 1 .. Len(t) - 1 /\ j + 1 = i /\ j # 0 /\ i \in 0 .. n
          /\ j \in 0 .. n /\ j \in Nat \ {0} /\ j \in 1 .. n
      BY <1>1, <2>2
    <3>2. f[i] = ReadCodePoint(f[j], t[j], t[i]) /\ f[j] \in Broken
      BY <1>2, <2>2, <3>1
    <3>3. FlagsMean(t, j, f[j]) /\ ClustersUpTo(P, t, j, f[j])
      BY <1>5, <3>1
    <3> HIDE DEF j
    <3>4. FlagsMean(t, j + 1, ReadCodePoint(f[j], t[j], t[j + 1]))
      BY <1>3, <3>1, <3>2, <3>3, FlagsKept
    <3>5. ClustersUpTo(P, t, j + 1, ReadCodePoint(f[j], t[j], t[j + 1]))
      BY <3>1, <3>2, <3>3, ClustersTurn
    <3> QED BY <3>1, <3>2, <3>4, <3>5
  <2> QED BY <2>1, <2>2
<1> HIDE DEF S
<1>6. 0 .. n \subseteq S
  BY <1>1, <1>4, <1>5, Induction
<1>7. CASE n = 0
  <2>1. f[n].characters = <<>>
    BY <1>2, <1>7 DEF NoWord
  <2>2. <<>> \in Seq(Clusters(P))
    OBVIOUS
  <2> QED BY <1>2, <2>1, <2>2 DEF BreakCodePointsIntoCharacters
<1>8. CASE n # 0
  <2>1. n \in S
    BY <1>1, <1>6
  <2>2. ClustersUpTo(P, t, n, f[n])
    BY <1>8, <2>1 DEF S
  <2> QED BY <1>2, <2>2 DEF BreakCodePointsIntoCharacters, ClustersUpTo
<1> QED BY <1>7, <1>8

(* What is made of a sequence depends on its elements only.                *)
LEMMA SpelledAlike ==
  ASSUME NEW D, NEW g, NEW h, \A c \in D : g[c] = h[c]
  PROVE  \A s \in Seq(D) : Spelled(g, s) = Spelled(h, s)
<1> TAKE s \in Seq(D)
<1>1. \A i \in DOMAIN s : g[s[i]] = h[s[i]]
  OBVIOUS
<1>2. [i \in DOMAIN s |-> g[s[i]]] = [i \in DOMAIN s |-> h[s[i]]]
  BY <1>1
<1> QED BY <1>2 DEF Spelled

(* Elements that stay what they are, and elements that are left out.       *)
LEMMA SpelledFixed ==
  ASSUME NEW D, NEW g
  PROVE  /\ (\A c \in D : g[c] = <<c>>) => \A s \in Seq(D) : Spelled(g, s) = s
         /\ (\A c \in D : g[c] = <<>>) => \A s \in Seq(D) : Spelled(g, s) = <<>>
<1>1. ASSUME \A c \in D : g[c] = <<c>>
      PROVE  \A s \in Seq(D) : Spelled(g, s) = s
  <2> DEFINE h == [c \in D |-> <<c>>]
             S == {s \in Seq(D) : Spelled(h, s) = s}
  <2>1. h \in [D -> Seq(D)] /\ \A c \in D : h[c] = <<c>>
    OBVIOUS
  <2> HIDE DEF h
  <2>2. \A s \in Seq(D), c \in D :
          Spelled(h, Append(s, c)) = Spelled(h, s) \o h[c]
    BY ONLY <2>1, SpelledAppend
  <2>3. <<>> \in S
    BY SpelledEmpty
  <2>4. ASSUME NEW s \in Seq(D), NEW c \in D, s \in S PROVE Append(s, c) \in S
    <3>1. Spelled(h, Append(s, c)) = s \o <<c>>
      BY <2>1, <2>2, <2>4
    <3>2. s \o <<c>> = Append(s, c) /\ Append(s, c) \in Seq(D)
      OBVIOUS
    <3> QED BY <3>1, <3>2
  <2> HIDE DEF S
  <2>5. Seq(D) \subseteq S
    BY <2>3, <2>4, SequenceInduction
  <2>6. \A s \in Seq(D) : Spelled(g, s) = Spelled(h, s)
    <3>1. \A c \in D : g[c] = h[c]
      BY <1>1, <2>1
    <3> QED BY ONLY <3>1, SpelledAlike, ZenonT(60)
  <2> QED BY <2>5, <2>6 DEF S
<1>2. ASSUME \A c \in D : g[c] = <<>>
      PROVE  \A s \in Seq(D) : Spelled(g, s) = <<>>
  <2> DEFINE h == [c \in D |-> <<>>]
             S == {s \in Seq(D) : Spelled(h, s) = <<>>}
  <2>1. h \in [D -> Seq(D)] /\ \A c \in D : h[c] = <<>>
    OBVIOUS
  <2> HIDE DEF h
  <2>2. \A s \in Seq(D), c \in D :
          Spelled(h, Append(s, c)) = Spelled(h, s) \o h[c]
    BY ONLY <2>1, SpelledAppend
  <2>3. <<>> \in S
    BY SpelledEmpty
  <2>4. ASSUME NEW s \in Seq(D), NEW c \in D, s \in S PROVE Append(s, c) \in S
    <3>1. Spelled(h, Append(s, c)) = <<>> \o <<>>
      BY <2>1, <2>2, <2>4
    <3>2. <<>> \o <<>> = <<>> /\ Append(s, c) \in Seq(D)
      OBVIOUS
    <3> QED BY <3>1, <3>2
  <2> HIDE DEF S
  <2>5. Seq(D) \subseteq S
    BY <2>3, <2>4, SequenceInduction
  <2>6. \A s \in Seq(D) : Spelled(g, s) = Spelled(h, s)
    BY <1>2, <2>1, SpelledAlike
  <2> QED BY <2>5, <2>6 DEF S
<1> QED BY <1>1, <1>2

FoldedOf(P) == [c \in NormalsOf(P) |-> CodePoint[c].folded]

(* The base of a character of these code points.                           *)
Folded(P, b) == Spelled(FoldedOf(P), b)

NoMarks == {c \in DOMAIN CodePoint : ~ IsMark(c)}

(* The code points a simple script is decomposed into.                     *)
LEMMA SimpleParts ==
  ASSUME NEW P \in SUBSET DOMAIN CodePoint, SimpleScript(P)
  PROVE  /\ NormalsOf(P) \subseteq NormalCodePoints
         /\ NormalsOf(P) \subseteq DOMAIN CodePoint
         /\ NormalsOf(P) = BasesOf(P) \cup MarksOf(P)
         /\ BasesAndMarks(BasesOf(P), MarksOf(P))
         /\ \A c \in MarksOf(P) : /\ IsMark(c) /\ ~ CodePoint[c].upper
                                  /\ CodePoint[c].folded = <<c>>
         /\ \A c \in BasesOf(P) : /\ ~ IsMark(c)
                                  /\ CodePoint[c].folded \in Seq(NoMarks)
         /\ \A c, d \in NormalsOf(P) :
              /\ CodePoint[c].upper /\ CodePoint[d].upper
              /\ CodePoint[c].folded = CodePoint[d].folded
              => c = d
<1>1. NormalsOf(P) \subseteq NormalCodePoints
  <2> SUFFICES ASSUME NEW c \in P, NEW d \in ToSet(CodePoint[c].normal)
               PROVE  d \in NormalCodePoints
    BY DEF NormalsOf
  <2>1. CodePoint[c].normal \in Seq(NormalCodePoints)
    BY CodePointAssumption
  <2>2. PICK i \in DOMAIN CodePoint[c].normal : d = CodePoint[c].normal[i]
    BY DEF ToSet
  <2> QED BY <2>1, <2>2
<1>2. NormalCodePoints \subseteq DOMAIN CodePoint
  BY DEF NormalCodePoints
<1>3. /\ \A c \in NormalsOf(P) :
           IF IsMark(c)
           THEN /\ c \notin {d \in NormalsOf(P) : CodePoint[d].upper}
                /\ CodePoint[c].folded = <<c>>
           ELSE CodePoint[c].folded \in Seq(NoMarks)
      /\ \A c, d \in {d \in NormalsOf(P) : CodePoint[d].upper} :
           CodePoint[c].folded = CodePoint[d].folded => c = d
  BY DEF SimpleScript, NormalsOf, NoMarks
<1>4. NormalsOf(P) = BasesOf(P) \cup MarksOf(P)
  BY DEF BasesOf, MarksOf
<1>5. BasesAndMarks(BasesOf(P), MarksOf(P))
  <2>1. \A c \in DOMAIN CodePoint :
          /\ CodePoint[c].class \in Nat
          /\ CodePoint[c].class # 0 => CodePoint[c].break = "EXTEND"
    BY PropertyAssumption
  <2> QED BY <1>1, <1>2, <2>1 DEF BasesAndMarks, BasesOf, MarksOf, IsMark
<1>6. \A c \in MarksOf(P) : /\ IsMark(c) /\ ~ CodePoint[c].upper
                            /\ CodePoint[c].folded = <<c>>
  BY <1>3 DEF MarksOf
<1>7. \A c \in BasesOf(P) : /\ ~ IsMark(c)
                            /\ CodePoint[c].folded \in Seq(NoMarks)
  BY <1>3 DEF BasesOf
<1>8. \A c, d \in NormalsOf(P) :
              /\ CodePoint[c].upper /\ CodePoint[d].upper
              /\ CodePoint[c].folded = CodePoint[d].folded
              => c = d
  BY <1>3
<1> QED BY <1>1, <1>2, <1>4, <1>5, <1>6, <1>7, <1>8

(* What a character of bases b and marks y is.                             *)
MadeOf(P, k, b, y) ==
  /\ b \in Stems(P) /\ y \in Seq(MarksOf(P))
  /\ k.normal = b \o y
  /\ k.folded = Folded(P, b) \o y
  /\ k.base = Folded(P, b)
  /\ k.isBase <=> y = <<>>
  /\ k.upper <=> ~ Caseless(b)
  /\ Marks(k) = y

(* What g makes of a sequence over D can be made of its parts.             *)
JoinsSpellings(g, D) ==
  \A s \in Seq(D), t \in Seq(D) :
    Spelled(g, s \o t) = Spelled(g, s) \o Spelled(g, t)

(* SpelledConcat as one fact of g.                                         *)
LEMMA SpellingsJoin ==
  \A D, V, g : g \in [D -> Seq(V)] => JoinsSpellings(g, D)
<1> SUFFICES ASSUME NEW D, NEW V, NEW g \in [D -> Seq(V)]
             PROVE  JoinsSpellings(g, D)
  OBVIOUS
<1>1. \A s \in Seq(D), t \in Seq(D) :
        Spelled(g, s \o t) = Spelled(g, s) \o Spelled(g, t)
  BY SpelledConcat
<1> QED BY ONLY <1>1 DEF JoinsSpellings

(* What g makes of bases and then of marks.                                *)
LEMMA SpelledTwo ==
  ASSUME NEW P \in SUBSET DOMAIN CodePoint, SimpleScript(P), NEW g, NEW V,
         g \in [NormalsOf(P) -> Seq(V)],
         NEW b \in Seq(BasesOf(P)), NEW y \in Seq(MarksOf(P))
  PROVE  /\ Spelled(g, b \o y) = Spelled(g, b) \o Spelled(g, y)
         /\ Spelled(g, b) \in Seq(V) /\ Spelled(g, y) \in Seq(V)
         /\ b \o y \in Seq(NormalsOf(P))
<1> DEFINE N == NormalsOf(P)
<1>1. b \in Seq(N) /\ y \in Seq(N)
  <2>1. N = BasesOf(P) \cup MarksOf(P)
    BY SimpleParts
  <2> QED BY <2>1
<1> HIDE DEF N
<1>2. g \in [N -> Seq(V)]
  BY DEF N
<1>3. Spelled(g, b \o y) = Spelled(g, b) \o Spelled(g, y)
  <2>1. \A s \in Seq(N), t \in Seq(N) :
          Spelled(g, s \o t) = Spelled(g, s) \o Spelled(g, t)
    <3>1. JoinsSpellings(g, N)
      BY ONLY <1>2, SpellingsJoin
    <3> QED BY ONLY <3>1 DEF JoinsSpellings
  <2> QED BY ONLY <1>1, <2>1
<1>4. \A s \in Seq(N) : Spelled(g, s) \in Seq(V)
  BY ONLY <1>2, SpelledAppend
<1>5. b \o y \in Seq(N)
  BY ONLY <1>1
<1> QED BY <1>1, <1>3, <1>4, <1>5 DEF N

(* What the characters of a simple script are.                             *)
LEMMA CharacterOfCluster ==
  ASSUME NEW P \in SUBSET DOMAIN CodePoint, SimpleScript(P),
         NEW s \in Clusters(P)
  PROVE  \E b, y : MadeOf(P, NewCharacter(s), b, y)
<1> DEFINE N == NormalsOf(P)
           B == BasesOf(P)
           M == MarksOf(P)
<1>1. /\ N \subseteq NormalCodePoints /\ N \subseteq DOMAIN CodePoint
      /\ N = B \cup M /\ BasesAndMarks(B, M)
      /\ \A c \in M : /\ IsMark(c) /\ ~ CodePoint[c].upper
                      /\ CodePoint[c].folded = <<c>>
      /\ \A c \in B : ~ IsMark(c) /\ CodePoint[c].folded \in Seq(NoMarks)
  BY SimpleParts
<1>2. PICK b \in Stems(P), m \in Seq(M) : s = b \o m
  BY SMTT(60) DEF Clusters
<1>3. b \in Seq(B)
  BY DEF Stems
<1>4. PICK y \in Seq(M) : CanonicalSort(s) = b \o y
  BY ONLY <1>1, <1>2, <1>3, SortOfCluster, ZenonT(60)
<1> DEFINE k == NewCharacter(s)
           q == b \o y
<1>5. k = CharacterOf(q)
  BY <1>4 DEF NewCharacter
<1>6. q \in Seq(N) /\ b \in Seq(N) /\ y \in Seq(N)
  <2>1. B \subseteq N /\ M \subseteq N
    BY <1>1
  <2> HIDE DEF B, M, N
  <2>2. b \in Seq(N) /\ y \in Seq(N)
    BY <1>3, <2>1
  <2> QED BY ONLY <2>2
<1>7. /\ Len(q) = Len(b) + Len(y)
      /\ \A i \in 1 .. Len(b) : q[i] = b[i]
      /\ \A i \in 1 .. Len(y) : q[Len(b) + i] = y[i]
      /\ Len(b) \in Nat /\ Len(y) \in Nat
  <2>1. b \in Seq(N) /\ y \in Seq(N)
    BY <1>6
  <2>2. /\ Len(q) = Len(b) + Len(y)
        /\ \A i \in 1 .. Len(b) : q[i] = b[i]
        /\ \A i \in 1 .. Len(y) : q[Len(b) + i] = y[i]
    BY ONLY <2>1, ConcatElements
  <2> QED BY <2>1, <2>2
<1>8. DOMAIN q = 1 .. Len(b) + Len(y) /\ \A i \in DOMAIN q : q[i] \in N
  BY <1>6, <1>7
<1>9. \A i \in DOMAIN q : \/ i \in 1 .. Len(b)
                          \/ \E j \in 1 .. Len(y) : i = Len(b) + j
  <2> TAKE i \in DOMAIN q
  <2>1. i \in 1 .. Len(b) + Len(y)
    BY <1>8
  <2>2. i > Len(b) => i - Len(b) \in 1 .. Len(y) /\ i = Len(b) + (i - Len(b))
    BY <1>7, <2>1
  <2> QED BY <1>7, <2>1, <2>2
<1>10. (\A i \in 1 .. Len(b) : i \in DOMAIN q)
       /\ \A i \in 1 .. Len(y) : Len(b) + i \in DOMAIN q
  BY <1>7, <1>8
<1> HIDE DEF q
<1>11. k.normal = q
  <2>1. k.normal = Spell(q, "normal")
    BY <1>5 DEF CharacterOf
  <2>2. q \in Seq(DOMAIN CodePoint)
    BY <1>1, <1>6
  <2>3. Spell(q, "normal") = Spelled(Field("normal"), q)
    BY <2>2, SpellIs
  <2>4. \A c \in N : Field("normal")[c] = <<c>>
    BY <1>1 DEF Field, NormalCodePoints
  <2> HIDE DEF N
  <2>5. Spelled(Field("normal"), q) = q
    BY ONLY <1>6, <2>4, SpelledFixed
  <2> QED BY <2>1, <2>3, <2>5
<1> DEFINE F == FoldedOf(P)
           V == NoMarks \cup M
<1>12. F \in [N -> Seq(V)] /\ \A c \in N : F[c] = CodePoint[c].folded
  <2>1. \A c \in N : CodePoint[c].folded \in Seq(V)
    <3> TAKE c \in N
    <3>1. CASE c \in M
      <4>1. CodePoint[c].folded = <<c>> /\ c \in V
        BY <1>1, <3>1
      <4> HIDE DEF V
      <4>2. <<c>> \in Seq(V)
        BY ONLY <4>1
      <4> QED BY <4>1, <4>2
    <3>2. CASE c \in B
      BY <1>1, <3>2
    <3> QED BY <1>1, <3>1, <3>2
  <2> QED BY <2>1 DEF FoldedOf
<1>13. Spelled(F, q) = Folded(P, b) \o y
  <2>1. Spelled(F, q) = Spelled(F, b) \o Spelled(F, y)
    BY <1>3, <1>12, SpelledTwo, SMTT(60) DEF q
  <2>2. \A c \in M : F[c] = <<c>>
    BY <1>1, <1>12
  <2>3. Spelled(F, y) = y
    BY ONLY y \in Seq(M), <2>2, SpelledFixed
  <2> QED BY <2>1, <2>3 DEF Folded
<1>14. k.folded = Folded(P, b) \o y
  <2>1. k.folded = Spell(q, "folded")
    BY <1>5 DEF CharacterOf
  <2>2. q \in Seq(DOMAIN CodePoint)
    BY <1>1, <1>6
  <2>3. Spell(q, "folded") = Spelled(Field("folded"), q)
    BY <2>2, SpellIs
  <2> DEFINE E == Field("folded")
  <2>4. \A c \in N : E[c] = F[c]
    BY <1>1, <1>12 DEF Field
  <2>5. q \in Seq(N)
    BY <1>6
  <2> HIDE DEF N, F, E
  <2>6. Spelled(E, q) = Spelled(F, q)
    BY ONLY <2>4, <2>5, SpelledAlike
  <2> QED BY <1>13, <2>1, <2>3, <2>6 DEF E
<1> DEFINE G == [c \in N |-> IF IsMark(c) THEN <<>> ELSE CodePoint[c].folded]
<1>15. G \in [N -> Seq(V)] /\ (\A c \in M : G[c] = <<>>)
       /\ \A c \in B : G[c] = F[c]
  <2>1. <<>> \in Seq(V)
    OBVIOUS
  <2>2. \A c \in N : F[c] \in Seq(V)
    BY <1>12
  <2>3. \A c \in N : G[c] = IF IsMark(c) THEN <<>> ELSE F[c]
    BY <1>12
  <2>4. G = [c \in N |-> G[c]]
    OBVIOUS
  <2> HIDE DEF G, V, F
  <2> QED BY <1>1, <2>1, <2>2, <2>3, <2>4
<1>16. k.base = Folded(P, b)
  <2>1. k.base = FlattenSeq([i \in DOMAIN q |->
                               IF IsMark(q[i]) THEN <<>>
                               ELSE CodePoint[q[i]].folded])
    BY <1>5 DEF CharacterOf
  <2>2. [i \in DOMAIN q |->
           IF IsMark(q[i]) THEN <<>> ELSE CodePoint[q[i]].folded]
          = [i \in DOMAIN q |-> G[q[i]]]
    BY <1>8
  <2>3. k.base = Spelled(G, q)
    BY <2>1, <2>2 DEF Spelled
  <2> HIDE DEF G
  <2>4. /\ Spelled(G, q) = Spelled(G, b) \o Spelled(G, y)
        /\ Spelled(G, b) \in Seq(V)
    BY <1>3, <1>15, SpelledTwo, SMTT(60) DEF q
  <2>5. Spelled(G, y) = <<>>
    BY ONLY y \in Seq(M), <1>15, SpelledFixed
  <2>6. Spelled(G, b) = Spelled(F, b)
    <3>1. \A c \in B : G[c] = F[c]
      BY <1>15
    <3> HIDE DEF F, B
    <3> QED BY ONLY <1>3, <3>1, SpelledAlike
  <2>7. Spelled(G, b) \o <<>> = Spelled(G, b)
    BY ONLY <2>4
  <2> QED BY <2>3, <2>4, <2>5, <2>6, <2>7 DEF Folded
<1>17. k.isBase <=> y = <<>>
  <2>1. k.isBase = \A i \in DOMAIN q : ~ IsMark(q[i])
    BY <1>5 DEF CharacterOf
  <2>2. CASE y = <<>>
    <3>1. \A i \in DOMAIN q : i \in 1 .. Len(b)
      BY <1>9, <2>2
    <3>2. \A i \in DOMAIN q : q[i] \in B
      BY <1>3, <1>7, <3>1
    <3> QED BY <1>1, <2>1, <2>2, <3>2
  <2>3. CASE y # <<>>
    <3>1. 1 \in 1 .. Len(y) /\ y[1] \in M
      BY <2>3
    <3>2. Len(b) + 1 \in DOMAIN q /\ IsMark(q[Len(b) + 1])
      BY <1>1, <1>7, <1>10, <3>1
    <3> QED BY <2>1, <2>3, <3>2
  <2> QED BY <2>2, <2>3
<1>18. k.upper <=> ~ Caseless(b)
  <2>1. k.upper <=> \E i \in DOMAIN q : CodePoint[q[i]].upper
    BY <1>5 DEF CharacterOf, Some
  <2>2. ASSUME NEW i \in DOMAIN q, CodePoint[q[i]].upper
        PROVE  ~ Caseless(b)
    <3>1. CASE i \in 1 .. Len(b)
      BY <1>7, <2>2, <3>1 DEF Caseless
    <3>2. ASSUME NEW j \in 1 .. Len(y), i = Len(b) + j PROVE FALSE
      <4>1. q[i] = y[j]
        BY <1>7, <3>2
      <4>2. y[j] \in M
        BY <3>2
      <4>3. \A c \in M : ~ CodePoint[c].upper
        BY <1>1
      <4> QED BY ONLY <2>2, <4>1, <4>2, <4>3
    <3> QED BY <1>9, <3>1, <3>2
  <2>3. ASSUME NEW i \in 1 .. Len(b), CodePoint[b[i]].upper
        PROVE  \E j \in DOMAIN q : CodePoint[q[j]].upper
    BY <1>7, <1>10, <2>3
  <2> QED BY <2>1, <2>2, <2>3 DEF Caseless
<1> DEFINE H == [c \in N |-> IF IsMark(c) THEN <<c>> ELSE <<>>]
<1>19. H \in [N -> Seq(N)] /\ (\A c \in M : H[c] = <<c>>)
       /\ \A c \in B : H[c] = <<>>
  <2>2. \A c \in N : H[c] = IF IsMark(c) THEN <<c>> ELSE <<>>
    OBVIOUS
  <2>3. \A c \in N : H[c] \in Seq(N)
    OBVIOUS
  <2>4. H = [c \in N |-> H[c]]
    OBVIOUS
  <2> HIDE DEF H
  <2>5. H \in [N -> Seq(N)]
    BY <2>3, <2>4
  <2>6. \A c \in M : H[c] = <<c>>
    BY <1>1, <2>2
  <2>7. \A c \in B : H[c] = <<>>
    BY <1>1, <2>2
  <2> QED BY <2>5, <2>6, <2>7
<1>20. Marks(k) = y
  <2>1. Marks(k) = FlattenSeq([i \in DOMAIN q |->
                                 IF IsMark(q[i]) THEN <<q[i]>> ELSE <<>>])
    BY <1>11 DEF Marks
  <2>2. [i \in DOMAIN q |-> IF IsMark(q[i]) THEN <<q[i]>> ELSE <<>>]
          = [i \in DOMAIN q |-> H[q[i]]]
    BY <1>8
  <2>3. Marks(k) = Spelled(H, q)
    BY <2>1, <2>2 DEF Spelled
  <2> HIDE DEF H
  <2>4. Spelled(H, q) = Spelled(H, b) \o Spelled(H, y)
    BY <1>3, <1>19, SpelledTwo, ZenonT(60) DEF q
  <2>5. Spelled(H, y) = y
    BY ONLY y \in Seq(M), <1>19, SpelledFixed
  <2>6. Spelled(H, b) = <<>>
    BY ONLY <1>3, <1>19, SpelledFixed
  <2>7. <<>> \o y = y
    BY ONLY y \in Seq(M)
  <2> QED BY <2>3, <2>4, <2>5, <2>6, <2>7
<1> HIDE DEF k, F, G, H
<1>21. MadeOf(P, k, b, y)
  BY <1>11, <1>14, <1>16, <1>17, <1>18, <1>20 DEF MadeOf, q
<1> QED BY <1>21 DEF k

(* Sequences of which one part has nothing of the other are split in one   *)
(* way only.                                                               *)
LEMMA SplitOnce ==
  ASSUME NEW X, NEW Y, X \cap Y = {}
  PROVE  \A a, b \in Seq(X), m, n \in Seq(Y) : a \o m = b \o n => a = b /\ m = n
<1> DEFINE D == X \cup Y
<1>1. ASSUME NEW a \in Seq(X), NEW m \in Seq(Y)
      PROVE  /\ a \o m \in Seq(D) /\ Len(a \o m) = Len(a) + Len(m)
             /\ \A i \in 1 .. Len(a) : (a \o m)[i] = a[i] /\ a[i] \in X
             /\ \A i \in 1 .. Len(m) : (a \o m)[Len(a) + i] = m[i] /\ m[i] \in Y
  <2>1. a \in Seq(D) /\ m \in Seq(D)
    OBVIOUS
  <2>2. /\ \A i \in 1 .. Len(a) : a[i] \in X
        /\ \A i \in 1 .. Len(m) : m[i] \in Y
    OBVIOUS
  <2> HIDE DEF D
  <2>3. /\ a \o m \in Seq(D) /\ Len(a \o m) = Len(a) + Len(m)
        /\ \A i \in 1 .. Len(a) : (a \o m)[i] = a[i]
        /\ \A i \in 1 .. Len(m) : (a \o m)[Len(a) + i] = m[i]
    BY ONLY <2>1, ConcatElements
  <2> QED BY <2>2, <2>3
<1>2. ASSUME NEW a \in Seq(X), NEW b \in Seq(X), NEW m \in Seq(Y),
             NEW n \in Seq(Y), a \o m = b \o n
      PROVE  ~ (Len(a) < Len(b))
  <2> SUFFICES ASSUME Len(a) < Len(b) PROVE FALSE
    OBVIOUS
  <2> DEFINE i == Len(a) + 1
             s == a \o m
  <2>1. Len(a) \in Nat /\ Len(b) \in Nat /\ Len(m) \in Nat /\ Len(n) \in Nat
    OBVIOUS
  <2>2. Len(a) + Len(m) = Len(b) + Len(n)
    BY <1>1, <1>2
  <2>3. i \in 1 .. Len(b) /\ 1 \in 1 .. Len(m)
    BY <2>1, <2>2
  <2>4. s[Len(a) + 1] = m[1] /\ m[1] \in Y
    BY <1>1, <2>3
  <2>5. (b \o n)[i] = b[i] /\ b[i] \in X
    BY <1>1, <2>3
  <2> QED BY <1>2, <2>4, <2>5
<1>3. ASSUME NEW a \in Seq(X), NEW b \in Seq(X), NEW m \in Seq(Y),
             NEW n \in Seq(Y), a \o m = b \o n
      PROVE  a = b /\ m = n
  <2>1. Len(a) \in Nat /\ Len(b) \in Nat /\ Len(m) \in Nat /\ Len(n) \in Nat
    OBVIOUS
  <2>2. Len(a) = Len(b)
    <3>1. ~ (Len(a) < Len(b)) /\ ~ (Len(b) < Len(a))
      BY <1>2, <1>3
    <3> QED BY <2>1, <3>1
  <2>3. Len(m) = Len(n)
    <3>1. Len(a) + Len(m) = Len(b) + Len(n)
      BY <1>1, <1>3
    <3> QED BY <2>1, <2>2, <3>1
  <2>4. \A i \in 1 .. Len(a) : a[i] = b[i]
    <3> TAKE i \in 1 .. Len(a)
    <3>1. (a \o m)[i] = a[i]
      BY <1>1
    <3>2. (b \o n)[i] = b[i]
      BY <1>1, <2>2
    <3> QED BY <1>3, <3>1, <3>2
  <2>5. \A i \in 1 .. Len(m) : m[i] = n[i]
    <3> TAKE i \in 1 .. Len(m)
    <3>1. (a \o m)[Len(a) + i] = m[i]
      BY <1>1
    <3>2. (b \o n)[Len(b) + i] = n[i]
      BY <1>1, <2>3
    <3> QED BY <1>3, <2>2, <3>1, <3>2
  <2>6. a \in Seq(X) /\ b \in Seq(X) /\ m \in Seq(Y) /\ n \in Seq(Y)
    OBVIOUS
  <2>7. a = b
    BY ONLY <2>2, <2>4, <2>6, SameElements
  <2>8. m = n
    BY ONLY <2>3, <2>5, <2>6, SameElements
  <2> QED BY <2>7, <2>8
<1> QED BY <1>3

(* Capitals that fold to the same are the same.                            *)
LEMMA SameStem ==
  ASSUME NEW P \in SUBSET DOMAIN CodePoint, SimpleScript(P),
         NEW a \in Stems(P), NEW b \in Stems(P),
         Folded(P, a) = Folded(P, b), ~ Caseless(a), ~ Caseless(b)
  PROVE  a = b
<1> DEFINE B == BasesOf(P)
           N == NormalsOf(P)
           F == FoldedOf(P)
<1>1. ASSUME NEW s \in Stems(P), ~ Caseless(s)
      PROVE  /\ \E c \in N : /\ s = <<c>> /\ CodePoint[c].upper
                             /\ Folded(P, s) = CodePoint[c].folded
  <2>1. s \in Seq(B) /\ Len(s) <= 1
    BY <1>1 DEF Stems
  <2>2. PICK i \in 1 .. Len(s) : CodePoint[s[i]].upper
    BY <1>1 DEF Caseless
  <2> DEFINE c == s[1]
  <2> HIDE DEF B, c
  <2>9. i = 1 /\ Len(s) = 1
    <3>1. Len(s) \in Nat /\ Len(s) <= 1 /\ i \in 1 .. Len(s)
      BY <2>1, <2>2
    <3> QED BY ONLY <3>1
  <2>10. s[1] \in B
    BY ONLY <2>1, <2>9
  <2> USE DEF c
  <2>3. i = 1 /\ Len(s) = 1 /\ c \in B
    BY <2>9, <2>10
  <2>4. s = <<c>>
    BY <2>1, <2>3
  <2>5. CodePoint[c].upper
    BY <2>2, <2>3
  <2>6. c \in N /\ CodePoint[c].folded \in Seq(NoMarks)
    BY <2>3, SimpleParts DEF B
  <2>7. F[c] = CodePoint[c].folded
    BY <2>6 DEF FoldedOf
  <2> HIDE DEF c, N
  <2>8. Folded(P, s) = CodePoint[c].folded
    <3> DEFINE g == [d \in {c} |-> CodePoint[c].folded]
               W == NoMarks
               D == {c}
    <3>1. g \in [D -> Seq(W)] /\ \A d \in D : g[d] = F[d]
      BY <2>6, <2>7
    <3>2. <<>> \in Seq(D) /\ c \in D /\ s = Append(<<>>, c) /\ s \in Seq(D)
      BY <2>4
    <3>7. \A d \in D : g[d] = F[d]
      BY <3>1
    <3> HIDE DEF g, W, D, F
    <3>3. \A r \in Seq(D) : Spelled(g, r) = Spelled(F, r)
      BY ONLY <3>7, SpelledAlike
    <3>4. \A r \in Seq(D), d \in D :
            Spelled(g, Append(r, d)) = Spelled(g, r) \o g[d]
      BY ONLY <3>1, SpelledAppend, SMTT(60)
    <3>5. Spelled(F, s) = <<>> \o F[c]
      BY <3>1, <3>2, <3>3, <3>4, SpelledEmpty
    <3>6. <<>> \o F[c] = F[c]
      <4>1. F[c] \in Seq(W)
        BY <2>6, <2>7 DEF W
      <4> QED BY ONLY <4>1
    <3> QED BY <2>7, <3>5, <3>6 DEF Folded, F
  <2> QED BY <2>4, <2>5, <2>6, <2>8
<1>2. PICK c \in N : /\ a = <<c>> /\ CodePoint[c].upper
                     /\ Folded(P, a) = CodePoint[c].folded
  BY <1>1
<1>3. PICK d \in N : /\ b = <<d>> /\ CodePoint[d].upper
                     /\ Folded(P, b) = CodePoint[d].folded
  BY <1>1
<1>4. c = d
  BY <1>2, <1>3, SimpleParts
<1> QED BY <1>2, <1>3, <1>4

(* Sequences over X and over Y can be told apart when they are joined.     *)
Splits(X, Y) ==
  \A a, b \in Seq(X), m, n \in Seq(Y) : a \o m = b \o n => a = b /\ m = n

(* SplitOnce as one fact of X and Y.                                       *)
LEMMA DisjointSplit == \A X, Y : X \cap Y = {} => Splits(X, Y)
<1> SUFFICES ASSUME NEW X, NEW Y, X \cap Y = {} PROVE Splits(X, Y)
  OBVIOUS
<1>1. \A a, b \in Seq(X), m, n \in Seq(Y) :
        a \o m = b \o n => a = b /\ m = n
  BY SplitOnce
<1> QED BY ONLY <1>1 DEF Splits

(* The parts of sequences that are the same when joined.                   *)
LEMMA SplitParts ==
  \A X, Y, a, b, m, n :
    /\ Splits(X, Y) /\ a \in Seq(X) /\ b \in Seq(X)
    /\ m \in Seq(Y) /\ n \in Seq(Y) /\ a \o m = b \o n
    => a = b /\ m = n
BY ZenonT(60) DEF Splits

(* The base of a character has no marks.                                   *)
LEMMA FoldedType ==
  ASSUME NEW P \in SUBSET DOMAIN CodePoint, SimpleScript(P),
         NEW b \in Stems(P)
  PROVE  Folded(P, b) \in Seq(NoMarks)
<1> DEFINE B == BasesOf(P)
           F == FoldedOf(P)
           g == [c \in B |-> CodePoint[c].folded]
           W == NoMarks
<1>1. b \in Seq(B)
  BY DEF Stems
<1>2. /\ \A c \in B : CodePoint[c].folded \in Seq(W)
      /\ \A c \in B : c \in NormalsOf(P)
  BY SimpleParts
<1>3. g \in [B -> Seq(W)]
  BY <1>2
<1>4. \A c \in B : g[c] = F[c]
  BY <1>2 DEF FoldedOf
<1> HIDE DEF B, F, g, W
<1>5. \A s \in Seq(B) : Spelled(g, s) \in Seq(W)
  BY ONLY <1>3, SpelledAppend
<1>6. \A s \in Seq(B) : Spelled(g, s) = Spelled(F, s)
  BY ONLY <1>4, SpelledAlike
<1>7. Spelled(F, b) \in Seq(W)
  BY <1>1, <1>5, <1>6
<1> QED BY <1>7 DEF Folded, F, W

(* Character.h:87-91: how characters of a simple script match.             *)
LEMMA MadeMatches ==
  ASSUME NEW P \in SUBSET DOMAIN CodePoint, SimpleScript(P),
         NEW q, NEW a, NEW m, MadeOf(P, q, a, m),
         NEW c, NEW b, NEW n, MadeOf(P, c, b, n)
  PROVE  MatchesSmart(q, c) <=> /\ q.base = c.base
                                /\ q.upper => c.upper
                                /\ Marks(q) # <<>> => Marks(q) = Marks(c)
<1> DEFINE A == Folded(P, a)
           B == Folded(P, b)
           M == MarksOf(P)
<1>1. /\ a \in Stems(P) /\ m \in Seq(M) /\ b \in Stems(P) /\ n \in Seq(M)
      /\ q.normal = a \o m /\ q.folded = A \o m /\ q.base = A
      /\ c.normal = b \o n /\ c.folded = B \o n /\ c.base = B
      /\ (q.isBase <=> m = <<>>) /\ (q.upper <=> ~ Caseless(a))
      /\ (c.upper <=> ~ Caseless(b)) /\ Marks(q) = m /\ Marks(c) = n
  BY DEF MadeOf
<1>2. A \in Seq(NoMarks) /\ B \in Seq(NoMarks)
  BY <1>1, FoldedType
<1>3. a \in Seq(BasesOf(P)) /\ b \in Seq(BasesOf(P))
  BY <1>1 DEF Stems
<1>4. A \o m = B \o n => A = B /\ m = n
  <2>1. NoMarks \cap M = {}
    BY DEF NoMarks, MarksOf
  <2> HIDE DEF A, B, M
  <2>2. Splits(NoMarks, M)
    BY ONLY <2>1, DisjointSplit
  <2>3. A \in Seq(NoMarks) /\ B \in Seq(NoMarks) /\ m \in Seq(M) /\ n \in Seq(M)
    BY <1>1, <1>2
  <2> QED BY ONLY <2>2, <2>3, SplitParts, Zenon
<1>5. a \o m = b \o n => a = b /\ m = n
  <2>1. BasesOf(P) \cap M = {}
    BY DEF BasesOf, MarksOf
  <2> HIDE DEF A, B, M
  <2>2. Splits(BasesOf(P), M)
    BY ONLY <2>1, DisjointSplit
  <2> DEFINE X == BasesOf(P)
  <2>3. a \in Seq(X) /\ b \in Seq(X) /\ m \in Seq(M) /\ n \in Seq(M)
    BY <1>1, <1>3
  <2> HIDE DEF X
  <2> QED BY ONLY <2>2, <2>3, SplitParts, Zenon DEF X
<1>6. A = B /\ ~ Caseless(a) /\ ~ Caseless(b) => a = b
  BY <1>1, SameStem
<1>7. a = b => A = B /\ (Caseless(a) <=> Caseless(b))
  OBVIOUS
<1>8. MatchesSmart(q, c) <=>
        \/ m = <<>> /\ A = B /\ (Caseless(a) \/ ~ Caseless(b))
        \/ Caseless(a) /\ A \o m = B \o n
        \/ a \o m = b \o n
  <2> HIDE DEF A, B, M
  <2> QED BY <1>1 DEF MatchesSmart, EqualsBase, EqualsIgnoreCase
<1>9. A = B /\ m = n => A \o m = B \o n
  OBVIOUS
<1>10. a = b /\ m = n => a \o m = b \o n
  OBVIOUS
<1>11. MatchesSmart(q, c) <=> /\ A = B
                              /\ ~ Caseless(a) => ~ Caseless(b)
                              /\ m # <<>> => m = n
  <2> HIDE DEF A, B, M
  <2> QED BY ONLY <1>4, <1>5, <1>6, <1>7, <1>8, <1>9, <1>10
<1> HIDE DEF A, B, M
<1> QED BY <1>1, <1>11

(* Every character of a text is one of a cluster.                          *)
LEMMA CharactersOfClusters ==
  ASSUME NEW P \in SUBSET DOMAIN CodePoint, SimpleScript(P), NEW t \in Seq(P)
  PROVE  \A k \in ToSet(Characters(t)) : \E b, y : MadeOf(P, k, b, y)
<1> DEFINE s == BreakCodePointsIntoCharacters(t)
<1>1. s \in Seq(Clusters(P))
  BY TextIsOfClusters
<1>2. Characters(t) = [i \in DOMAIN s |-> NewCharacter(s[i])]
  BY DEF Characters, ForEach
<1> HIDE DEF s
<1> TAKE k \in ToSet(Characters(t))
<1>3. PICK i \in DOMAIN s : k = NewCharacter(s[i])
  BY <1>2 DEF ToSet
<1>4. s[i] \in Clusters(P)
  BY <1>1
<1> QED BY <1>3, <1>4, CharacterOfCluster

(* Character.h:87-91: in a simple script a character always matches those  *)
(* of its base, capitals only if it is one, and only those of its own      *)
(* marks if it has any, whatever is typed and whatever the candidates are. *)
THEOREM MatchingIsSmart ==
  ASSUME NEW P \in SUBSET DOMAIN CodePoint, SimpleScript(P),
         Texts \in Seq(Seq(P))
  PROVE  Spec => [](text \in Seq(P) => SmartMatching)
<1>1. ASSUME NEW k \in CandidateCharacters
      PROVE  \E b, y : MadeOf(P, k, b, y)
  <2>1. PICK candidate \in ToSet(Candidates) : k \in ToSet(candidate.characters)
    BY DEF CandidateCharacters
  <2>2. PICK i \in DOMAIN Texts : candidate = NewCandidate(Texts[i])
    BY <2>1 DEF ToSet, Candidates, ForEach
  <2>3. candidate.characters = Characters(Texts[i])
    BY <2>2 DEF NewCandidate, CandidateOf, NewWord, WordOf
  <2>4. Texts[i] \in Seq(P)
    OBVIOUS
  <2> QED BY <2>1, <2>3, <2>4, CharactersOfClusters
<1>2. text \in Seq(P) => SmartMatching
  <2> SUFFICES ASSUME text \in Seq(P),
                      NEW q \in ToSet(Characters(text)),
                      NEW c \in CandidateCharacters
               PROVE  MatchesSmart(q, c) <=>
                        /\ q.base = c.base
                        /\ q.upper => c.upper
                        /\ Marks(q) # <<>> => Marks(q) = Marks(c)
    BY DEF SmartMatching
  <2>1. PICK a, m : MadeOf(P, q, a, m)
    BY CharactersOfClusters
  <2>2. PICK b, n : MadeOf(P, c, b, n)
    BY <1>1
  <2> QED BY <2>1, <2>2, MadeMatches
<1> QED BY <1>2, PTL

-----------------------------------------------------------------------------
(* All that decides how a text goes on, in four flags and one link.        *)

(* How a code point joins the next one.                                    *)
Link(d) ==
  CASE CodePoint[d].break \in {"LV", "V"}  -> "V"
    [] CodePoint[d].break \in {"LVT", "T"} -> "T"
    [] CodePoint[d].break \in {"CR", "LF", "CONTROL", "L", "ZWJ", "PREPEND"} ->
         CodePoint[d].break
    [] OTHER -> "OTHER"

(* What is read ends with: an emoji and marks and perhaps a joiner, an odd *)
(* regional indicator, a consonant and what goes on with it, or such with  *)
(* a linker.                                                               *)
Pending(d, w) == CodePoint[d].break = "EXTPICT" \/ w.emoji

Alone(d, w) == CodePoint[d].break = "REGIONAL_INDICATOR" /\ ~ w.odd

Open(d, w) == CodePoint[d].indic = "CONSONANT" \/ w.within

Linked(d, w) ==
  IF CodePoint[d].indic = "LINKER" THEN w.within ELSE w.seen

(* What the flags may be after d.                                          *)
Sane(d, w) ==
  /\ w \in Broken
  /\ w.emoji => CodePoint[d].break \in {"EXTEND", "ZWJ"}
  /\ w.odd => CodePoint[d].break = "REGIONAL_INDICATOR"
  /\ w.within => CodePoint[d].indic \in {"EXTEND", "LINKER"}
  /\ w.seen => w.within

(* c goes on with the last character of what ends in this way.             *)
GoesOn(link, pending, alone, linked, c) ==
  \/ link = "CR" /\ CodePoint[c].break = "LF"
  \/ /\ link \notin Controls /\ CodePoint[c].break \notin Controls
     /\ \/ CodePoint[c].break \in Extending \/ link = "PREPEND"
        \/ link = "L" /\ CodePoint[c].break \in {"L", "V", "LV", "LVT"}
        \/ link = "V" /\ CodePoint[c].break \in {"V", "T"}
        \/ link = "T" /\ CodePoint[c].break = "T"
        \/ link = "ZWJ" /\ CodePoint[c].break = "EXTPICT" /\ pending
        \/ alone /\ CodePoint[c].break = "REGIONAL_INDICATOR"
        \/ linked /\ CodePoint[c].indic = "CONSONANT"

(* The flags after one code point more.                                    *)
LEMMA SaneTurn ==
  ASSUME NEW d \in DOMAIN CodePoint, NEW c \in DOMAIN CodePoint, NEW w,
         Sane(d, w), ~ (Link(d) = "ZWJ" /\ CodePoint[c].break \in Extending)
  PROVE  LET v == ReadCodePoint(w, d, c)
         IN  /\ Sane(c, v)
             /\ Pending(c, v) <=>
                  \/ CodePoint[c].break = "EXTPICT"
                  \/ CodePoint[c].break \in {"EXTEND", "ZWJ"} /\ Pending(d, w)
             /\ Alone(c, v) <=>
                  CodePoint[c].break = "REGIONAL_INDICATOR" /\ ~ Alone(d, w)
             /\ Open(c, v) <=>
                  \/ CodePoint[c].indic = "CONSONANT"
                  \/ CodePoint[c].indic \in {"EXTEND", "LINKER"} /\ Open(d, w)
             /\ Linked(c, v) <=>
                  /\ CodePoint[c].indic \in {"EXTEND", "LINKER"}
                  /\ \/ Linked(d, w)
                     \/ CodePoint[c].indic = "LINKER" /\ Open(d, w)
<1> DEFINE b == CodePoint[d].break
           e == CodePoint[c].break
           p == CodePoint[d].indic
           q == CodePoint[c].indic
           v == ReadCodePoint(w, d, c)
           g == GraphemeBreakAllowed(b, e, w)
           i == IndicConjunctBreakAllowed(p, q, w)
<1>1. /\ v.emoji = g.emoji /\ v.odd = g.odd
      /\ v.within = i.within /\ v.seen = i.seen
  BY DEF ReadCodePoint, Extend
<1>2. /\ w.emoji \in BOOLEAN /\ w.odd \in BOOLEAN
      /\ w.within \in BOOLEAN /\ w.seen \in BOOLEAN
  BY DEF Broken, Sane
<1>3. /\ w.emoji => b \in {"EXTEND", "ZWJ"}
      /\ w.odd => b = "REGIONAL_INDICATOR"
      /\ w.within => p \in {"EXTEND", "LINKER"}
      /\ w.seen => w.within
  BY DEF Sane
<1>4. w \in Broken /\ v \in Broken
  BY ReadCodePointType DEF Sane
<1>5. ~ (b = "ZWJ" /\ e \in {"EXTEND", "ZWJ", "SPACINGMARK"})
  BY DEF Link, Extending
<1> HIDE DEF b, e, p, q, v
<1>6. g.emoji <=> e \in {"EXTEND", "ZWJ"} /\ (b = "EXTPICT" \/ w.emoji)
  <2>1. g.emoji = CASE b = "EXTEND"  -> w.emoji /\ e \in {"EXTEND", "ZWJ"}
                    [] b = "ZWJ"     -> w.emoji /\ e \in Extending
                    [] b = "EXTPICT" -> w.emoji \/ e \in {"EXTEND", "ZWJ"}
                    [] OTHER         -> w.emoji
    BY DEF GraphemeBreakAllowed
  <2> HIDE DEF g
  <2>2. CASE b = "EXTEND"
    <3>1. g.emoji = (w.emoji /\ e \in {"EXTEND", "ZWJ"})
      BY <2>1, <2>2
    <3> QED BY <1>2, <2>2, <3>1
  <2>3. CASE b = "ZWJ"
    <3>1. g.emoji = (w.emoji /\ e \in Extending)
      BY <2>1, <2>3
    <3> QED BY <1>5, <2>3, <3>1 DEF Extending
  <2>4. CASE b = "EXTPICT"
    <3>1. g.emoji = (w.emoji \/ e \in {"EXTEND", "ZWJ"})
      BY <2>1, <2>4
    <3>2. w.emoji = FALSE
      BY <1>2, <1>3, <2>4
    <3> QED BY <2>4, <3>1, <3>2
  <2>5. CASE b \notin {"EXTEND", "ZWJ", "EXTPICT"}
    <3>1. g.emoji = w.emoji /\ w.emoji = FALSE
      BY <1>2, <1>3, <2>1, <2>5
    <3> QED BY <2>5, <3>1
  <2> QED BY <2>2, <2>3, <2>4, <2>5
<1>7. g.odd <=> /\ e = "REGIONAL_INDICATOR" /\ b = "REGIONAL_INDICATOR"
                /\ ~ w.odd
  <2>1. CASE b = "REGIONAL_INDICATOR"
    BY <1>2, <2>1 DEF GraphemeBreakAllowed
  <2>2. CASE b # "REGIONAL_INDICATOR"
    BY <1>2, <1>3, <2>2 DEF GraphemeBreakAllowed
  <2> QED BY <2>1, <2>2
<1>8. i.within <=> q \in {"EXTEND", "LINKER"} /\ (p = "CONSONANT" \/ w.within)
  <2>1. CASE p = "None"
    BY <1>3, <2>1 DEF IndicConjunctBreakAllowed
  <2>2. CASE p # "None"
    BY <2>2 DEF IndicConjunctBreakAllowed
  <2> QED BY <2>1, <2>2
<1>9. i.seen <=> /\ q \in {"EXTEND", "LINKER"}
                 /\ IF p = "LINKER" THEN w.within ELSE w.seen
  <2>1. CASE p = "None"
    BY <1>3, <2>1 DEF IndicConjunctBreakAllowed
  <2>2. CASE p = "CONSONANT"
    BY <1>3, <2>2 DEF IndicConjunctBreakAllowed
  <2>3. CASE p = "LINKER"
    BY <2>3 DEF IndicConjunctBreakAllowed
  <2>4. CASE p \notin {"None", "CONSONANT", "LINKER"}
    BY <2>4 DEF IndicConjunctBreakAllowed
  <2> QED BY <2>1, <2>2, <2>3, <2>4
<1> HIDE DEF g, i
<1>10. Sane(c, v)
  <2>1. v.emoji => e \in {"EXTEND", "ZWJ"}
    BY <1>1, <1>6
  <2>2. v.odd => e = "REGIONAL_INDICATOR"
    BY <1>1, <1>7
  <2>3. v.within => q \in {"EXTEND", "LINKER"}
    BY <1>1, <1>8
  <2>4. v.seen => v.within
    BY <1>1, <1>3, <1>8, <1>9
  <2> QED BY <1>4, <2>1, <2>2, <2>3, <2>4 DEF Sane, e, q
<1>11. /\ Pending(c, v) <=>
            \/ e = "EXTPICT"
            \/ e \in {"EXTEND", "ZWJ"} /\ Pending(d, w)
       /\ Alone(c, v) <=> e = "REGIONAL_INDICATOR" /\ ~ Alone(d, w)
  BY <1>1, <1>3, <1>6, <1>7 DEF Pending, Alone, b, e
<1>12. Open(c, v) <=> \/ q = "CONSONANT"
                      \/ q \in {"EXTEND", "LINKER"} /\ Open(d, w)
  BY <1>1, <1>8 DEF Open, p, q
<1>13. Linked(c, v) <=> /\ q \in {"EXTEND", "LINKER"}
                        /\ Linked(d, w) \/ (q = "LINKER" /\ Open(d, w))
  <2>1. Linked(d, w) => w.within
    BY <1>3 DEF Linked
  <2>2. CASE q = "LINKER"
    <3>1. Linked(c, v) <=> v.within
      BY <2>2 DEF Linked, q
    <3> QED BY <1>1, <1>8, <2>1, <2>2, <3>1 DEF Open, p
  <2>3. CASE q # "LINKER"
    <3>1. Linked(c, v) <=> v.seen
      BY <2>3 DEF Linked, q
    <3> QED BY <1>1, <1>9, <2>3, <3>1 DEF Linked, p
  <2> QED BY <2>2, <2>3
<1> QED BY <1>10, <1>11, <1>12, <1>13 DEF e, q, v

(* A character goes on where one of the two state machines allows no break.*)
LEMMA GoesOnAsRead ==
  ASSUME NEW d \in DOMAIN CodePoint, NEW c \in DOMAIN CodePoint, NEW w,
         Sane(d, w)
  PROVE  (/\ GraphemeBreakAllowed(CodePoint[d].break, CodePoint[c].break, w)
               .allowed
          /\ IndicConjunctBreakAllowed(CodePoint[d].indic, CodePoint[c].indic,
                                       w).allowed)
         <=> ~ GoesOn(Link(d), Pending(d, w), Alone(d, w), Linked(d, w), c)
<1> DEFINE b == CodePoint[d].break
           e == CodePoint[c].break
           p == CodePoint[d].indic
           q == CodePoint[c].indic
           g == GraphemeBreakAllowed(b, e, w)
           i == IndicConjunctBreakAllowed(p, q, w)
           E == {"EXTEND", "LINKER"}
           H == \/ b = "L" /\ e \in {"L", "V", "LV", "LVT"}
                \/ b \in {"LV", "V"} /\ e \in {"V", "T"}
                \/ b \in {"LVT", "T"} /\ e = "T"
           J == b = "ZWJ" /\ e = "EXTPICT" /\ w.emoji
           O == e \in Extending \/ b = "PREPEND"
           R == b = "REGIONAL_INDICATOR" /\ e = b /\ ~ w.odd
           D == b \notin Controls /\ e \notin Controls
           I == q \in E /\ (p = "CONSONANT" \/ w.within)
           K == q = "CONSONANT" /\ Linked(d, w)
<1>1. /\ w.emoji \in BOOLEAN /\ w.odd \in BOOLEAN
      /\ w.within \in BOOLEAN /\ w.seen \in BOOLEAN
  BY DEF Broken, Sane
<1>2. /\ w.emoji => b \in {"EXTEND", "ZWJ"}
      /\ w.odd => b = "REGIONAL_INDICATOR"
      /\ w.within => p \in E
      /\ w.seen => w.within
  BY DEF Sane
<1>3. /\ p \in E => b \in Extending
      /\ p = "CONSONANT" => b = "OTHER"
      /\ q \in E => e \in Extending
      /\ q = "CONSONANT" => e = "OTHER"
  BY PropertyAssumption
<1>4. GoesOn(Link(d), Pending(d, w), Alone(d, w), Linked(d, w), c) <=>
        \/ b = "CR" /\ e = "LF"
        \/ D /\ (H \/ K \/ J \/ O \/ R)
  <2> DEFINE k == Link(d)
  <2>1. k = CASE b \in {"LV", "V"}  -> "V"
              [] b \in {"LVT", "T"} -> "T"
              [] b \in {"CR", "LF", "CONTROL", "L", "ZWJ", "PREPEND"} -> b
              [] OTHER -> "OTHER"
    BY DEF Link
  <2> HIDE DEF b, e, p, q, k
  <2>2. /\ k = "CR" <=> b = "CR"
        /\ k \in Controls <=> b \in Controls
        /\ k = "PREPEND" <=> b = "PREPEND"
        /\ k = "L" <=> b = "L"
        /\ k = "V" <=> b \in {"LV", "V"}
        /\ k = "T" <=> b \in {"LVT", "T"}
        /\ k = "ZWJ" <=> b = "ZWJ"
    BY <2>1 DEF Controls
  <2>3. GoesOn(k, Pending(d, w), Alone(d, w), Linked(d, w), c) <=>
          \/ b = "CR" /\ e = "LF"
          \/ /\ b \notin Controls /\ e \notin Controls
             /\ \/ e \in Extending \/ b = "PREPEND"
                \/ b = "L" /\ e \in {"L", "V", "LV", "LVT"}
                \/ b \in {"LV", "V"} /\ e \in {"V", "T"}
                \/ b \in {"LVT", "T"} /\ e = "T"
                \/ b = "ZWJ" /\ e = "EXTPICT" /\ Pending(d, w)
                \/ Alone(d, w) /\ e = "REGIONAL_INDICATOR"
                \/ Linked(d, w) /\ q = "CONSONANT"
    BY <2>2 DEF GoesOn, e, q
  <2>4. b = "ZWJ" => (Pending(d, w) <=> w.emoji)
    BY DEF Pending, b
  <2>5. Alone(d, w) <=> b = "REGIONAL_INDICATOR" /\ ~ w.odd
    BY DEF Alone, b
  <2> QED BY <2>3, <2>4, <2>5 DEF k
<1> HIDE DEF b, e, p, q
<1>5. i.allowed <=> ~ (I \/ K)
  <2>1. CASE p = "None"
    <3>1. ~ w.within /\ ~ w.seen /\ ~ Linked(d, w)
      BY <1>2, <2>1 DEF Linked, p
    <3> QED BY <2>1, <3>1 DEF IndicConjunctBreakAllowed
  <2>2. CASE p = "CONSONANT"
    <3>1. ~ w.within /\ ~ w.seen /\ ~ Linked(d, w)
      BY <1>2, <2>2 DEF Linked, p
    <3> QED BY <2>2, <3>1 DEF IndicConjunctBreakAllowed
  <2>3. CASE p \notin {"None", "CONSONANT"}
    <3>1. i.allowed <=> /\ ~ (q \in E /\ w.within)
                        /\ ~ (/\ q = "CONSONANT"
                              /\ IF p = "EXTEND" THEN w.seen ELSE w.within)
      BY <1>1, <2>3 DEF IndicConjunctBreakAllowed
    <3>2. Linked(d, w) <=> IF p = "EXTEND" THEN w.seen ELSE w.within
      BY <1>2, <2>3 DEF Linked, p
    <3> HIDE DEF i
    <3> QED BY <2>3, <3>1, <3>2
  <2> QED BY <2>1, <2>2, <2>3
<1>6. g.allowed <=> ~ \/ b = "CR" /\ e = "LF"
                      \/ D /\ (H \/ J \/ O \/ R)
  <2>1. g.allowed <=> IF b = "PREPEND" THEN e \in Controls
                      ELSE e \notin Joined(b, w)
    BY DEF GraphemeBreakAllowed
  <2>2. CASE b = "PREPEND"
    BY <2>1, <2>2 DEF Controls
  <2>3. CASE b # "PREPEND"
    BY <1>1, <1>2, <2>1, <2>3 DEF Joined, Controls, Extending
  <2> QED BY <2>2, <2>3
<1>7. \A x \in Extending \cup {"OTHER"} : x \notin Controls
  BY DEF Extending, Controls
<1>8. I => O /\ D
  BY <1>2, <1>3, <1>7
<1>9. K => D
  <2>1. Linked(d, w) => p \in E
    BY <1>2 DEF Linked
  <2> QED BY <1>3, <1>7, <2>1
<1> HIDE DEF D, H, J, O, I, K, R, g, i
<1>10. (g.allowed /\ i.allowed) <=>
         ~ ((b = "CR" /\ e = "LF") \/ (D /\ (H \/ K \/ J \/ O \/ R)))
  BY <1>5, <1>6, <1>8, <1>9
<1> QED BY <1>4, <1>10 DEF g, i, b, e, p, q

-----------------------------------------------------------------------------
(* The same of texts: how a text ends, and what its characters are.        *)

LinkOf(t) == IF t = <<>> THEN "CONTROL" ELSE Link(t[Len(t)])

PendingOf(t) == t # <<>> /\ Pending(t[Len(t)], ReadCodePoints(t))

AloneOf(t) == t # <<>> /\ Alone(t[Len(t)], ReadCodePoints(t))

OpenOf(t) == t # <<>> /\ Open(t[Len(t)], ReadCodePoints(t))

LinkedOf(t) == t # <<>> /\ Linked(t[Len(t)], ReadCodePoints(t))

CharsOf(t) == BreakCodePointsIntoCharacters(t)

Sound(t) ==
  /\ t \in Seq(DOMAIN CodePoint)
  /\ t # <<>> => Sane(t[Len(t)], ReadCodePoints(t)) /\ CharsOf(t) # <<>>
  /\ t = <<>> => CharsOf(t) = <<>>

(* The last of the sequences x with s behind it.                           *)
Longer(x, s) == [x EXCEPT ![Len(x)] = @ \o s]

(* c goes on with the last character of t.                                 *)
GoesOnIn(t, c) == GoesOn(LinkOf(t), PendingOf(t), AloneOf(t), LinkedOf(t), c)

(* A mark that follows a joiner is left out.                               *)
MayFollow(t, c) == ~ (LinkOf(t) = "ZWJ" /\ CodePoint[c].break \in Extending)

(* How a text ends after one code point more, from how it ended before.    *)
EndsAfter(u, t, c) ==
  /\ LinkOf(u) = Link(c)
  /\ PendingOf(u) <=>
       \/ CodePoint[c].break = "EXTPICT"
       \/ CodePoint[c].break \in {"EXTEND", "ZWJ"} /\ PendingOf(t)
  /\ AloneOf(u) <=> CodePoint[c].break = "REGIONAL_INDICATOR" /\ ~ AloneOf(t)
  /\ OpenOf(u) <=>
       \/ CodePoint[c].indic = "CONSONANT"
       \/ CodePoint[c].indic \in {"EXTEND", "LINKER"} /\ OpenOf(t)
  /\ LinkedOf(u) <=>
       /\ CodePoint[c].indic \in {"EXTEND", "LINKER"}
       /\ LinkedOf(t) \/ (CodePoint[c].indic = "LINKER" /\ OpenOf(t))

(* One code point more.                                                    *)
LEMMA TextTurn ==
  ASSUME NEW t, Sound(t), NEW c \in DOMAIN CodePoint, MayFollow(t, c)
  PROVE  /\ Sound(Append(t, c)) /\ Append(t, c) # <<>>
         /\ EndsAfter(Append(t, c), t, c)
         /\ CharsOf(Append(t, c)) =
              IF GoesOnIn(t, c) THEN Longer(CharsOf(t), CodePoint[c].normal)
              ELSE Append(CharsOf(t), CodePoint[c].normal)
<1> DEFINE u == Append(t, c)
           w == ReadCodePoints(t)
           v == ReadCodePoints(u)
           d == t[Len(t)]
           x == CodePoint[c].normal
<1>1. /\ t \in Seq(DOMAIN CodePoint) /\ u \in Seq(DOMAIN CodePoint)
      /\ u # <<>> /\ u[Len(u)] = c
  <2>1. t \in Seq(DOMAIN CodePoint)
    BY DEF Sound
  <2> QED BY ONLY <2>1, c \in DOMAIN CodePoint, AppendProperties
<1>2. v = IF t = <<>> THEN FirstCodePoint(c) ELSE ReadCodePoint(w, d, c)
  BY <1>1, ReadAppend
<1>3. v \in Broken /\ w \in Broken
  BY <1>1, BreakType
<1>4. CharsOf(t) = w.characters /\ CharsOf(u) = v.characters
  BY DEF CharsOf, BreakCodePointsIntoCharacters
<1>5. LinkOf(u) = Link(c)
  BY <1>1 DEF LinkOf
<1>6. /\ PendingOf(u) <=> Pending(c, v)
      /\ AloneOf(u) <=> Alone(c, v)
      /\ OpenOf(u) <=> Open(c, v)
      /\ LinkedOf(u) <=> Linked(c, v)
  BY <1>1 DEF PendingOf, AloneOf, OpenOf, LinkedOf
<1>7. x \in Seq(NormalCodePoints)
  BY CodePointAssumption
<1>8. CASE t = <<>>
  <2>1. v = [characters |-> <<x>>, emoji |-> FALSE, odd |-> FALSE,
             within |-> FALSE, seen |-> FALSE]
    BY <1>2, <1>8 DEF FirstCodePoint, NoWord
  <2>2. CharsOf(t) = <<>>
    BY <1>8 DEF Sound
  <2> HIDE DEF u, v, x
  <2>3. CharsOf(u) = Append(CharsOf(t), x) /\ CharsOf(u) # <<>>
    BY <1>4, <2>1, <2>2
  <2>4. /\ LinkOf(t) = "CONTROL" /\ ~ PendingOf(t) /\ ~ AloneOf(t)
        /\ ~ OpenOf(t) /\ ~ LinkedOf(t)
    BY <1>8 DEF LinkOf, PendingOf, AloneOf, OpenOf, LinkedOf
  <2>5. ~ GoesOnIn(t, c)
    BY <2>4 DEF GoesOnIn, GoesOn, Controls
  <2>6. Sane(c, v)
    BY <1>3, <2>1 DEF Sane
  <2>7. /\ Pending(c, v) <=> CodePoint[c].break = "EXTPICT"
        /\ Alone(c, v) <=> CodePoint[c].break = "REGIONAL_INDICATOR"
        /\ Open(c, v) <=> CodePoint[c].indic = "CONSONANT"
        /\ ~ Linked(c, v)
    BY <2>1 DEF Pending, Alone, Open, Linked
  <2>8. EndsAfter(u, t, c)
    BY <1>5, <1>6, <2>4, <2>7 DEF EndsAfter
  <2>9. Sound(u)
    BY <1>1, <2>3, <2>6 DEF Sound, v
  <2> QED BY <1>1, <2>3, <2>5, <2>8, <2>9 DEF u, x
<1>9. CASE t # <<>>
  <2>1. Sane(d, w) /\ CharsOf(t) # <<>> /\ d \in DOMAIN CodePoint
    <3>1. t[Len(t)] \in DOMAIN CodePoint
      BY <1>1, <1>9
    <3> QED BY <1>9, <3>1 DEF Sound
  <2>2. /\ LinkOf(t) = Link(d) /\ (PendingOf(t) <=> Pending(d, w))
        /\ AloneOf(t) <=> Alone(d, w)
        /\ OpenOf(t) <=> Open(d, w)
        /\ LinkedOf(t) <=> Linked(d, w)
    BY <1>9 DEF LinkOf, PendingOf, AloneOf, OpenOf, LinkedOf
  <2>3. v = ReadCodePoint(w, d, c)
    BY <1>2, <1>9
  <2>4. ~ (Link(d) = "ZWJ" /\ CodePoint[c].break \in Extending)
    BY <2>2 DEF MayFollow
  <2> HIDE DEF u, v, x, d, w
  <2>5. /\ Sane(c, v)
        /\ Pending(c, v) <=>
             \/ CodePoint[c].break = "EXTPICT"
             \/ CodePoint[c].break \in {"EXTEND", "ZWJ"} /\ Pending(d, w)
        /\ Alone(c, v) <=>
             CodePoint[c].break = "REGIONAL_INDICATOR" /\ ~ Alone(d, w)
        /\ Open(c, v) <=>
             \/ CodePoint[c].indic = "CONSONANT"
             \/ CodePoint[c].indic \in {"EXTEND", "LINKER"} /\ Open(d, w)
        /\ Linked(c, v) <=>
             /\ CodePoint[c].indic \in {"EXTEND", "LINKER"}
             /\ \/ Linked(d, w)
                \/ CodePoint[c].indic = "LINKER" /\ Open(d, w)
    BY <2>1, <2>3, <2>4, SaneTurn
  <2>6. EndsAfter(u, t, c)
    BY <1>5, <1>6, <2>2, <2>5 DEF EndsAfter
  <2>7. (/\ GraphemeBreakAllowed(CodePoint[d].break, CodePoint[c].break, w)
               .allowed
         /\ IndicConjunctBreakAllowed(CodePoint[d].indic, CodePoint[c].indic, w)
               .allowed) <=> ~ GoesOnIn(t, c)
    <3>1. GoesOnIn(t, c) <=>
            GoesOn(Link(d), Pending(d, w), Alone(d, w), Linked(d, w), c)
      BY <2>2 DEF GoesOnIn, GoesOn
    <3> QED BY <2>1, <3>1, GoesOnAsRead
  <2>8. v.characters = IF GoesOnIn(t, c) THEN Longer(w.characters, x)
                       ELSE Append(w.characters, x)
    BY <2>3, <2>7 DEF ReadCodePoint, Extend, Longer, x
  <2>9. CharsOf(u) # <<>>
    <3>1. w.characters \in Seq(Seq(NormalCodePoints)) /\ w.characters # <<>>
      BY <1>3, <1>4, <2>1 DEF Broken
    <3>2. Append(w.characters, x) # <<>>
      <4>1. x \in Seq(NormalCodePoints)
        BY <1>7 DEF x
      <4> QED BY ONLY <3>1, <4>1, AppendProperties
    <3>3. Longer(w.characters, x) # <<>>
      <4>1. Len(w.characters) \in DOMAIN w.characters
        BY <3>1
      <4>2. DOMAIN Longer(w.characters, x) = DOMAIN w.characters
        BY DEF Longer
      <4>3. DOMAIN <<>> = {}
        OBVIOUS
      <4> QED BY <4>1, <4>2, <4>3
    <3> QED BY <1>4, <2>8, <3>2, <3>3
  <2>10. Sound(u)
    BY <1>1, <2>5, <2>9 DEF Sound, v
  <2> QED BY <1>1, <1>4, <2>6, <2>8, <2>10 DEF u, x
<1> QED BY <1>8, <1>9

-----------------------------------------------------------------------------
(* Texts that go on alike.                                                 *)

SameEnd(t, u) ==
  /\ LinkOf(t) = LinkOf(u)
  /\ PendingOf(t) <=> PendingOf(u)
  /\ AloneOf(t) <=> AloneOf(u)
  /\ OpenOf(t) <=> OpenOf(u)
  /\ LinkedOf(t) <=> LinkedOf(u)

(* The same sequences once each is sorted.                                 *)
SameSorted(x, y) ==
  /\ Len(x) = Len(y)
  /\ \A i \in 1 .. Len(x) : CanonicalSort(x[i]) = CanonicalSort(y[i])

AlikeTexts(t, u) ==
  Sound(t) /\ Sound(u) /\ SameEnd(t, u) /\ SameSorted(CharsOf(t), CharsOf(u))

(* What is the same once it is sorted still is with s behind it.           *)
LEMMA SortBefore ==
  ASSUME NEW D, NEW x \in Seq(D), NEW y \in Seq(D),
         CanonicalSort(x) = CanonicalSort(y)
  PROVE  \A s \in Seq(D) : CanonicalSort(x \o s) = CanonicalSort(y \o s)
<1> DEFINE S == {s \in Seq(D) : CanonicalSort(x \o s) = CanonicalSort(y \o s)}
<1>1. x \o <<>> = x /\ y \o <<>> = y /\ <<>> \in Seq(D)
  OBVIOUS
<1>2. <<>> \in S
  BY <1>1
<1>3. ASSUME NEW s \in Seq(D), NEW c \in D, s \in S PROVE Append(s, c) \in S
  <2>1. /\ x \o s \in Seq(D) /\ y \o s \in Seq(D) /\ Append(s, c) \in Seq(D)
        /\ x \o Append(s, c) = Append(x \o s, c)
        /\ y \o Append(s, c) = Append(y \o s, c)
    OBVIOUS
  <2>2. \A r \in Seq(D), e \in D :
          CanonicalSort(Append(r, e)) = InsertByClass(CanonicalSort(r), e)
    BY SortAppend
  <2>3. CanonicalSort(x \o s) = CanonicalSort(y \o s)
    BY <1>3
  <2> QED BY <2>1, <2>2, <2>3
<1> HIDE DEF S
<1>4. Seq(D) \subseteq S
  BY <1>2, <1>3, SequenceInduction
<1> QED BY <1>4 DEF S

(* One more sequence, or a longer last one.                                *)
LEMMA SameSortedGrows ==
  ASSUME NEW D, NEW x \in Seq(Seq(D)), NEW y \in Seq(Seq(D)),
         SameSorted(x, y), NEW s \in Seq(D), NEW r \in Seq(D)
  PROVE  /\ CanonicalSort(s) = CanonicalSort(r) =>
              SameSorted(Append(x, s), Append(y, r))
         /\ /\ x # <<>>
            /\ CanonicalSort(x[Len(x)] \o s) = CanonicalSort(y[Len(y)] \o r)
            => SameSorted(Longer(x, s), Longer(y, r))
<1> DEFINE n == Len(x)
<1>1. /\ n \in Nat /\ Len(y) = n
      /\ \A i \in 1 .. n : CanonicalSort(x[i]) = CanonicalSort(y[i])
  BY DEF SameSorted
<1>2. ASSUME CanonicalSort(s) = CanonicalSort(r)
      PROVE  SameSorted(Append(x, s), Append(y, r))
  <2> DEFINE p == Append(x, s)
             q == Append(y, r)
  <2>1. /\ Len(p) = n + 1 /\ p[n + 1] = s
        /\ \A i \in 1 .. n : p[i] = x[i]
    BY AppendProperties
  <2>2. /\ Len(q) = n + 1 /\ q[n + 1] = r
        /\ \A i \in 1 .. n : q[i] = y[i]
    BY <1>1, AppendProperties
  <2> HIDE DEF p, q, n
  <2>3. \A i \in 1 .. n + 1 : i = n + 1 \/ i \in 1 .. n
    BY <1>1
  <2>4. \A i \in 1 .. n + 1 : CanonicalSort(p[i]) = CanonicalSort(q[i])
    BY <1>1, <1>2, <2>1, <2>2, <2>3
  <2> QED BY <2>1, <2>2, <2>4 DEF SameSorted, p, q
<1>3. ASSUME x # <<>>,
             CanonicalSort(x[Len(x)] \o s) = CanonicalSort(y[Len(y)] \o r)
      PROVE  SameSorted(Longer(x, s), Longer(y, r))
  <2> DEFINE p == Longer(x, s)
             q == Longer(y, r)
  <2>1. n \in 1 .. n /\ DOMAIN x = 1 .. n /\ DOMAIN y = 1 .. n
    BY <1>1, <1>3
  <2>2. /\ DOMAIN p = 1 .. n /\ p[n] = x[n] \o s
        /\ \A i \in 1 .. n : i # n => p[i] = x[i]
    BY <2>1 DEF Longer
  <2>3. /\ DOMAIN q = 1 .. n /\ q[n] = y[n] \o r
        /\ \A i \in 1 .. n : i # n => q[i] = y[i]
    BY <1>1, <2>1 DEF Longer
  <2>4. Len(p) = n /\ Len(q) = n
    <3>1. /\ p = [i \in 1 .. n |-> p[i]] /\ q = [i \in 1 .. n |-> q[i]]
          /\ n \in Nat
      BY <1>1, <2>1 DEF Longer
    <3> HIDE DEF p, q, n
    <3>2. \A f : f = [i \in 1 .. n |-> f[i]] => Len(f) = n
      BY <3>1
    <3> QED BY ONLY <3>1, <3>2
  <2> HIDE DEF p, q
  <2>5. \A i \in 1 .. n : CanonicalSort(p[i]) = CanonicalSort(q[i])
    BY <1>1, <1>3, <2>2, <2>3
  <2> QED BY <2>4, <2>5 DEF SameSorted, p, q
<1> QED BY <1>2, <1>3

(* What a sound text is broken into.                                       *)
LEMMA CharsType ==
  ASSUME NEW t, Sound(t)
  PROVE  /\ t \in Seq(DOMAIN CodePoint)
         /\ CharsOf(t) \in Seq(Seq(NormalCodePoints))
         /\ CharsOf(t) = <<>> <=> t = <<>>
BY BreakType DEF Sound, CharsOf

(* A code point goes on with a character of a text that is not empty.      *)
LEMMA GoesOnBehind ==
  ASSUME NEW t, NEW c, GoesOnIn(t, c)
  PROVE  t # <<>>
BY DEF GoesOnIn, GoesOn, LinkOf, Controls, PendingOf, AloneOf, LinkedOf

(* One code point more behind texts that go on alike.                      *)
LEMMA AlikeTurn ==
  ASSUME NEW t, NEW u, AlikeTexts(t, u), NEW c \in DOMAIN CodePoint,
         MayFollow(t, c)
  PROVE  AlikeTexts(Append(t, c), Append(u, c))
<1> DEFINE N == NormalCodePoints
           x == CharsOf(t)
           y == CharsOf(u)
           s == CodePoint[c].normal
           l == Len(x)
<1>1. Sound(t) /\ Sound(u) /\ SameEnd(t, u) /\ SameSorted(x, y)
  BY DEF AlikeTexts
<1>2. MayFollow(u, c) /\ (GoesOnIn(t, c) <=> GoesOnIn(u, c))
  BY <1>1 DEF SameEnd, MayFollow, GoesOnIn, GoesOn
<1>3. /\ Sound(Append(t, c)) /\ EndsAfter(Append(t, c), t, c)
      /\ CharsOf(Append(t, c)) =
           IF GoesOnIn(t, c) THEN Longer(x, s) ELSE Append(x, s)
  BY <1>1, TextTurn
<1>4. /\ Sound(Append(u, c)) /\ EndsAfter(Append(u, c), u, c)
      /\ CharsOf(Append(u, c)) =
           IF GoesOnIn(u, c) THEN Longer(y, s) ELSE Append(y, s)
  BY <1>1, <1>2, TextTurn
<1>5. SameEnd(Append(t, c), Append(u, c))
  BY <1>1, <1>3, <1>4 DEF SameEnd, EndsAfter
<1>6. x \in Seq(Seq(N)) /\ y \in Seq(Seq(N)) /\ s \in Seq(N)
  BY <1>1, CharsType, CodePointAssumption
<1>7. GoesOnIn(t, c) => x # <<>>
  BY <1>1, CharsType, GoesOnBehind
<1>8. x # <<>> => CanonicalSort(x[Len(x)] \o s) = CanonicalSort(y[Len(y)] \o s)
  <2> HAVE x # <<>>
  <2> HIDE DEF x, y, s, N
  <2>1. l \in 1 .. Len(x) /\ Len(y) = l
    BY <1>1, <1>6 DEF SameSorted
  <2>2. /\ x[l] \in Seq(N) /\ y[l] \in Seq(N)
        /\ CanonicalSort(x[l]) = CanonicalSort(y[l])
    BY <1>1, <1>6, <2>1 DEF SameSorted
  <2>3. \A r \in Seq(N) : CanonicalSort(x[l] \o r) = CanonicalSort(y[l] \o r)
    BY ONLY <2>2, SortBefore
  <2> QED BY <1>6, <2>1, <2>3
<1> HIDE DEF x, y, s, N
<1>9. SameSorted(CharsOf(Append(t, c)), CharsOf(Append(u, c)))
  <2>1. /\ SameSorted(Append(x, s), Append(y, s))
        /\ x # <<>> => SameSorted(Longer(x, s), Longer(y, s))
    BY <1>1, <1>6, <1>8, SameSortedGrows
  <2> QED BY <1>2, <1>3, <1>4, <1>7, <2>1
<1> QED BY <1>3, <1>4, <1>5, <1>9 DEF AlikeTexts

-----------------------------------------------------------------------------
(* Marks of different classes change places.                               *)

(* Two marks, the smaller class first, are inserted in either order.       *)
LEMMA InsertTwo ==
  ASSUME NEW D \in SUBSET DOMAIN CodePoint, NEW s \in Seq(D),
         NEW c \in D, NEW d \in D, CodePoint[c].class # 0,
         CodePoint[c].class < CodePoint[d].class
  PROVE  InsertByClass(InsertByClass(s, c), d) =
           InsertByClass(InsertByClass(s, d), c)
<1> DEFINE n == Len(s)
           r == InsertByClass(s, c)
           v == InsertByClass(r, d)
           q == InsertByClass(s, d)
           u == InsertByClass(q, c)
           class(x) == CodePoint[x].class
<1>1. /\ n \in Nat /\ DOMAIN s = 1 .. n
      /\ \A x \in D : class(x) \in Nat
      /\ class(c) # 0 /\ class(d) # 0 /\ class(c) < class(d)
  BY PropertyAssumption
<1>2. r \in Seq(D) /\ \E k : Inserts(s, c, k, r)
  BY InsertInserts
<1>3. q \in Seq(D) /\ \E k : Inserts(s, d, k, q)
  BY InsertInserts
<1> HIDE DEF r, q
<1>4. v \in Seq(D) /\ \E k : Inserts(r, d, k, v)
  BY <1>2, InsertInserts
<1>5. u \in Seq(D) /\ \E k : Inserts(q, c, k, u)
  BY <1>3, InsertInserts
<1> HIDE DEF v, u
<1>6. PICK k : Inserts(s, c, k, r)
  BY <1>2
<1>7. PICK l : Inserts(s, d, l, q)
  BY <1>3
<1>8. PICK i : Inserts(r, d, i, v)
  BY <1>4
<1>9. PICK j : Inserts(q, c, j, u)
  BY <1>5
<1>10. /\ k \in 0 .. n /\ Len(r) = n + 1 /\ r[k + 1] = c
       /\ \A x \in 1 .. k : r[x] = s[x]
       /\ \A x \in k + 2 .. n + 1 : r[x] = s[x - 1]
       /\ k # 0 => class(s[k]) <= class(c)
       /\ \A x \in 1 .. n : class(s[x]) <= class(c) => x <= k
  BY <1>1, <1>6 DEF Inserts, MayNotPass
<1>11. /\ l \in 0 .. n /\ Len(q) = n + 1 /\ q[l + 1] = d
       /\ \A x \in 1 .. l : q[x] = s[x]
       /\ \A x \in l + 2 .. n + 1 : q[x] = s[x - 1]
       /\ l # 0 => class(s[l]) <= class(d)
       /\ \A x \in 1 .. n : class(s[x]) <= class(d) => x <= l
  BY <1>1, <1>7 DEF Inserts, MayNotPass
<1>12. /\ i \in 0 .. n + 1 /\ Len(v) = n + 2 /\ v[i + 1] = d
       /\ \A x \in 1 .. i : v[x] = r[x]
       /\ \A x \in i + 2 .. n + 2 : v[x] = r[x - 1]
       /\ i # 0 => class(r[i]) <= class(d)
       /\ \A x \in 1 .. n + 1 : class(r[x]) <= class(d) => x <= i
  <2>1. DOMAIN r = 1 .. n + 1 /\ Len(r) = n + 1
    BY <1>2, <1>10
  <2>2. MayNotPass(r, d) = {x \in 1 .. n + 1 : class(r[x]) <= class(d)}
    BY <1>1, <2>1 DEF MayNotPass
  <2>3. (n + 1) + 1 = n + 2
    BY <1>1
  <2> DEFINE K == MayNotPass(r, d)
  <2>4. /\ i \in 0 .. n + 1 /\ Len(v) = n + 2 /\ v[i + 1] = d
        /\ \A x \in 1 .. i : v[x] = r[x]
        /\ \A x \in i + 2 .. n + 2 : v[x] = r[x - 1]
        /\ i # 0 => i \in K
        /\ \A x \in K : x <= i
    BY <1>8, <2>1, <2>3 DEF Inserts
  <2> QED BY <2>2, <2>4
<1>13. /\ j \in 0 .. n + 1 /\ Len(u) = n + 2 /\ u[j + 1] = c
       /\ \A x \in 1 .. j : u[x] = q[x]
       /\ \A x \in j + 2 .. n + 2 : u[x] = q[x - 1]
       /\ j # 0 => class(q[j]) <= class(c)
       /\ \A x \in 1 .. n + 1 : class(q[x]) <= class(c) => x <= j
  <2>1. DOMAIN q = 1 .. n + 1 /\ Len(q) = n + 1
    BY <1>3, <1>11
  <2>2. MayNotPass(q, c) = {x \in 1 .. n + 1 : class(q[x]) <= class(c)}
    BY <1>1, <2>1 DEF MayNotPass
  <2>3. (n + 1) + 1 = n + 2
    BY <1>1
  <2> DEFINE K == MayNotPass(q, c)
  <2>4. /\ j \in 0 .. n + 1 /\ Len(u) = n + 2 /\ u[j + 1] = c
        /\ \A x \in 1 .. j : u[x] = q[x]
        /\ \A x \in j + 2 .. n + 2 : u[x] = q[x - 1]
        /\ j # 0 => j \in K
        /\ \A x \in K : x <= j
    BY <1>9, <2>1, <2>3 DEF Inserts
  <2> QED BY <2>2, <2>4
<1>14. \A x \in 1 .. n : class(s[x]) \in Nat
  BY <1>1
<1> HIDE DEF class, n
<1>15. k <= l
  BY <1>1, <1>10, <1>11, <1>14
<1>16. i = l + 1
  <2>1. l + 1 <= i
    <3>1. CASE l = k
      <4>1. l + 1 \in 1 .. n + 1 /\ r[l + 1] = c
        BY <1>1, <1>10, <1>11, <3>1
      <4> QED BY <1>1, <1>12, <4>1
    <3>2. CASE l # k
      <4>1. /\ l + 1 \in k + 2 .. n + 1 /\ l + 1 \in 1 .. n + 1 /\ l # 0
            /\ (l + 1) - 1 = l
        BY <1>1, <1>10, <1>11, <1>15, <3>2
      <4>2. r[l + 1] = s[l]
        BY <1>10, <4>1
      <4> QED BY <1>11, <1>12, <4>1, <4>2
    <3> QED BY <3>1, <3>2
  <2>2. ASSUME i > l + 1 PROVE FALSE
    <3>1. i \in k + 2 .. n + 1 /\ i - 1 \in 1 .. n /\ i # 0 /\ i - 1 > l
      BY <1>1, <1>10, <1>11, <1>12, <1>15, <2>2
    <3>2. r[i] = s[i - 1] /\ class(r[i]) <= class(d)
      BY <1>10, <1>12, <3>1
    <3> QED BY <1>11, <3>1, <3>2
  <2> QED BY <1>11, <1>12, <2>1, <2>2
<1>17. j = k
  <2>1. k <= j
    <3>1. CASE k = 0
      BY <1>13, <3>1
    <3>2. CASE k # 0
      <4>1. k \in 1 .. l /\ k \in 1 .. n + 1
        BY <1>1, <1>10, <1>11, <1>15, <3>2
      <4>2. q[k] = s[k] /\ class(s[k]) <= class(c)
        BY <1>10, <1>11, <3>2, <4>1
      <4> QED BY <1>13, <4>1, <4>2
    <3> QED BY <3>1, <3>2
  <2>2. ASSUME j > k PROVE FALSE
    <3>1. j # 0 /\ class(q[j]) <= class(c)
      BY <1>10, <1>13, <2>2
    <3>2. CASE j <= l
      <4>1. j \in 1 .. l /\ j \in 1 .. n
        BY <1>1, <1>10, <1>11, <1>13, <2>2, <3>2
      <4>2. q[j] = s[j]
        BY <1>11, <4>1
      <4> QED BY <1>10, <2>2, <3>1, <4>1, <4>2
    <3>3. CASE j = l + 1
      BY <1>1, <1>11, <3>1, <3>3
    <3>4. CASE j > l + 1
      <4>1. j \in l + 2 .. n + 1 /\ j - 1 \in 1 .. n /\ j - 1 > k
        BY <1>1, <1>10, <1>11, <1>13, <1>15, <3>4
      <4>2. q[j] = s[j - 1]
        BY <1>11, <4>1
      <4> QED BY <1>10, <3>1, <4>1, <4>2
    <3> QED BY <1>11, <1>13, <3>2, <3>3, <3>4
  <2> QED BY <1>10, <1>13, <2>1, <2>2
<1>18. ASSUME NEW x \in 1 .. n + 2 PROVE v[x] = u[x]
  <2>1. CASE x <= k
    <3>1. x \in 1 .. i /\ x \in 1 .. k /\ x \in 1 .. j /\ x \in 1 .. l
      BY <1>10, <1>11, <1>15, <1>16, <1>17, <2>1
    <3> QED BY <1>10, <1>11, <1>12, <1>13, <3>1
  <2>2. CASE x = k + 1
    <3>1. x \in 1 .. i
      BY <1>10, <1>11, <1>15, <1>16, <2>2
    <3> QED BY <1>10, <1>12, <1>13, <1>17, <2>2, <3>1
  <2>3. CASE x > k + 1 /\ x <= l + 1
    <3>1. /\ x \in 1 .. i /\ x \in k + 2 .. n + 1
          /\ x \in j + 2 .. n + 2 /\ x - 1 \in 1 .. l
      BY <1>1, <1>10, <1>11, <1>16, <1>17, <2>3
    <3>2. v[x] = r[x] /\ r[x] = s[x - 1]
      BY <1>10, <1>12, <3>1
    <3>3. u[x] = q[x - 1] /\ q[x - 1] = s[x - 1]
      BY <1>11, <1>13, <3>1
    <3> QED BY <3>2, <3>3
  <2>4. CASE x = l + 2
    <3>1. /\ x = i + 1 /\ x \in j + 2 .. n + 2 /\ x - 1 = l + 1
      BY <1>1, <1>10, <1>11, <1>15, <1>16, <1>17, <2>4
    <3> QED BY <1>11, <1>12, <1>13, <3>1
  <2>5. CASE x > l + 2
    <3>1. /\ x \in i + 2 .. n + 2 /\ x - 1 \in k + 2 .. n + 1
          /\ x \in j + 2 .. n + 2 /\ x - 1 \in l + 2 .. n + 1
      BY <1>1, <1>10, <1>11, <1>15, <1>16, <1>17, <2>5
    <3>2. v[x] = r[x - 1] /\ r[x - 1] = s[(x - 1) - 1]
      BY <1>10, <1>12, <3>1
    <3>3. u[x] = q[x - 1] /\ q[x - 1] = s[(x - 1) - 1]
      BY <1>11, <1>13, <3>1
    <3> QED BY <3>2, <3>3
  <2> QED BY <1>10, <1>11, <2>1, <2>2, <2>3, <2>4, <2>5
<1>19. v = u
  <2>1. /\ v \in Seq(D) /\ u \in Seq(D) /\ Len(v) = Len(u)
        /\ \A x \in 1 .. Len(v) : v[x] = u[x]
    BY <1>4, <1>5, <1>12, <1>13, <1>18
  <2> QED BY ONLY <2>1, SameElements
<1> QED BY <1>19 DEF v, u, r, q

(* Marks of A and marks of B may pass each other.                          *)
PassEachOther(A, B) ==
  \A a \in A, b \in B : /\ CodePoint[a].class # 0 /\ CodePoint[b].class # 0
                        /\ CodePoint[a].class # CodePoint[b].class

(* Two marks of different classes are inserted in either order.            *)
LEMMA InsertEither ==
  ASSUME NEW D \in SUBSET DOMAIN CodePoint, NEW A \in SUBSET D,
         NEW B \in SUBSET D, PassEachOther(A, B)
  PROVE  \A s \in Seq(D), c \in A, d \in B :
           InsertByClass(InsertByClass(s, c), d) =
             InsertByClass(InsertByClass(s, d), c)
<1> TAKE s \in Seq(D), c \in A, d \in B
<1>1. /\ CodePoint[c].class # 0 /\ CodePoint[d].class # 0
      /\ CodePoint[c].class # CodePoint[d].class
  BY DEF PassEachOther
<1>2. CodePoint[c].class \in Nat /\ CodePoint[d].class \in Nat
      /\ c \in D /\ d \in D
  BY PropertyAssumption
<1>3. CASE CodePoint[c].class < CodePoint[d].class
  BY <1>1, <1>2, <1>3, InsertTwo
<1>4. CASE CodePoint[d].class < CodePoint[c].class
  BY <1>1, <1>2, <1>4, InsertTwo
<1> QED BY <1>1, <1>2, <1>3, <1>4

(* A mark passes marks of other classes.                                   *)
LEMMA MarkPasses ==
  ASSUME NEW D \in SUBSET DOMAIN CodePoint, NEW A \in SUBSET D,
         NEW B \in SUBSET D, PassEachOther(A, B)
  PROVE  \A s \in Seq(D), c \in A : \A n \in Seq(B) :
           CanonicalSort(Append(s \o n, c)) = CanonicalSort(Append(s, c) \o n)
<1> TAKE s \in Seq(D), c \in A
<1> DEFINE r == Append(s, c)
           S == {n \in Seq(B) : CanonicalSort(Append(s \o n, c)) =
                                  CanonicalSort(r \o n)}
<1>0. \A x \in Seq(D), e \in D :
        CanonicalSort(Append(x, e)) = InsertByClass(CanonicalSort(x), e)
  BY SortAppend
<1>1. \A x \in Seq(D) : CanonicalSort(x) \in Seq(D)
  BY SortAppend
<1>2. r \in Seq(D) /\ c \in D
  OBVIOUS
<1> HIDE DEF r
<1>3. <<>> \in S
  <2>1. s \o <<>> = s /\ r \o <<>> = r /\ <<>> \in Seq(B)
    BY <1>2
  <2> QED BY <2>1 DEF r
<1>4. ASSUME NEW n \in Seq(B), NEW d \in B, n \in S PROVE Append(n, d) \in S
  <2> DEFINE x == s \o n
             y == r \o n
  <2>1. n \in Seq(D) /\ d \in D
    OBVIOUS
  <2>2. /\ x \in Seq(D) /\ s \o Append(n, d) = Append(x, d)
        /\ y \in Seq(D) /\ r \o Append(n, d) = Append(y, d)
    BY ONLY <1>2, <2>1, s \in Seq(D)
  <2>3. CanonicalSort(Append(x, c)) = CanonicalSort(y)
    BY <1>4
  <2>4. Append(n, d) \in Seq(B)
    OBVIOUS
  <2> HIDE DEF x, y
  <2>5. Append(x, c) \in Seq(D) /\ Append(x, d) \in Seq(D)
    BY <1>2, <2>1, <2>2
  <2>6. CanonicalSort(x) \in Seq(D)
    BY <1>1, <2>2
  <2>7. InsertByClass(InsertByClass(CanonicalSort(x), d), c) =
          InsertByClass(InsertByClass(CanonicalSort(x), c), d)
    BY <2>6, InsertEither
  <2>8. CanonicalSort(Append(Append(x, d), c)) =
          InsertByClass(InsertByClass(CanonicalSort(x), d), c)
    BY <1>0, <1>2, <2>1, <2>2, <2>5
  <2>9. CanonicalSort(Append(y, d)) =
          InsertByClass(InsertByClass(CanonicalSort(x), c), d)
    BY <1>0, <1>2, <2>1, <2>2, <2>3
  <2> QED BY <2>2, <2>4, <2>7, <2>8, <2>9
<1> HIDE DEF S
<1>5. Seq(B) \subseteq S
  BY <1>3, <1>4, SequenceInduction
<1> QED BY <1>5 DEF S, r

(* Marks pass marks of other classes.                                      *)
LEMMA MarksPass ==
  ASSUME NEW D \in SUBSET DOMAIN CodePoint, NEW A \in SUBSET D,
         NEW B \in SUBSET D, PassEachOther(A, B)
  PROVE  \A s \in Seq(D), n \in Seq(B) : \A m \in Seq(A) :
           CanonicalSort((s \o m) \o n) = CanonicalSort((s \o n) \o m)
<1> TAKE s \in Seq(D), n \in Seq(B)
<1> DEFINE r == s \o n
           S == {m \in Seq(A) : CanonicalSort((s \o m) \o n) =
                                  CanonicalSort(r \o m)}
<1>0. \A x \in Seq(D), e \in D :
        CanonicalSort(Append(x, e)) = InsertByClass(CanonicalSort(x), e)
  BY SortAppend
<1>1. r \in Seq(D) /\ n \in Seq(D)
  OBVIOUS
<1>2. <<>> \in S
  <2> HIDE DEF r
  <2>1. s \o <<>> = s /\ r \o <<>> = r /\ <<>> \in Seq(A)
    BY <1>1
  <2> QED BY <2>1 DEF r
<1> HIDE DEF r
<1>3. ASSUME NEW m \in Seq(A), NEW c \in A, m \in S PROVE Append(m, c) \in S
  <2> DEFINE x == s \o m
             y == r \o m
  <2>1. m \in Seq(D) /\ c \in D
    OBVIOUS
  <2>2. /\ x \in Seq(D) /\ s \o Append(m, c) = Append(x, c)
        /\ y \in Seq(D) /\ r \o Append(m, c) = Append(y, c)
    BY ONLY <1>1, <2>1, s \in Seq(D)
  <2>3. CanonicalSort(x \o n) = CanonicalSort(y)
    BY <1>3
  <2>4. Append(m, c) \in Seq(A)
    OBVIOUS
  <2> HIDE DEF x, y
  <2>5. CanonicalSort(Append(x, c) \o n) = CanonicalSort(Append(x \o n, c))
    BY <2>2, MarkPasses
  <2>6. x \o n \in Seq(D)
    BY ONLY <1>1, <2>2
  <2>7. CanonicalSort(Append(x \o n, c)) = CanonicalSort(Append(y, c))
    BY <1>0, <2>1, <2>2, <2>3, <2>6
  <2> QED BY <2>2, <2>4, <2>5, <2>7
<1> HIDE DEF S
<1>4. Seq(A) \subseteq S
  BY <1>2, <1>3, SequenceInduction
<1> QED BY <1>4 DEF S, r

(* What is longer twice.                                                   *)
LEMMA LongerTwice ==
  ASSUME NEW D, NEW x \in Seq(Seq(D)), NEW s \in Seq(D), NEW r \in Seq(D)
  PROVE  /\ Longer(Append(x, s), r) = Append(x, s \o r)
         /\ x # <<>> => Longer(Longer(x, s), r) = Longer(x, s \o r)
<1> DEFINE n == Len(x)
<1>1. n \in Nat /\ DOMAIN x = 1 .. n
  OBVIOUS
<1>2. Longer(Append(x, s), r) = Append(x, s \o r)
  <2> DEFINE p == Append(x, s)
             q == Append(x, s \o r)
             v == Longer(p, r)
  <2>1. /\ p \in Seq(Seq(D)) /\ Len(p) = n + 1 /\ p[n + 1] = s
        /\ \A i \in 1 .. n : p[i] = x[i]
    BY AppendProperties
  <2>2. s \o r \in Seq(D)
    OBVIOUS
  <2>3. /\ q \in Seq(Seq(D)) /\ Len(q) = n + 1 /\ q[n + 1] = s \o r
        /\ \A i \in 1 .. n : q[i] = x[i]
    BY <2>2, AppendProperties
  <2> HIDE DEF p, q, n
  <2>4. DOMAIN p = 1 .. n + 1 /\ DOMAIN q = 1 .. n + 1
    BY <2>1, <2>3
  <2>5. v = [i \in 1 .. n + 1 |-> IF i = n + 1 THEN p[n + 1] \o r ELSE p[i]]
    BY <2>1, <2>4 DEF Longer
  <2>6. \A i \in 1 .. n + 1 : i = n + 1 \/ i \in 1 .. n
    BY <1>1
  <2>7. \A i \in 1 .. n : i # n + 1
    BY <1>1
  <2>8. q = [i \in 1 .. n + 1 |-> q[i]]
    BY <2>3, <2>4
  <2>9. \A i \in 1 .. n + 1 :
          q[i] = IF i = n + 1 THEN p[n + 1] \o r ELSE p[i]
    BY <2>1, <2>3, <2>6, <2>7
  <2> HIDE DEF v
  <2>10. v = q
    BY <2>5, <2>8, <2>9
  <2> QED BY <2>10 DEF v, p, q
<1>3. ASSUME x # <<>> PROVE Longer(Longer(x, s), r) = Longer(x, s \o r)
  <2> DEFINE y == x[n]
             p == Longer(x, s)
             v == Longer(p, r)
             q == Longer(x, s \o r)
  <2>1. n \in 1 .. n /\ y \in Seq(D)
    BY <1>1, <1>3
  <2>2. p = [i \in 1 .. n |-> IF i = n THEN y \o s ELSE x[i]]
    BY <1>1, <2>1 DEF Longer
  <2>3. q = [i \in 1 .. n |-> IF i = n THEN y \o (s \o r) ELSE x[i]]
    BY <1>1, <2>1 DEF Longer
  <2> HIDE DEF p, q, n, y
  <2>4. Len(p) = n /\ DOMAIN p = 1 .. n
    <3>1. p = [i \in 1 .. n |-> p[i]] /\ n \in Nat
      BY <1>1, <2>2
    <3> QED BY ONLY <3>1
  <2>5. v = [i \in 1 .. n |-> IF i = n THEN p[n] \o r ELSE p[i]]
    BY <2>4 DEF Longer
  <2>6. p[n] = y \o s /\ \A i \in 1 .. n : i # n => p[i] = x[i]
    BY <2>1, <2>2
  <2>7. (y \o s) \o r = y \o (s \o r)
    BY ONLY <2>1, s \in Seq(D), r \in Seq(D)
  <2> HIDE DEF v
  <2>8. v = q
    BY <2>3, <2>5, <2>6, <2>7
  <2> QED BY <2>8 DEF v, p, q
<1> QED BY <1>2, <1>3

(* Two marks of different classes behind a text, in either order.          *)
LEMMA SwapAlike ==
  ASSUME NEW x, Sound(x), LinkOf(x) # "ZWJ",
         NEW a \in DOMAIN CodePoint, NEW b \in DOMAIN CodePoint,
         CodePoint[a].class # 0, CodePoint[b].class # 0,
         CodePoint[a].class # CodePoint[b].class
  PROVE  AlikeTexts(Append(Append(x, a), b), Append(Append(x, b), a))
<1> DEFINE N == NormalCodePoints
           X == CharsOf(x)
           m == CodePoint[a].normal
           n == CodePoint[b].normal
           A == {d \in N : CodePoint[d].class = CodePoint[a].class}
           B == {d \in N : CodePoint[d].class = CodePoint[b].class}
           Mark2(c) == /\ CodePoint[c].break = "EXTEND"
                       /\ CodePoint[c].indic \in {"EXTEND", "LINKER"}
<1>1. Mark2(a) /\ Mark2(b)
  BY PropertyAssumption
<1>2. ASSUME NEW c \in DOMAIN CodePoint, CodePoint[c].class # 0
      PROVE  CodePoint[c].normal \in
               Seq({d \in N : CodePoint[d].class = CodePoint[c].class})
  <2> DEFINE s == CodePoint[c].normal
  <2>1. s \in Seq(N)
    BY CodePointAssumption
  <2>2. \A d \in ToSet(s) : CodePoint[d].class = CodePoint[c].class
    BY <1>2, PropertyAssumption
  <2> HIDE DEF s, N
  <2>3. \A i \in 1 .. Len(s) : s[i] \in N /\ s[i] \in ToSet(s)
    BY <2>1 DEF ToSet
  <2>4. \A i \in 1 .. Len(s) :
          s[i] \in {d \in N : CodePoint[d].class = CodePoint[c].class}
    BY <2>2, <2>3
  <2>5. s \in Seq({d \in N : CodePoint[d].class = CodePoint[c].class})
    BY <2>1, <2>4, SequenceOf
  <2> QED BY <2>5 DEF s
<1>3. m \in Seq(A) /\ n \in Seq(B)
  BY <1>2
<1>4. m \in Seq(N) /\ n \in Seq(N) /\ X \in Seq(Seq(N))
  BY CodePointAssumption, CharsType
<1>5. PassEachOther(A, B)
  BY DEF PassEachOther
<1>6. N \in SUBSET DOMAIN CodePoint /\ A \in SUBSET N /\ B \in SUBSET N
  BY DEF NormalCodePoints
<1>7. \A s \in Seq(N) : CanonicalSort((s \o m) \o n) =
                          CanonicalSort((s \o n) \o m)
  <2> HIDE DEF A, B, N, m, n
  <2>1. \A s \in Seq(N), z \in Seq(B) : \A y \in Seq(A) :
          CanonicalSort((s \o y) \o z) = CanonicalSort((s \o z) \o y)
    BY <1>5, <1>6, MarksPass
  <2> QED BY <1>3, <2>1
<1>8. Link(a) = "OTHER" /\ Link(b) = "OTHER"
  BY <1>1 DEF Link
<1>9. /\ MayFollow(x, a) /\ MayFollow(x, b)
      /\ GoesOnIn(x, a) <=> LinkOf(x) \notin Controls
      /\ GoesOnIn(x, b) <=> LinkOf(x) \notin Controls
  BY <1>1 DEF MayFollow, GoesOnIn, GoesOn, Extending, Controls
<1>10. ASSUME NEW t, Sound(t), LinkOf(t) = "OTHER",
              NEW c \in DOMAIN CodePoint, Mark2(c)
       PROVE  MayFollow(t, c) /\ GoesOnIn(t, c)
  BY <1>10 DEF MayFollow, GoesOnIn, GoesOn, Extending, Controls
<1> HIDE DEF X, m, n, A, B, N
<1>11. ASSUME NEW c \in DOMAIN CodePoint, NEW d \in DOMAIN CodePoint,
              Mark2(c), Mark2(d), Link(c) = "OTHER", MayFollow(x, c)
       PROVE  LET t == Append(x, c)
                  u == Append(t, d)
              IN  /\ Sound(u) /\ EndsAfter(t, x, c) /\ EndsAfter(u, t, d)
                  /\ CharsOf(u) =
                       Longer(IF GoesOnIn(x, c)
                              THEN Longer(X, CodePoint[c].normal)
                              ELSE Append(X, CodePoint[c].normal),
                              CodePoint[d].normal)
  <2> DEFINE t == Append(x, c)
             u == Append(t, d)
  <2>1. /\ Sound(t) /\ EndsAfter(t, x, c)
        /\ CharsOf(t) = IF GoesOnIn(x, c)
                        THEN Longer(X, CodePoint[c].normal)
                        ELSE Append(X, CodePoint[c].normal)
    BY <1>11, TextTurn DEF X
  <2>2. LinkOf(t) = "OTHER"
    BY <1>11, <2>1 DEF EndsAfter
  <2> HIDE DEF t
  <2>3. MayFollow(t, d) /\ GoesOnIn(t, d)
    BY <1>10, <1>11, <2>1, <2>2
  <2>4. /\ Sound(u) /\ EndsAfter(u, t, d)
        /\ CharsOf(u) = Longer(CharsOf(t), CodePoint[d].normal)
    BY <2>1, <2>3, TextTurn
  <2> QED BY <2>1, <2>4 DEF t
<1> DEFINE t == Append(x, a)
           u == Append(t, b)
           v == Append(x, b)
           w == Append(v, a)
<1>12. /\ Sound(u) /\ EndsAfter(t, x, a) /\ EndsAfter(u, t, b)
       /\ CharsOf(u) = Longer(IF GoesOnIn(x, a) THEN Longer(X, m)
                              ELSE Append(X, m), n)
  BY <1>1, <1>8, <1>9, <1>11 DEF m, n
<1>13. /\ Sound(w) /\ EndsAfter(v, x, b) /\ EndsAfter(w, v, a)
       /\ CharsOf(w) = Longer(IF GoesOnIn(x, b) THEN Longer(X, n)
                              ELSE Append(X, n), m)
  BY <1>1, <1>8, <1>9, <1>11 DEF m, n
<1> HIDE DEF t, u, v, w
<1>14. SameEnd(u, w)
  BY <1>1, <1>8, <1>12, <1>13 DEF EndsAfter, SameEnd
<1>15. SameSorted(CharsOf(u), CharsOf(w))
  <2>1. SameSorted(X, X)
    BY DEF SameSorted
  <2>2. m \o n \in Seq(N) /\ n \o m \in Seq(N)
    BY ONLY <1>4
  <2>3. CASE LinkOf(x) \notin Controls
    <3>1. GoesOnIn(x, a) /\ GoesOnIn(x, b) /\ X # <<>>
      BY <1>9, <2>3, CharsType, GoesOnBehind DEF X
    <3>2. CharsOf(u) = Longer(X, m \o n) /\ CharsOf(w) = Longer(X, n \o m)
      BY <1>4, <1>12, <1>13, <3>1, LongerTwice
    <3> DEFINE z == X[Len(X)]
    <3>3. z \in Seq(N)
      BY <1>4, <3>1
    <3> HIDE DEF z
    <3>4. (z \o m) \o n = z \o (m \o n) /\ (z \o n) \o m = z \o (n \o m)
      BY ONLY <1>4, <3>3
    <3>5. CanonicalSort(z \o (m \o n)) = CanonicalSort(z \o (n \o m))
      BY <1>7, <3>3, <3>4
    <3>6. SameSorted(Longer(X, m \o n), Longer(X, n \o m))
      BY <1>4, <2>1, <2>2, <3>1, <3>5, SameSortedGrows DEF z
    <3> QED BY <3>2, <3>6
  <2>4. CASE LinkOf(x) \in Controls
    <3>1. ~ GoesOnIn(x, a) /\ ~ GoesOnIn(x, b)
      BY <1>9, <2>4
    <3>2. CharsOf(u) = Append(X, m \o n) /\ CharsOf(w) = Append(X, n \o m)
      <4>1. /\ CharsOf(u) = Longer(Append(X, m), n)
            /\ CharsOf(w) = Longer(Append(X, n), m)
        BY <1>12, <1>13, <3>1
      <4>2. Longer(Append(X, m), n) = Append(X, m \o n)
        BY ONLY <1>4, LongerTwice
      <4>3. Longer(Append(X, n), m) = Append(X, n \o m)
        BY ONLY <1>4, LongerTwice
      <4> QED BY <4>1, <4>2, <4>3
    <3>3. <<>> \in Seq(N) /\ <<>> \o m = m /\ <<>> \o n = n
      BY ONLY <1>4
    <3>4. CanonicalSort(m \o n) = CanonicalSort(n \o m)
      BY <1>7, <3>3
    <3>5. SameSorted(Append(X, m \o n), Append(X, n \o m))
      BY <1>4, <2>1, <2>2, <3>4, SameSortedGrows
    <3> QED BY <3>2, <3>5
  <2> QED BY <2>3, <2>4
<1>16. AlikeTexts(u, w)
  BY <1>12, <1>13, <1>14, <1>15 DEF AlikeTexts
<1> QED BY <1>16 DEF t, u, v, w

-----------------------------------------------------------------------------
(* Texts without a joiner before a mark.                                   *)

(* A text has what its beginning has.                                      *)
LEMMA JoinerTurn ==
  ASSUME NEW t \in Seq(DOMAIN CodePoint), NEW c \in DOMAIN CodePoint,
         ~ JoinerBeforeMark(Append(t, c))
  PROVE  ~ JoinerBeforeMark(t) /\ MayFollow(t, c)
<1> DEFINE u == Append(t, c)
           n == Len(t)
<1>1. /\ n \in Nat /\ Len(u) = n + 1 /\ u[n + 1] = c
      /\ \A i \in 1 .. n : u[i] = t[i]
  BY AppendProperties
<1> HIDE DEF u, n
<1>2. \A k \in 1 .. n : ~ /\ CodePoint[u[k]].break = "ZWJ"
                          /\ CodePoint[u[k + 1]].break \in Extending
  <2>1. Len(u) - 1 = n
    BY <1>1
  <2> QED BY <2>1 DEF JoinerBeforeMark, u
<1>3. ~ JoinerBeforeMark(t)
  <2> SUFFICES ASSUME NEW k \in 1 .. n - 1,
                      CodePoint[t[k]].break = "ZWJ",
                      CodePoint[t[k + 1]].break \in Extending
               PROVE  FALSE
    BY DEF JoinerBeforeMark, n
  <2>1. k \in 1 .. n /\ k + 1 \in 1 .. n
    BY <1>1
  <2>2. u[k] = t[k] /\ u[k + 1] = t[k + 1]
    BY <1>1, <2>1
  <2> QED BY <1>2, <2>1, <2>2
<1>4. MayFollow(t, c)
  <2> SUFFICES ASSUME LinkOf(t) = "ZWJ", CodePoint[c].break \in Extending
               PROVE  FALSE
    BY DEF MayFollow
  <2>1. t # <<>> /\ CodePoint[t[n]].break = "ZWJ"
    BY DEF LinkOf, Link, n
  <2>2. n \in 1 .. n
    BY <1>1, <2>1 DEF n
  <2>3. u[n] = t[n]
    BY <1>1, <2>2
  <2> QED BY <1>1, <1>2, <2>1, <2>2, <2>3
<1> QED BY <1>3, <1>4

(* The flags of every such text are what they may be.                      *)
LEMMA SoundTexts ==
  \A t \in Seq(DOMAIN CodePoint) : ~ JoinerBeforeMark(t) => Sound(t)
<1> DEFINE D == DOMAIN CodePoint
           S == {t \in Seq(D) : ~ JoinerBeforeMark(t) => Sound(t)}
<1>1. <<>> \in S
  <2>1. CharsOf(<<>>) = <<>>
    BY ReadNothing DEF CharsOf, BreakCodePointsIntoCharacters, NoWord
  <2>2. <<>> \in Seq(D)
    OBVIOUS
  <2> QED BY <2>1, <2>2 DEF Sound
<1>2. ASSUME NEW t \in Seq(D), NEW c \in D, t \in S PROVE Append(t, c) \in S
  <2>1. Append(t, c) \in Seq(D)
    OBVIOUS
  <2>2. ASSUME ~ JoinerBeforeMark(Append(t, c)) PROVE Sound(Append(t, c))
    <3>1. ~ JoinerBeforeMark(t) /\ MayFollow(t, c)
      BY <2>2, JoinerTurn
    <3>2. Sound(t)
      BY <1>2, <3>1
    <3> QED BY <3>1, <3>2, TextTurn
  <2> QED BY <2>1, <2>2
<1> HIDE DEF S
<1>3. Seq(D) \subseteq S
  BY <1>1, <1>2, SequenceInduction
<1> QED BY <1>3 DEF S

(* Texts that go on alike, with the same behind them.                      *)
LEMMA AlikeTail ==
  ASSUME NEW t, NEW u, AlikeTexts(t, u)
  PROVE  \A z \in Seq(DOMAIN CodePoint) :
           ~ JoinerBeforeMark(t \o z) => AlikeTexts(t \o z, u \o z)
<1> DEFINE D == DOMAIN CodePoint
           S == {z \in Seq(D) :
                   ~ JoinerBeforeMark(t \o z) => AlikeTexts(t \o z, u \o z)}
<1>1. t \in Seq(D) /\ u \in Seq(D)
  BY DEF AlikeTexts, Sound
<1>2. <<>> \in S
  <2>1. t \o <<>> = t /\ u \o <<>> = u /\ <<>> \in Seq(D)
    BY <1>1
  <2> QED BY <2>1
<1>3. ASSUME NEW z \in Seq(D), NEW c \in D, z \in S PROVE Append(z, c) \in S
  <2>1. /\ t \o Append(z, c) = Append(t \o z, c) /\ t \o z \in Seq(D)
        /\ u \o Append(z, c) = Append(u \o z, c) /\ Append(z, c) \in Seq(D)
    BY ONLY <1>1, z \in Seq(D), c \in D
  <2>2. ASSUME ~ JoinerBeforeMark(t \o Append(z, c))
        PROVE  AlikeTexts(t \o Append(z, c), u \o Append(z, c))
    <3>1. ~ JoinerBeforeMark(Append(t \o z, c))
      BY <2>1, <2>2
    <3>2. ~ JoinerBeforeMark(t \o z) /\ MayFollow(t \o z, c)
      BY <2>1, <3>1, JoinerTurn
    <3>3. AlikeTexts(t \o z, u \o z)
      BY <1>3, <3>2
    <3>4. AlikeTexts(Append(t \o z, c), Append(u \o z, c))
      BY <3>2, <3>3, AlikeTurn
    <3> QED BY <2>1, <3>4
  <2> QED BY <2>1, <2>2
<1> HIDE DEF S
<1>4. Seq(D) \subseteq S
  BY <1>2, <1>3, SequenceInduction
<1> QED BY <1>4 DEF S

(* Texts that go on alike have the same characters.                        *)
LEMMA AlikeCharacters ==
  ASSUME NEW t, NEW u, AlikeTexts(t, u)
  PROVE  Characters(u) = Characters(t)
<1> DEFINE x == CharsOf(t)
           y == CharsOf(u)
<1>1. /\ x \in Seq(Seq(NormalCodePoints)) /\ y \in Seq(Seq(NormalCodePoints))
      /\ SameSorted(x, y)
  BY CharsType DEF AlikeTexts
<1>2. /\ Characters(t) = [i \in DOMAIN x |-> NewCharacter(x[i])]
      /\ Characters(u) = [i \in DOMAIN y |-> NewCharacter(y[i])]
  BY DEF Characters, ForEach, CharsOf
<1> HIDE DEF x, y
<1>3. DOMAIN x = DOMAIN y /\ DOMAIN x = 1 .. Len(x)
  BY <1>1 DEF SameSorted
<1>4. \A i \in DOMAIN x : NewCharacter(x[i]) = NewCharacter(y[i])
  BY <1>1, <1>3 DEF SameSorted, NewCharacter
<1> QED BY <1>2, <1>3, <1>4

(* Two adjacent marks of different classes change places in a text.        *)
LEMMA SwappedAlike ==
  ASSUME NEW t \in Seq(DOMAIN CodePoint), ~ JoinerBeforeMark(t),
         NEW i \in 1 .. Len(t) - 1,
         CodePoint[t[i]].class # 0, CodePoint[t[i + 1]].class # 0,
         CodePoint[t[i]].class # CodePoint[t[i + 1]].class
  PROVE  AlikeTexts(t, [t EXCEPT ![i] = t[i + 1], ![i + 1] = t[i]])
<1> DEFINE D == DOMAIN CodePoint
           n == Len(t)
           u == [t EXCEPT ![i] = t[i + 1], ![i + 1] = t[i]]
           x == SubSeq(t, 1, i - 1)
           z == SubSeq(t, (i + 1) + 1, n)
           a == t[i]
           b == t[i + 1]
           p == Append(Append(x, a), b)
           q == Append(Append(x, b), a)
           Fits(r, c, d) ==
             /\ r \in Seq(D) /\ r \o z \in Seq(D) /\ Len(r \o z) = n
             /\ \A j \in 1 .. i - 1 : (r \o z)[j] = t[j]
             /\ (r \o z)[i] = c /\ (r \o z)[i + 1] = d
             /\ \A j \in i + 2 .. n : (r \o z)[j] = t[j]
<1>1. /\ n \in Nat /\ DOMAIN t = 1 .. n /\ i \in 1 .. n /\ i + 1 \in 1 .. n
      /\ i # i + 1 /\ i - 1 \in 0 .. n /\ i + 1 \in 0 .. n
      /\ \A j \in 1 .. n : t[j] \in D
  OBVIOUS
<1>2. /\ x \in Seq(D) /\ Len(x) = i - 1
      /\ \A j \in 1 .. i - 1 : x[j] = t[j]
  BY <1>1, TwoPieces
<1>3. /\ z \in Seq(D) /\ Len(z) = n - (i + 1)
      /\ \A j \in 1 .. n - (i + 1) : z[j] = t[(i + 1) + j]
  BY <1>1, EndPiece
<1>4. a \in D /\ b \in D
  BY <1>1
<1> HIDE DEF x, z, a, b
<1>5. \A c \in D, d \in D : Fits(Append(Append(x, c), d), c, d)
  <2> TAKE c \in D, d \in D
  <2> DEFINE s == Append(x, c)
             r == Append(s, d)
  <2>1. /\ s \in Seq(D) /\ Len(s) = i /\ s[i] = c
        /\ \A j \in 1 .. i - 1 : s[j] = t[j]
    <3>1. /\ s \in Seq(D) /\ Len(s) = (i - 1) + 1 /\ s[(i - 1) + 1] = c
          /\ \A j \in 1 .. i - 1 : s[j] = x[j]
      BY <1>2, AppendProperties
    <3>2. (i - 1) + 1 = i
      BY <1>1
    <3> QED BY <1>2, <3>1, <3>2
  <2> HIDE DEF s
  <2>2. /\ r \in Seq(D) /\ Len(r) = i + 1 /\ r[i + 1] = d
        /\ \A j \in 1 .. i : r[j] = s[j]
    BY <2>1, AppendProperties
  <2> HIDE DEF r
  <2>3. /\ r \o z \in Seq(D) /\ Len(r \o z) = Len(r) + Len(z)
        /\ \A j \in 1 .. Len(r) : (r \o z)[j] = r[j]
        /\ \A j \in 1 .. Len(z) : (r \o z)[Len(r) + j] = z[j]
    <3>1. r \in Seq(D) /\ z \in Seq(D)
      BY <1>3, <2>2
    <3> QED BY ONLY <3>1, ConcatElements
  <2>4. Len(r \o z) = n
    BY <1>1, <1>3, <2>2, <2>3
  <2>5. \A j \in 1 .. i - 1 : (r \o z)[j] = t[j]
    <3>1. \A j \in 1 .. i - 1 : j \in 1 .. i /\ j \in 1 .. i + 1
      BY <1>1
    <3> QED BY <2>1, <2>2, <2>3, <3>1
  <2>6. (r \o z)[i] = c /\ (r \o z)[i + 1] = d
    <3>1. i \in 1 .. i /\ i \in 1 .. i + 1 /\ i + 1 \in 1 .. i + 1
      BY <1>1
    <3> QED BY <2>1, <2>2, <2>3, <3>1
  <2>7. ASSUME NEW j \in i + 2 .. n PROVE (r \o z)[j] = t[j]
    <3> DEFINE k == j - (i + 1)
    <3>1. k \in 1 .. n - (i + 1) /\ j = (i + 1) + k
      BY <1>1
    <3> HIDE DEF k
    <3>2. (r \o z)[(i + 1) + k] = z[k] /\ z[k] = t[(i + 1) + k]
      BY <1>3, <2>2, <2>3, <3>1
    <3> QED BY <3>1, <3>2
  <2> QED BY <2>2, <2>3, <2>4, <2>5, <2>6, <2>7 DEF r, s
<1>6. /\ u \in Seq(D) /\ Len(u) = n /\ u[i] = b /\ u[i + 1] = a
      /\ \A j \in 1 .. n : j # i /\ j # i + 1 => u[j] = t[j]
  <2>1. u \in [1 .. n -> D]
    BY <1>1, <1>4 DEF a, b
  <2>2. u[i] = b /\ u[i + 1] = a
    BY <1>1 DEF a, b
  <2>3. \A j \in 1 .. n : j # i /\ j # i + 1 => u[j] = t[j]
    BY <1>1
  <2> HIDE DEF u, n, D
  <2>4. u \in Seq(D) /\ Len(u) = n
    BY ONLY <1>1, <2>1
  <2> QED BY <2>2, <2>3, <2>4
<1>7. \A j \in 1 .. n :
        \/ j \in 1 .. i - 1 \/ j = i \/ j = i + 1 \/ j \in i + 2 .. n
  BY <1>1
<1>8. \A j \in 1 .. i - 1 : j \in 1 .. n /\ j # i /\ j # i + 1
  BY <1>1
<1>9. \A j \in i + 2 .. n : j \in 1 .. n /\ j # i /\ j # i + 1
  BY <1>1
<1> HIDE DEF u, n, D, Fits
<1>10. t = p \o z
  <2>0. Fits(p, a, b)
    BY ONLY <1>4, <1>5
  <2>1. /\ p \in Seq(D) /\ p \o z \in Seq(D) /\ Len(p \o z) = n
        /\ \A j \in 1 .. i - 1 : (p \o z)[j] = t[j]
        /\ (p \o z)[i] = a /\ (p \o z)[i + 1] = b
        /\ \A j \in i + 2 .. n : (p \o z)[j] = t[j]
    BY ONLY <2>0 DEF Fits
  <2> HIDE DEF p
  <2>2. \A j \in 1 .. n : t[j] = (p \o z)[j]
    BY <1>7, <2>1 DEF a, b
  <2>3. /\ t \in Seq(D) /\ p \o z \in Seq(D) /\ Len(t) = Len(p \o z)
        /\ \A j \in 1 .. Len(t) : t[j] = (p \o z)[j]
    BY <2>1, <2>2 DEF n, D
  <2> QED BY ONLY <2>3, SameElements
<1>11. u = q \o z
  <2>0. Fits(q, b, a)
    BY ONLY <1>4, <1>5
  <2>1. /\ q \in Seq(D) /\ q \o z \in Seq(D) /\ Len(q \o z) = n
        /\ \A j \in 1 .. i - 1 : (q \o z)[j] = t[j]
        /\ (q \o z)[i] = b /\ (q \o z)[i + 1] = a
        /\ \A j \in i + 2 .. n : (q \o z)[j] = t[j]
    BY ONLY <2>0 DEF Fits
  <2> HIDE DEF q
  <2>2. \A j \in 1 .. n : u[j] = (q \o z)[j]
    BY <1>6, <1>7, <1>8, <1>9, <2>1
  <2>3. /\ u \in Seq(D) /\ q \o z \in Seq(D) /\ Len(u) = Len(q \o z)
        /\ \A j \in 1 .. Len(u) : u[j] = (q \o z)[j]
    BY <1>6, <2>1, <2>2
  <2> QED BY ONLY <2>3, SameElements
<1>12. \A k \in 1 .. n - 1 : ~ /\ CodePoint[t[k]].break = "ZWJ"
                               /\ CodePoint[t[k + 1]].break \in Extending
  BY DEF JoinerBeforeMark, n
<1>13. Sound(x)
  <2>1. ~ JoinerBeforeMark(x)
    <3> SUFFICES ASSUME NEW k \in 1 .. (i - 1) - 1,
                        CodePoint[x[k]].break = "ZWJ",
                        CodePoint[x[k + 1]].break \in Extending
                 PROVE  FALSE
      BY <1>2 DEF JoinerBeforeMark
    <3>1. k \in 1 .. i - 1 /\ k + 1 \in 1 .. i - 1 /\ k \in 1 .. n - 1
      BY <1>1
    <3> QED BY <1>2, <1>12, <3>1
  <2> QED BY <1>2, <2>1, SoundTexts DEF D
<1>14. LinkOf(x) # "ZWJ"
  <2> SUFFICES ASSUME LinkOf(x) = "ZWJ" PROVE FALSE
    OBVIOUS
  <2>1. x # <<>> /\ CodePoint[x[i - 1]].break = "ZWJ"
    BY <1>2 DEF LinkOf, Link
  <2>2. i - 1 # 0
    BY <1>2, <2>1
  <2>3. i - 1 \in 1 .. i - 1 /\ i - 1 \in 1 .. n - 1 /\ (i - 1) + 1 = i
    BY <1>1, <2>2
  <2>4. CodePoint[t[i]].break = "EXTEND"
    BY <1>4, PropertyAssumption DEF D, a
  <2> QED BY <1>2, <1>12, <2>1, <2>3, <2>4 DEF Extending
<1>15. AlikeTexts(p, q)
  BY <1>4, <1>13, <1>14, SwapAlike DEF D, a, b
<1>16. AlikeTexts(p \o z, q \o z)
  <2>1. \A y \in Seq(DOMAIN CodePoint) :
          ~ JoinerBeforeMark(p \o y) => AlikeTexts(p \o y, q \o y)
    BY <1>15, AlikeTail
  <2>2. z \in Seq(DOMAIN CodePoint) /\ ~ JoinerBeforeMark(p \o z)
    BY <1>3, <1>10 DEF D
  <2> QED BY <2>1, <2>2
<1> HIDE DEF p, q
<1> QED BY <1>10, <1>11, <1>16 DEF u

-----------------------------------------------------------------------------
(* What a code point is decomposed into is read as the code point is.      *)

(* m behind u is all one with the last character of u.                     *)
ReadsOn(u, m) ==
  /\ Sound(u \o m) /\ u \o m # <<>>
  /\ CharsOf(u \o m) = Longer(CharsOf(u), m)

(* One normal code point that goes on with the last character.             *)
LEMMA ReadsOnTurn ==
  ASSUME NEW u, Sound(u), NEW m \in Seq(NormalCodePoints), ReadsOn(u, m),
         u # <<>>,
         NEW e \in NormalCodePoints, MayFollow(u \o m, e), GoesOnIn(u \o m, e)
  PROVE  ReadsOn(u, Append(m, e)) /\ EndsAfter(u \o Append(m, e), u \o m, e)
<1> DEFINE v == u \o m
           x == CharsOf(u)
<1>1. /\ u \in Seq(DOMAIN CodePoint) /\ x \in Seq(Seq(NormalCodePoints))
      /\ x # <<>>
  BY CharsType
<1>2. NormalCodePoints \in SUBSET DOMAIN CodePoint
  BY DEF NormalCodePoints
<1>3. m \in Seq(DOMAIN CodePoint) /\ e \in DOMAIN CodePoint
  BY <1>2
<1>4. u \o Append(m, e) = Append(v, e)
  BY ONLY <1>1, <1>3
<1>5. CodePoint[e].normal = <<e>>
  BY DEF NormalCodePoints
<1>6. Sound(v) /\ CharsOf(v) = Longer(x, m)
  BY DEF ReadsOn
<1>7. MayFollow(v, e) /\ GoesOnIn(v, e)
  OBVIOUS
<1> HIDE DEF v, x
<1>8. /\ Sound(Append(v, e)) /\ EndsAfter(Append(v, e), v, e)
      /\ Append(v, e) # <<>>
      /\ CharsOf(Append(v, e)) = Longer(CharsOf(v), <<e>>)
  BY <1>3, <1>5, <1>6, <1>7, TextTurn
<1>9. <<e>> \in Seq(NormalCodePoints) /\ Append(m, e) = m \o <<e>>
  OBVIOUS
<1>10. Longer(Longer(x, m), <<e>>) = Longer(x, m \o <<e>>)
  <2> DEFINE o == <<e>>
             N == NormalCodePoints
  <2>1. /\ o \in Seq(N) /\ m \in Seq(N) /\ x \in Seq(Seq(N))
        /\ x # <<>>
    BY <1>1, <1>9
  <2> HIDE DEF o, N
  <2>2. Longer(Longer(x, m), o) = Longer(x, m \o o)
    BY ONLY <2>1, LongerTwice
  <2> QED BY <2>2 DEF o
<1>11. ReadsOn(u, Append(m, e))
  BY <1>4, <1>6, <1>8, <1>9, <1>10 DEF ReadsOn, x
<1> QED BY <1>4, <1>8, <1>11 DEF v

(* Nothing behind a text.                                                  *)
LEMMA ReadsNothing ==
  ASSUME NEW u, Sound(u), u # <<>>
  PROVE  u \o <<>> = u /\ ReadsOn(u, <<>>)
<1> DEFINE x == CharsOf(u)
           n == Len(x)
<1>1. /\ u \in Seq(DOMAIN CodePoint) /\ x \in Seq(Seq(NormalCodePoints))
      /\ x # <<>>
  BY CharsType
<1>2. u \o <<>> = u
  BY ONLY <1>1
<1>3. Longer(x, <<>>) = x
  <2> HIDE DEF x
  <2>1. DOMAIN x = 1 .. n /\ n \in 1 .. n /\ x[n] \in Seq(NormalCodePoints)
    BY <1>1
  <2>2. x[n] \o <<>> = x[n]
    BY ONLY <2>1
  <2>3. [x EXCEPT ![n] = @ \o <<>>] = [i \in 1 .. n |-> x[i]]
    BY <2>1, <2>2
  <2>4. x = [i \in 1 .. n |-> x[i]]
    BY <1>1
  <2> QED BY <2>3, <2>4 DEF Longer
<1> HIDE DEF x
<1> QED BY <1>2, <1>3 DEF ReadsOn, x

(* What goes on with a text and leaves its end as it is: a mark behind a   *)
(* character that may have marks, a vowel behind a vowel.                  *)
Stays(u, e) ==
  \/ /\ CodePoint[e].break = "EXTEND" /\ CodePoint[e].indic = "EXTEND"
     /\ LinkOf(u) = "OTHER" /\ ~ AloneOf(u)
  \/ /\ CodePoint[e].break = "V" /\ CodePoint[e].indic = "None"
     /\ LinkOf(u) = "V" /\ ~ PendingOf(u) /\ ~ AloneOf(u)
     /\ ~ OpenOf(u) /\ ~ LinkedOf(u)

LEMMA StaysTurn ==
  ASSUME NEW u, NEW v, SameEnd(u, v), NEW e \in DOMAIN CodePoint, Stays(u, e)
  PROVE  /\ MayFollow(v, e) /\ GoesOnIn(v, e)
         /\ \A w : EndsAfter(w, v, e) => SameEnd(u, w)
<1>1. CASE CodePoint[e].break = "EXTEND" /\ CodePoint[e].indic = "EXTEND"
  <2>1. LinkOf(u) = "OTHER" /\ ~ AloneOf(u) /\ LinkOf(v) = "OTHER"
    BY <1>1 DEF Stays, SameEnd
  <2>2. MayFollow(v, e) /\ GoesOnIn(v, e)
    BY <1>1, <2>1 DEF MayFollow, GoesOnIn, GoesOn, Extending, Controls
  <2>3. ASSUME NEW w, EndsAfter(w, v, e) PROVE SameEnd(u, w)
    <3>1. Link(e) = "OTHER"
      BY <1>1 DEF Link
    <3> QED BY <1>1, <2>1, <2>3, <3>1 DEF EndsAfter, SameEnd
  <2> QED BY <2>2, <2>3
<1>2. CASE CodePoint[e].break = "V" /\ CodePoint[e].indic = "None"
  <2>1. /\ LinkOf(u) = "V" /\ LinkOf(v) = "V" /\ ~ PendingOf(u)
        /\ ~ AloneOf(u) /\ ~ OpenOf(u) /\ ~ LinkedOf(u)
    BY <1>2 DEF Stays, SameEnd
  <2>2. MayFollow(v, e) /\ GoesOnIn(v, e)
    BY <1>2, <2>1 DEF MayFollow, GoesOnIn, GoesOn, Extending, Controls
  <2>3. ASSUME NEW w, EndsAfter(w, v, e) PROVE SameEnd(u, w)
    <3>1. Link(e) = "V"
      BY <1>2 DEF Link
    <3> QED BY <1>2, <2>1, <2>3, <3>1 DEF EndsAfter, SameEnd
  <2> QED BY <2>2, <2>3
<1> QED BY <1>1, <1>2 DEF Stays

(* Any number of such code points.                                         *)
LEMMA RestStays ==
  ASSUME NEW u, Sound(u), u # <<>>
  PROVE  \A m \in Seq({e \in NormalCodePoints : Stays(u, e)}) :
           ReadsOn(u, m) /\ SameEnd(u, u \o m)
<1> DEFINE K == {e \in NormalCodePoints : Stays(u, e)}
           S == {m \in Seq(K) : ReadsOn(u, m) /\ SameEnd(u, u \o m)}
<1>1. <<>> \in S
  <2>1. SameEnd(u, u)
    BY DEF SameEnd
  <2>2. <<>> \in Seq(K)
    OBVIOUS
  <2> QED BY <2>1, <2>2, ReadsNothing
<1>2. ASSUME NEW m \in Seq(K), NEW e \in K, m \in S PROVE Append(m, e) \in S
  <2>1. Append(m, e) \in Seq(K) /\ m \in Seq(NormalCodePoints)
    OBVIOUS
  <2>2. ReadsOn(u, m) /\ SameEnd(u, u \o m)
    BY <1>2
  <2>3. e \in NormalCodePoints /\ e \in DOMAIN CodePoint /\ Stays(u, e)
    BY DEF NormalCodePoints
  <2>4. /\ MayFollow(u \o m, e) /\ GoesOnIn(u \o m, e)
        /\ \A w : EndsAfter(w, u \o m, e) => SameEnd(u, w)
    BY <2>2, <2>3, StaysTurn
  <2> HIDE DEF K
  <2>5. ReadsOn(u, Append(m, e)) /\ EndsAfter(u \o Append(m, e), u \o m, e)
    BY <2>1, <2>2, <2>3, <2>4, ReadsOnTurn
  <2> QED BY <2>1, <2>4, <2>5
<1> HIDE DEF K, S
<1>3. Seq(K) \subseteq S
  BY <1>1, <1>2, SequenceInduction
<1> QED BY <1>3 DEF S, K

(* The first element of a sequence and the others.                         *)
LEMMA FirstAndRest ==
  ASSUME NEW D, NEW s \in Seq(D), s # <<>>
  PROVE  LET m == SubSeq(s, 2, Len(s))
         IN  /\ s[1] \in D /\ m \in Seq(D) /\ Len(m) = Len(s) - 1
             /\ \A j \in 1 .. Len(s) - 1 : m[j] = s[1 + j]
             /\ s = <<s[1]>> \o m
<1> DEFINE n == Len(s)
           m == SubSeq(s, 2, n)
           d == s[1]
           z == <<d>>
<1>1. n \in Nat /\ n # 0 /\ 1 \in 1 .. n /\ 1 \in 0 .. n /\ 1 + 1 = 2
  OBVIOUS
<1>2. d \in D
  BY <1>1
<1>3. /\ SubSeq(s, 1 + 1, n) \in Seq(D) /\ Len(SubSeq(s, 1 + 1, n)) = n - 1
      /\ \A j \in 1 .. n - 1 : SubSeq(s, 1 + 1, n)[j] = s[1 + j]
  BY <1>1, EndPiece
<1>4. /\ m \in Seq(D) /\ Len(m) = n - 1
      /\ \A j \in 1 .. n - 1 : m[j] = s[1 + j]
  BY <1>1, <1>3
<1>5. z \in Seq(D) /\ Len(z) = 1 /\ z[1] = d
  BY <1>2
<1> HIDE DEF m, z
<1>6. /\ z \o m \in Seq(D) /\ Len(z \o m) = Len(z) + Len(m)
      /\ \A j \in 1 .. Len(z) : (z \o m)[j] = z[j]
      /\ \A j \in 1 .. Len(m) : (z \o m)[Len(z) + j] = m[j]
  <2>1. z \in Seq(D) /\ m \in Seq(D)
    BY ONLY <1>4, <1>5
  <2> QED BY ONLY <2>1, ConcatElements
<1> HIDE DEF n
<1>7. ASSUME NEW i \in 1 .. n PROVE s[i] = (z \o m)[i]
  <2>1. CASE i = 1
    <3>1. 1 \in 1 .. Len(z)
      BY <1>5
    <3> QED BY <1>5, <1>6, <2>1, <3>1
  <2>2. CASE i # 1
    <3> DEFINE j == i - 1
    <3>1. j \in 1 .. n - 1 /\ i = 1 + j
      BY <1>1, <2>2
    <3> HIDE DEF j
    <3>2. (z \o m)[1 + j] = m[j] /\ m[j] = s[1 + j]
      BY <1>4, <1>5, <1>6, <3>1
    <3> QED BY <3>1, <3>2
  <2> QED BY <2>1, <2>2
<1>8. Len(z \o m) = n
  BY <1>1, <1>4, <1>5, <1>6
<1>9. s = z \o m
  <2> DEFINE x == z \o m
  <2>1. x \in Seq(D) /\ Len(s) = Len(x) /\ \A i \in 1 .. Len(s) : s[i] = x[i]
    BY <1>6, <1>7, <1>8 DEF n
  <2> HIDE DEF x
  <2>2. s = x
    BY ONLY s \in Seq(D), <2>1, SameElements
  <2> QED BY <2>2 DEF x
<1> QED BY <1>2, <1>4, <1>9 DEF m, n, z

(* What is behind a text, and the first of it.                             *)
LEMMA FirstBehind ==
  ASSUME NEW D, NEW u \in Seq(D), NEW d \in D, NEW m \in Seq(D)
  PROVE  u \o (<<d>> \o m) = Append(u, d) \o m
<1> DEFINE z == <<d>>
<1>1. z \in Seq(D) /\ Append(u, d) = u \o z
  OBVIOUS
<1> HIDE DEF z
<1>2. u \o (z \o m) = (u \o z) \o m
  BY ONLY <1>1, u \in Seq(D), m \in Seq(D)
<1> QED BY <1>1, <1>2 DEF z

(* d is read behind u as c is behind t.                                    *)
FirstAlike(c, d) ==
  /\ CodePoint[d].indic = CodePoint[c].indic
  /\ \/ CodePoint[d].break = CodePoint[c].break
     \/ CodePoint[c].break \in {"LV", "LVT"} /\ CodePoint[d].break = "L"

LEMMA FirstReads ==
  ASSUME NEW t, NEW u, SameEnd(t, u), NEW c, NEW d, FirstAlike(c, d),
         MayFollow(t, c)
  PROVE  MayFollow(u, d) /\ (GoesOnIn(u, d) <=> GoesOnIn(t, c))
<1>1. /\ LinkOf(u) = LinkOf(t) /\ (AloneOf(u) <=> AloneOf(t))
      /\ PendingOf(u) <=> PendingOf(t)
      /\ LinkedOf(u) <=> LinkedOf(t)
  BY DEF SameEnd
<1>2. CASE CodePoint[d].break = CodePoint[c].break
  BY <1>1, <1>2 DEF FirstAlike, MayFollow, GoesOnIn, GoesOn
<1>3. CASE CodePoint[c].break \in {"LV", "LVT"} /\ CodePoint[d].break = "L"
  <2>1. MayFollow(u, d)
    BY <1>3 DEF MayFollow, Extending
  <2>2. GoesOnIn(u, d) <=>
          /\ LinkOf(t) \notin Controls
          /\ \/ LinkOf(t) = "PREPEND" \/ LinkOf(t) = "L"
             \/ LinkedOf(t) /\ CodePoint[c].indic = "CONSONANT"
    BY <1>1, <1>3 DEF FirstAlike, GoesOnIn, GoesOn, Extending, Controls
  <2>3. GoesOnIn(t, c) <=>
          /\ LinkOf(t) \notin Controls
          /\ \/ LinkOf(t) = "PREPEND" \/ LinkOf(t) = "L"
             \/ LinkedOf(t) /\ CodePoint[c].indic = "CONSONANT"
    BY <1>3 DEF GoesOnIn, GoesOn, Extending, Controls
  <2> QED BY <2>1, <2>2, <2>3
<1> QED BY <1>2, <1>3 DEF FirstAlike

(* Of code points that are like each other the text ends alike.            *)
LEMMA FirstEnds ==
  ASSUME NEW t, NEW u, SameEnd(t, u), NEW c, NEW d,
         CodePoint[d].indic = CodePoint[c].indic,
         CodePoint[d].break = CodePoint[c].break,
         NEW v, EndsAfter(v, t, c), NEW w, EndsAfter(w, u, d)
  PROVE  SameEnd(v, w)
<1>1. Link(c) = Link(d)
  BY DEF Link
<1> QED BY <1>1 DEF SameEnd, EndsAfter

(* A code point and others that go on with it.                             *)
LEMMA MarkedReads ==
  ASSUME NEW t, NEW u, Sound(t), Sound(u), SameEnd(t, u),
         NEW c \in DOMAIN CodePoint, MayFollow(t, c),
         NEW d \in NormalCodePoints, NEW m \in Seq(NormalCodePoints),
         CodePoint[d].indic = CodePoint[c].indic,
         CodePoint[d].break = CodePoint[c].break,
         \A i \in 1 .. Len(m) :
           \/ /\ CodePoint[m[i]].break = "EXTEND"
              /\ CodePoint[m[i]].indic = "EXTEND"
              /\ CodePoint[c].break \in {"OTHER", "EXTEND", "SPACINGMARK"}
           \/ /\ CodePoint[m[i]].break = "V" /\ CodePoint[m[i]].indic = "None"
              /\ CodePoint[c].break = "V"
  PROVE  /\ ReadsOn(Append(u, d), m)
         /\ SameEnd(Append(t, c), Append(u, d) \o m)
<1> DEFINE v == Append(t, c)
           w == Append(u, d)
           K == {e \in NormalCodePoints : Stays(w, e)}
<1>1. d \in DOMAIN CodePoint
  BY DEF NormalCodePoints
<1>2. MayFollow(u, d)
  BY FirstReads DEF FirstAlike
<1>3. Sound(v) /\ EndsAfter(v, t, c)
  BY TextTurn
<1>4. Sound(w) /\ w # <<>> /\ EndsAfter(w, u, d)
  BY <1>1, <1>2, TextTurn
<1> HIDE DEF v, w
<1>5. SameEnd(v, w)
  BY <1>3, <1>4, FirstEnds
<1>6. ASSUME NEW i \in 1 .. Len(m) PROVE m[i] \in K
  <2>1. m[i] \in NormalCodePoints
    OBVIOUS
  <2>2. CASE /\ CodePoint[m[i]].break = "EXTEND"
             /\ CodePoint[m[i]].indic = "EXTEND"
             /\ CodePoint[c].break \in {"OTHER", "EXTEND", "SPACINGMARK"}
    <3>1. LinkOf(w) = "OTHER" /\ ~ AloneOf(w)
      BY <1>4, <2>2 DEF EndsAfter, Link
    <3> QED BY <2>1, <2>2, <3>1 DEF Stays
  <2>3. CASE /\ CodePoint[m[i]].break = "V" /\ CodePoint[m[i]].indic = "None"
             /\ CodePoint[c].break = "V"
    <3>1. CodePoint[d].indic \notin {"EXTEND", "LINKER", "CONSONANT"}
      BY <2>3, PropertyAssumption DEF Extending
    <3>2. /\ LinkOf(w) = "V" /\ ~ AloneOf(w) /\ ~ PendingOf(w)
          /\ ~ OpenOf(w) /\ ~ LinkedOf(w)
      BY <1>4, <2>3, <3>1 DEF EndsAfter, Link
    <3> QED BY <2>1, <2>3, <3>2 DEF Stays
  <2> QED BY <2>2, <2>3
<1>7. m \in Seq(K)
  <2> HIDE DEF K
  <2> QED BY <1>6, SequenceOf
<1>8. ReadsOn(w, m) /\ SameEnd(w, w \o m)
  BY <1>4, <1>7, RestStays
<1>9. SameEnd(v, w \o m)
  BY <1>5, <1>8 DEF SameEnd
<1> QED BY <1>8, <1>9 DEF v, w

(* A syllable and its letters.                                             *)
LEMMA SyllableReads ==
  ASSUME NEW t, NEW u, Sound(t), Sound(u), SameEnd(t, u),
         NEW c \in DOMAIN CodePoint, MayFollow(t, c),
         NEW l \in NormalCodePoints, CodePoint[l].break = "L",
         NEW e \in NormalCodePoints, CodePoint[e].break = "V",
         CodePoint[c].indic = "None", CodePoint[l].indic = "None",
         CodePoint[e].indic = "None", CodePoint[c].break \in {"LV", "LVT"}
  PROVE  /\ ReadsOn(Append(u, l), <<e>>)
         /\ CodePoint[c].break = "LV" =>
              SameEnd(Append(t, c), Append(u, l) \o <<e>>)
         /\ \A h \in NormalCodePoints :
              /\ CodePoint[c].break = "LVT"
              /\ CodePoint[h].break = "T" /\ CodePoint[h].indic = "None"
              => /\ ReadsOn(Append(u, l), <<e, h>>)
                 /\ SameEnd(Append(t, c), Append(u, l) \o <<e, h>>)
<1> DEFINE v == Append(t, c)
           w == Append(u, l)
           N == NormalCodePoints
<1>1. l \in DOMAIN CodePoint
  BY DEF NormalCodePoints
<1>2. MayFollow(u, l)
  BY FirstReads DEF FirstAlike
<1>3. Sound(v) /\ EndsAfter(v, t, c)
  BY TextTurn
<1>4. Sound(w) /\ w # <<>> /\ EndsAfter(w, u, l)
  BY <1>1, <1>2, TextTurn
<1> HIDE DEF v, w
<1>5. w \o <<>> = w /\ ReadsOn(w, <<>>) /\ <<>> \in Seq(N)
  BY <1>4, ReadsNothing
<1>6. LinkOf(w) = "L"
  BY <1>4 DEF EndsAfter, Link
<1>7. MayFollow(w, e) /\ GoesOnIn(w, e)
  BY <1>6 DEF MayFollow, GoesOnIn, GoesOn, Extending, Controls
<1>8. Append(<<>>, e) = <<e>>
  OBVIOUS
<1>9. ReadsOn(w, <<e>>) /\ EndsAfter(w \o <<e>>, w, e)
  <2>1. MayFollow(w \o <<>>, e) /\ GoesOnIn(w \o <<>>, e)
    BY <1>5, <1>7
  <2>2. /\ ReadsOn(w, Append(<<>>, e))
        /\ EndsAfter(w \o Append(<<>>, e), w \o <<>>, e)
    BY <1>4, <1>5, <2>1, ReadsOnTurn
  <2> QED BY <1>5, <1>8, <2>2
<1>10. CodePoint[c].break = "LV" => SameEnd(v, w \o <<e>>)
  BY <1>3, <1>9 DEF EndsAfter, SameEnd, Link
<1>11. ASSUME NEW h \in N, CodePoint[c].break = "LVT",
              CodePoint[h].break = "T", CodePoint[h].indic = "None"
       PROVE  ReadsOn(w, <<e, h>>) /\ SameEnd(v, w \o <<e, h>>)
  <2>1. LinkOf(w \o <<e>>) = "V"
    BY <1>9 DEF EndsAfter, Link
  <2>2. MayFollow(w \o <<e>>, h) /\ GoesOnIn(w \o <<e>>, h)
    BY <1>11, <2>1 DEF MayFollow, GoesOnIn, GoesOn, Extending, Controls
  <2>3. <<e>> \in Seq(N) /\ Append(<<e>>, h) = <<e, h>>
    <3>1. e \in N /\ h \in N
      BY <1>11
    <3> HIDE DEF N
    <3>2. <<e>> \in Seq(N)
      BY ONLY <3>1
    <3>3. Append(<<e>>, h) = <<e, h>>
      <4> DEFINE x == <<e>>
                 q == Append(x, h)
      <4>1. Len(x) = 1 /\ x[1] = e /\ x \in Seq(N) /\ 1 \in 1 .. 1
        BY ONLY <3>1
      <4> HIDE DEF x
      <4>2. q \in Seq(N) /\ Len(q) = 2 /\ q[1] = e /\ q[2] = h
        <5>0. x \in Seq(N)
          BY ONLY <4>1
        <5>1. /\ q \in Seq(N) /\ Len(q) = Len(x) + 1 /\ q[Len(x) + 1] = h
              /\ \A i \in 1 .. Len(x) : q[i] = x[i]
          BY ONLY <3>1, <5>0, AppendProperties
        <5> HIDE DEF q
        <5>2. Len(x) + 1 = 2
          BY ONLY <4>1
        <5> QED BY ONLY <4>1, <5>1, <5>2
      <4> HIDE DEF q
      <4>3. q = <<e, h>>
        BY ONLY <4>2
      <4> QED BY <4>3 DEF q, x
    <3> QED BY <3>2, <3>3
  <2> DEFINE x == <<e>>
  <2> HIDE DEF x
  <2>4. /\ ReadsOn(w, Append(x, h))
        /\ EndsAfter(w \o Append(x, h), w \o x, h)
    BY <1>4, <1>9, <2>2, <2>3, ReadsOnTurn DEF x
  <2>5. ReadsOn(w, <<e, h>>) /\ EndsAfter(w \o <<e, h>>, w \o <<e>>, h)
    BY <2>3, <2>4 DEF x
  <2>6. SameEnd(v, w \o <<e, h>>)
    BY <1>3, <1>11, <2>5 DEF EndsAfter, SameEnd, Link
  <2> QED BY <2>5, <2>6
<1> QED BY <1>9, <1>10, <1>11 DEF v, w

(* The parts of a code point that decomposes alike.                        *)
LEMMA PartsRead ==
  ASSUME NEW t, NEW u, Sound(t), Sound(u), SameEnd(t, u),
         NEW c \in DOMAIN CodePoint, MayFollow(t, c), DecomposesAlike(c)
  PROVE  \E d \in NormalCodePoints, m \in Seq(NormalCodePoints) :
           /\ CodePoint[c].normal = <<d>> \o m /\ FirstAlike(c, d)
           /\ ReadsOn(Append(u, d), m)
           /\ SameEnd(Append(t, c), Append(u, d) \o m)
<1> DEFINE N == NormalCodePoints
           s == CodePoint[c].normal
           d == s[1]
           m == SubSeq(s, 2, Len(s))
<1>1. s \in Seq(N)
  BY CodePointAssumption
<1>2. s # <<>>
  BY DEF DecomposesAlike
<1> HIDE DEF s
<1>3. /\ d \in N /\ m \in Seq(N) /\ Len(m) = Len(s) - 1
      /\ \A j \in 1 .. Len(s) - 1 : m[j] = s[1 + j]
      /\ s = <<d>> \o m
  BY <1>1, <1>2, FirstAndRest
<1>4. CASE /\ CodePoint[d].break = CodePoint[c].break
           /\ CodePoint[d].indic = CodePoint[c].indic
           /\ \A i \in 2 .. Len(s) :
                \/ /\ CodePoint[s[i]].break = "EXTEND"
                   /\ CodePoint[s[i]].indic = "EXTEND"
                   /\ CodePoint[c].break \in {"OTHER", "EXTEND", "SPACINGMARK"}
                \/ /\ CodePoint[s[i]].break = "V"
                   /\ CodePoint[s[i]].indic = "None"
                   /\ CodePoint[c].break = "V"
  <2> HIDE DEF d, m
  <2>1. Len(s) \in Nat
    BY <1>1
  <2>2. ASSUME NEW j \in 1 .. Len(m)
        PROVE  \/ /\ CodePoint[m[j]].break = "EXTEND"
                  /\ CodePoint[m[j]].indic = "EXTEND"
                  /\ CodePoint[c].break \in {"OTHER", "EXTEND", "SPACINGMARK"}
               \/ /\ CodePoint[m[j]].break = "V"
                  /\ CodePoint[m[j]].indic = "None"
                  /\ CodePoint[c].break = "V"
    <3>1. 1 + j \in 2 .. Len(s) /\ j \in 1 .. Len(s) - 1
      BY <1>3, <2>1
    <3> DEFINE i == 1 + j
    <3>2. i \in 2 .. Len(s) /\ m[j] = s[i]
      BY <1>3, <3>1
    <3> HIDE DEF i
    <3> QED BY <1>4, <3>2
  <2>3. FirstAlike(c, d)
    BY <1>4 DEF FirstAlike
  <2>4. ReadsOn(Append(u, d), m) /\ SameEnd(Append(t, c), Append(u, d) \o m)
    BY <1>3, <1>4, <2>2, MarkedReads
  <2> QED BY <1>3, <2>3, <2>4 DEF s
<1>5. CASE /\ \A e \in {c} \cup ToSet(s) : CodePoint[e].indic = "None"
           /\ CodePoint[c].break = "LV" /\ Len(s) = 2
           /\ CodePoint[s[1]].break = "L" /\ CodePoint[s[2]].break = "V"
  <2>1. 1 \in DOMAIN s /\ 2 \in DOMAIN s
    BY <1>1, <1>5
  <2>2. s[1] \in ToSet(s) /\ s[2] \in ToSet(s) /\ s[1] \in N /\ s[2] \in N
    BY <1>1, <2>1 DEF ToSet
  <2>3. m = <<s[2]>>
    <3>1. Len(m) = 1 /\ m[1] = s[2]
      BY <1>3, <1>5
    <3> HIDE DEF m
    <3>2. m \in Seq(N)
      BY <1>3
    <3> QED BY ONLY <3>1, <3>2
  <2> HIDE DEF m
  <2>4. FirstAlike(c, d)
    BY <1>5, <2>2 DEF FirstAlike
  <2> DEFINE e == s[2]
  <2>5. /\ CodePoint[d].break = "L" /\ CodePoint[e].break = "V"
        /\ CodePoint[c].indic = "None" /\ CodePoint[d].indic = "None"
        /\ CodePoint[e].indic = "None" /\ CodePoint[c].break = "LV"
        /\ CodePoint[c].break \in {"LV", "LVT"} /\ d \in N /\ e \in N
    BY <1>5, <2>2
  <2>6. m = <<e>>
    BY <2>3
  <2> HIDE DEF d, e
  <2>7. /\ ReadsOn(Append(u, d), <<e>>)
        /\ SameEnd(Append(t, c), Append(u, d) \o <<e>>)
    BY <2>5, SyllableReads
  <2> QED BY <1>3, <2>4, <2>6, <2>7 DEF s
<1>6. CASE /\ \A e \in {c} \cup ToSet(s) : CodePoint[e].indic = "None"
           /\ CodePoint[c].break = "LVT" /\ Len(s) = 3
           /\ CodePoint[s[1]].break = "L" /\ CodePoint[s[2]].break = "V"
           /\ CodePoint[s[3]].break = "T"
  <2>1. 1 \in DOMAIN s /\ 2 \in DOMAIN s /\ 3 \in DOMAIN s
    BY <1>1, <1>6
  <2>2. /\ s[1] \in ToSet(s) /\ s[2] \in ToSet(s) /\ s[3] \in ToSet(s)
        /\ s[1] \in N /\ s[2] \in N /\ s[3] \in N
    BY <1>1, <2>1 DEF ToSet
  <2>3. m = <<s[2], s[3]>>
    <3>1. Len(m) = 2 /\ m[1] = s[2] /\ m[2] = s[3]
      BY <1>3, <1>6
    <3> HIDE DEF m
    <3>2. m \in Seq(N)
      BY <1>3
    <3> QED BY ONLY <3>1, <3>2
  <2> HIDE DEF m
  <2>4. FirstAlike(c, d)
    BY <1>6, <2>2 DEF FirstAlike
  <2> DEFINE e == s[2]
             h == s[3]
  <2>5. /\ CodePoint[d].break = "L" /\ CodePoint[e].break = "V"
        /\ CodePoint[c].indic = "None" /\ CodePoint[d].indic = "None"
        /\ CodePoint[e].indic = "None" /\ CodePoint[c].break = "LVT"
        /\ CodePoint[c].break \in {"LV", "LVT"} /\ d \in N /\ e \in N
        /\ h \in N /\ CodePoint[h].break = "T" /\ CodePoint[h].indic = "None"
    BY <1>6, <2>2
  <2>6. m = <<e, h>>
    BY <2>3
  <2> HIDE DEF d, e, h
  <2>7. /\ ReadsOn(Append(u, d), <<e, h>>)
        /\ SameEnd(Append(t, c), Append(u, d) \o <<e, h>>)
    BY <2>5, SyllableReads
  <2> QED BY <1>3, <2>4, <2>6, <2>7 DEF s
<1> QED BY <1>4, <1>5, <1>6 DEF DecomposesAlike, s

(* A code point behind a text, and its decomposition behind one like it.   *)
LEMMA DecomposedTurn ==
  ASSUME NEW t, NEW u, AlikeTexts(t, u), NEW c \in DOMAIN CodePoint,
         MayFollow(t, c), DecomposesAlike(c)
  PROVE  AlikeTexts(Append(t, c), u \o CodePoint[c].normal)
<1> DEFINE N == NormalCodePoints
           x == CharsOf(t)
           y == CharsOf(u)
           s == CodePoint[c].normal
           l == Len(x)
<1>1. Sound(t) /\ Sound(u) /\ SameEnd(t, u) /\ SameSorted(x, y)
  BY DEF AlikeTexts
<1>2. PICK d \in N, m \in Seq(N) :
        /\ s = <<d>> \o m /\ FirstAlike(c, d) /\ ReadsOn(Append(u, d), m)
        /\ SameEnd(Append(t, c), Append(u, d) \o m)
  BY <1>1, PartsRead
<1>3. /\ MayFollow(u, d) /\ (GoesOnIn(u, d) <=> GoesOnIn(t, c))
      /\ d \in DOMAIN CodePoint /\ CodePoint[d].normal = <<d>>
  BY <1>1, <1>2, FirstReads DEF NormalCodePoints
<1>4. /\ Sound(Append(t, c))
      /\ CharsOf(Append(t, c)) =
           IF GoesOnIn(t, c) THEN Longer(x, s) ELSE Append(x, s)
  BY <1>1, TextTurn
<1>5. CharsOf(Append(u, d)) =
        IF GoesOnIn(t, c) THEN Longer(y, <<d>>) ELSE Append(y, <<d>>)
  BY <1>1, <1>3, TextTurn
<1>6. u \o s = Append(u, d) \o m
  <2>1. u \in Seq(DOMAIN CodePoint) /\ N \in SUBSET DOMAIN CodePoint
    BY <1>1, CharsType DEF NormalCodePoints
  <2>2. m \in Seq(DOMAIN CodePoint)
    BY <2>1
  <2>3. u \o (<<d>> \o m) = Append(u, d) \o m
    BY ONLY <1>3, <2>1, <2>2, FirstBehind
  <2> QED BY <1>2, <2>3
<1>7. Sound(u \o s) /\ CharsOf(u \o s) = Longer(CharsOf(Append(u, d)), m)
  BY <1>2, <1>6 DEF ReadsOn
<1>8. x \in Seq(Seq(N)) /\ y \in Seq(Seq(N)) /\ s \in Seq(N)
  BY <1>1, CharsType, CodePointAssumption
<1>9. GoesOnIn(t, c) => x # <<>> /\ y # <<>>
  <2>1. GoesOnIn(t, c) => t # <<>> /\ u # <<>>
    BY <1>3, GoesOnBehind
  <2> QED BY <1>1, <2>1, CharsType
<1>10. x # <<>> => CanonicalSort(x[Len(x)] \o s) = CanonicalSort(y[Len(y)] \o s)
  <2> HAVE x # <<>>
  <2> HIDE DEF x, y, s, N
  <2>1. l \in 1 .. Len(x) /\ Len(y) = l
    BY <1>1, <1>8 DEF SameSorted
  <2>2. /\ x[l] \in Seq(N) /\ y[l] \in Seq(N)
        /\ CanonicalSort(x[l]) = CanonicalSort(y[l])
    BY <1>1, <1>8, <2>1 DEF SameSorted
  <2>3. \A r \in Seq(N) : CanonicalSort(x[l] \o r) = CanonicalSort(y[l] \o r)
    BY ONLY <2>2, SortBefore
  <2> QED BY <1>8, <2>1, <2>3
<1> DEFINE o == <<d>>
<1>11. o \in Seq(N) /\ m \in Seq(N)
  BY <1>2
<1>12. s = o \o m
  BY <1>2
<1>13. CharsOf(u \o s) =
         Longer(IF GoesOnIn(t, c) THEN Longer(y, o) ELSE Append(y, o), m)
  BY <1>5, <1>7
<1> HIDE DEF x, y, s, N, o
<1>14. CharsOf(u \o s) = IF GoesOnIn(t, c) THEN Longer(y, s) ELSE Append(y, s)
  <2>1. Longer(Append(y, o), m) = Append(y, o \o m)
    BY ONLY <1>8, <1>11, LongerTwice, SMTT(60)
  <2>2. y # <<>> => Longer(Longer(y, o), m) = Longer(y, o \o m)
    BY ONLY <1>8, <1>11, LongerTwice, SMTT(60)
  <2> QED BY <1>9, <1>12, <1>13, <2>1, <2>2
<1>15. SameSorted(CharsOf(Append(t, c)), CharsOf(u \o s))
  <2>1. /\ SameSorted(Append(x, s), Append(y, s))
        /\ x # <<>> => SameSorted(Longer(x, s), Longer(y, s))
    BY <1>1, <1>8, <1>10, SameSortedGrows
  <2> QED BY <1>4, <1>9, <1>14, <2>1
<1>16. SameEnd(Append(t, c), u \o s)
  BY <1>2, <1>6
<1> QED BY <1>4, <1>7, <1>15, <1>16 DEF AlikeTexts, s

(* A text and what it is decomposed into.                                  *)
LEMMA DecomposedAlike ==
  ASSUME NEW P \in SUBSET DOMAIN CodePoint, \A c \in P : DecomposesAlike(c)
  PROVE  \A t \in Seq(P) :
           ~ JoinerBeforeMark(t) => AlikeTexts(t, Spell(t, "normal"))
<1> DEFINE D == DOMAIN CodePoint
           S == {t \in Seq(P) :
                   ~ JoinerBeforeMark(t) => AlikeTexts(t, Spell(t, "normal"))}
<1>1. <<>> \in S
  <2>1. CharsOf(<<>>) = <<>> /\ <<>> \in Seq(D) /\ <<>> \in Seq(P)
    BY ReadNothing DEF CharsOf, BreakCodePointsIntoCharacters, NoWord
  <2>2. Sound(<<>>) /\ SameEnd(<<>>, <<>>) /\ SameSorted(<<>>, <<>>)
    BY <2>1 DEF Sound, SameEnd, SameSorted
  <2>3. AlikeTexts(<<>>, <<>>)
    BY <2>1, <2>2 DEF AlikeTexts
  <2> QED BY <2>1, <2>3, NormalAppend
<1>2. ASSUME NEW t \in Seq(P), NEW c \in P, t \in S PROVE Append(t, c) \in S
  <2>1. Append(t, c) \in Seq(P) /\ t \in Seq(D) /\ c \in D
    OBVIOUS
  <2>2. Spell(Append(t, c), "normal") =
          Spell(t, "normal") \o CodePoint[c].normal
    BY <2>1, NormalAppend
  <2>3. ASSUME ~ JoinerBeforeMark(Append(t, c))
        PROVE  AlikeTexts(Append(t, c), Spell(Append(t, c), "normal"))
    <3>1. ~ JoinerBeforeMark(t) /\ MayFollow(t, c)
      BY <2>1, <2>3, JoinerTurn
    <3>2. AlikeTexts(t, Spell(t, "normal"))
      BY <1>2, <3>1
    <3> QED BY <2>1, <2>2, <3>1, <3>2, DecomposedTurn
  <2> QED BY <2>1, <2>3
<1> HIDE DEF S
<1>3. Seq(P) \subseteq S
  BY <1>1, <1>2, SequenceInduction
<1> QED BY <1>3 DEF S

(* Character.cpp:80-82: texts that Unicode takes for the same have the     *)
(* same characters, whatever is typed, if no joiner stands before a mark   *)
(* and each code point ends a text as its decomposition does.              *)
THEOREM EquivalentTextsAreTheSame ==
  ASSUME NEW P \in SUBSET DOMAIN CodePoint, \A c \in P : DecomposesAlike(c)
  PROVE  Spec => [](text \in Seq(P) => CanonicalEquivalence)
<1>1. text \in Seq(P) => CanonicalEquivalence
  <2> SUFFICES ASSUME text \in Seq(P), ~ JoinerBeforeMark(text),
                      NEW u \in Equivalent(text)
               PROVE  Characters(u) = Characters(text)
    BY DEF CanonicalEquivalence
  <2> DEFINE t == text
  <2>1. t \in Seq(DOMAIN CodePoint) /\ ~ JoinerBeforeMark(t)
    OBVIOUS
  <2>2. CASE u = Spell(t, "normal")
    <3>1. AlikeTexts(t, u)
      BY <2>2, DecomposedAlike
    <3> QED BY <3>1, AlikeCharacters
  <2>3. ASSUME NEW i \in 1 .. Len(t) - 1,
               CodePoint[t[i]].class # 0, CodePoint[t[i + 1]].class # 0,
               CodePoint[t[i]].class # CodePoint[t[i + 1]].class,
               u = [t EXCEPT ![i] = t[i + 1], ![i + 1] = t[i]]
        PROVE  Characters(u) = Characters(t)
    <3>1. AlikeTexts(t, u)
      BY <2>1, <2>3, SwappedAlike
    <3> QED BY <3>1, AlikeCharacters
  <2> QED BY <2>2, <2>3 DEF Equivalent
<1> QED BY <1>1, PTL
=============================================================================
