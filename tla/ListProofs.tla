----------------------------- MODULE ListProofs -----------------------------
(***************************************************************************)
(* What the proofs about the relay and its page need to know of lists: the *)
(* rows of a finite set in order, sums, and the phases of averaged         *)
(* readings.                                                               *)
(***************************************************************************)
EXTENDS ServerClassifier, FunctionTheorems, FiniteSetTheorems, SequenceTheorems,
        WellFoundedInduction, TLAPS

----------------------------------------------------------------------------
(* A finite set in order.  A strict order is passed as the set of its      *)
(* pairs.                                                                  *)

StrictOrder(R, S) ==
  /\ \A x \in S : <<x, x>> \notin R
  /\ \A x, y \in S : x # y => <<x, y>> \in R \/ <<y, x>> \in R
  /\ \A x, y, z \in S : <<x, y>> \in R /\ <<y, z>> \in R => <<x, z>> \in R

Below(R, S, x) == {y \in S : <<y, x>> \in R}

Ranked(R, S) ==
  [i \in 1 .. Cardinality(S) |-> CHOOSE x \in S : Cardinality(Below(R, S, x)) = i - 1]

(* Of two elements, the greater has more elements below it. *)
LEMMA RankGrows ==
  ASSUME NEW S, IsFiniteSet(S), NEW R, StrictOrder(R, S), NEW x \in S, NEW y \in S,
         <<x, y>> \in R
  PROVE  Cardinality(Below(R, S, x)) < Cardinality(Below(R, S, y))
<1>1. Below(R, S, x) \subseteq Below(R, S, y) /\ Below(R, S, x) \in SUBSET Below(R, S, y)
  BY DEF StrictOrder, Below
<1>2. x \in Below(R, S, y) /\ x \notin Below(R, S, x)
  BY DEF StrictOrder, Below
<1>3. IsFiniteSet(Below(R, S, y)) /\ IsFiniteSet(Below(R, S, x))
  BY FS_Subset DEF Below
<1>4. /\ Cardinality(Below(R, S, x)) \in Nat /\ Cardinality(Below(R, S, y)) \in Nat
      /\ Cardinality(Below(R, S, x)) <= Cardinality(Below(R, S, y))
      /\ Cardinality(Below(R, S, x)) # Cardinality(Below(R, S, y))
  BY <1>1, <1>2, <1>3, FS_Subset, FS_CardinalityType
<1> QED
  BY <1>4

(* Every rank is taken, once. *)
LEMMA RanksFill ==
  ASSUME NEW S, IsFiniteSet(S), NEW R, StrictOrder(R, S)
  PROVE  /\ Cardinality(S) \in Nat
         /\ \A i \in 1 .. Cardinality(S) : \E x \in S : Cardinality(Below(R, S, x)) = i - 1
         /\ \A x \in S : Cardinality(Below(R, S, x)) \in 0 .. Cardinality(S) - 1
<1> DEFINE n == Cardinality(S)
           f == [x \in S |-> Cardinality(Below(R, S, x))]
<1>1. n \in Nat
  BY FS_CardinalityType
<1>2. \A x \in S : Cardinality(Below(R, S, x)) \in 0 .. n - 1
  <2> TAKE x \in S
  <2>1. Below(R, S, x) \in SUBSET (S \ {x})
    BY DEF Below, StrictOrder
  <2>2. IsFiniteSet(S \ {x}) /\ Cardinality(S \ {x}) = n - 1
    BY FS_RemoveElement
  <2>3. /\ IsFiniteSet(Below(R, S, x)) /\ Cardinality(Below(R, S, x)) <= n - 1
    BY <2>1, <2>2, FS_Subset
  <2>4. Cardinality(Below(R, S, x)) \in Nat
    BY <2>3, FS_CardinalityType
  <2> QED
    BY <1>1, <2>3, <2>4
<1>3. f \in Injection(S, 0 .. n - 1)
  <2>1. f \in [S -> 0 .. n - 1]
    BY <1>2
  <2>2. ASSUME NEW x \in S, NEW y \in S, f[x] = f[y]
        PROVE  x = y
    <3>1. f[x] \in Nat /\ f[y] \in Nat
      BY <1>2
    <3>2. <<x, y>> \in R => f[x] < f[y]
      BY RankGrows
    <3>3. <<y, x>> \in R => f[y] < f[x]
      BY RankGrows
    <3> QED
      BY <2>2, <3>1, <3>2, <3>3 DEF StrictOrder
  <2> QED
    BY <2>1, <2>2, Fun_IsInj
<1>4. IsFiniteSet(0 .. n - 1) /\ Cardinality(0 .. n - 1) = n
  <2>1. 0 \in Int /\ n - 1 \in Int
    BY <1>1
  <2>2. /\ IsFiniteSet(0 .. n - 1)
        /\ Cardinality(0 .. n - 1) = IF 0 > n - 1 THEN 0 ELSE (n - 1) - 0 + 1
    BY <2>1, FS_Interval
  <2> QED
    BY <1>1, <2>2
<1> HIDE DEF f
<1>5. f \in Surjection(S, 0 .. n - 1)
  BY <1>3, <1>4, FS_Injection
<1>6. \A i \in 1 .. n : \E x \in S : f[x] = i - 1
  <2> TAKE i \in 1 .. n
  <2>1. i - 1 \in 0 .. n - 1
    BY <1>1
  <2> QED
    BY <1>5, <2>1 DEF Surjection
<1> QED
  BY <1>1, <1>2, <1>6 DEF f

(* The elements in order: each once, and the lesser before the greater. *)
LEMMA RankedInOrder ==
  ASSUME NEW S, IsFiniteSet(S), NEW R, StrictOrder(R, S)
  PROVE  /\ Cardinality(S) \in Nat
         /\ Ranked(R, S) \in [1 .. Cardinality(S) -> S]
         /\ \A i \in 1 .. Cardinality(S) : Cardinality(Below(R, S, Ranked(R, S)[i])) = i - 1
         /\ \A x \in S : \E i \in 1 .. Cardinality(S) : Ranked(R, S)[i] = x
         /\ \A i, j \in 1 .. Cardinality(S) :
              <<Ranked(R, S)[i], Ranked(R, S)[j]>> \in R <=> i < j
<1> DEFINE n == Cardinality(S)
           s == Ranked(R, S)
           f == [x \in S |-> Cardinality(Below(R, S, x))]
<1>1. n \in Nat /\ \A x \in S : f[x] \in 0 .. n - 1
  BY RanksFill
<1>2. \A x \in S : f[x] \in Int
  BY <1>1
<1>3. \A x, y \in S : <<x, y>> \in R => f[x] < f[y]
  BY RankGrows
<1>4. \A i \in 1 .. n : \E x \in S : f[x] = i - 1
  BY RanksFill
<1>5. s = [i \in 1 .. n |-> CHOOSE x \in S : f[x] = i - 1]
  BY DEF Ranked
<1>6. \A x \in S : f[x] = Cardinality(Below(R, S, x))
  OBVIOUS
<1> HIDE DEF f, s, n
<1>7. \A i \in 1 .. n : s[i] \in S /\ f[s[i]] = i - 1
  <2> TAKE i \in 1 .. n
  <2>1. s[i] = CHOOSE x \in S : f[x] = i - 1
    BY <1>5
  <2> QED
    BY <1>4, <2>1
<1>8. s \in [1 .. n -> S]
  BY <1>5, <1>7
<1>9. ASSUME NEW x \in S, NEW y \in S
      PROVE  /\ f[x] \in Int /\ f[y] \in Int
             /\ <<x, y>> \in R => f[x] < f[y]
             /\ <<y, x>> \in R => f[y] < f[x]
             /\ x = y \/ <<x, y>> \in R \/ <<y, x>> \in R
  BY <1>2, <1>3 DEF StrictOrder
<1>10. ASSUME NEW x \in S, NEW y \in S
       PROVE  (f[x] = f[y] => x = y) /\ (<<x, y>> \in R <=> f[x] < f[y])
  <2> DEFINE a == <<x, y>> \in R
             b == <<y, x>> \in R
             u == f[x]
             v == f[y]
  <2>1. /\ u \in Int /\ v \in Int
        /\ a => u < v
        /\ b => v < u
        /\ x = y \/ a \/ b
        /\ x = y => u = v
    BY <1>9
  <2> HIDE DEF a, b, u, v
  <2>2. (u = v => x = y) /\ (a <=> u < v)
    BY ONLY <2>1
  <2> QED
    BY <2>2 DEF a, b, u, v
<1>11. \A i, j \in 1 .. n : <<s[i], s[j]>> \in R <=> i < j
  BY <1>1, <1>7, <1>10
<1>12. ASSUME NEW x \in S
      PROVE  \E i \in 1 .. n : s[i] = x
  <2>1. f[x] + 1 \in 1 .. n /\ f[x] \in Int
    BY <1>1
  <2>2. f[s[f[x] + 1]] = f[x]
    BY <1>1, <1>7, <2>1
  <2> QED
    BY <1>7, <1>10, <2>1, <2>2
<1> QED
  BY <1>1, <1>6, <1>7, <1>8, <1>11, <1>12 DEF s, n

LEMMA NumbersAreOrdered ==
  ASSUME NEW T, IsFiniteSet(T), T # {}, T \subseteq Int
  PROVE  \E least, greatest \in T : \A x \in T : least <= x /\ x <= greatest
<1> DEFINE R == {p \in T \X T : p[1] < p[2]}
           n == Cardinality(T)
           s == Ranked(R, T)
<1>1. \A x, y \in T : <<x, y>> \in R <=> x < y
  OBVIOUS
<1>2. StrictOrder(R, T)
  <2> HIDE DEF R
  <2>1. \A x \in T : <<x, x>> \notin R
    BY <1>1
  <2>2. \A x, y \in T : x # y => <<x, y>> \in R \/ <<y, x>> \in R
    BY <1>1
  <2>3. \A x, y, z \in T : <<x, y>> \in R /\ <<y, z>> \in R => <<x, z>> \in R
    BY <1>1
  <2> QED
    BY <2>1, <2>2, <2>3 DEF StrictOrder
<1>3. n \in Nat \ {0}
  BY FS_CardinalityType, FS_EmptySet
<1> HIDE DEF R
<1>4. /\ s \in [1 .. n -> T]
      /\ \A x \in T : \E i \in 1 .. n : s[i] = x
      /\ \A i, j \in 1 .. n : <<s[i], s[j]>> \in R <=> i < j
  BY <1>2, RankedInOrder
<1> HIDE DEF n, s
<1>5. 1 \in 1 .. n /\ n \in 1 .. n /\ s[1] \in T /\ s[n] \in T
  BY <1>3, <1>4
<1>6. ASSUME NEW x \in T
      PROVE  s[1] <= x /\ x <= s[n]
  <2>1. PICK i \in 1 .. n : s[i] = x
    BY <1>4
  <2>2. 1 < i => s[1] < s[i]
    BY <1>1, <1>4, <1>5
  <2>3. i < n => s[i] < s[n]
    BY <1>1, <1>4, <1>5
  <2>4. (i = 1 \/ 1 < i) /\ (i = n \/ i < n)
    BY <1>3
  <2>5. s[1] \in Int /\ s[n] \in Int /\ s[i] \in Int
    BY <1>5, <2>1
  <2> QED
    BY <2>1, <2>2, <2>3, <2>4, <2>5
<1> QED
  BY <1>5, <1>6

LEMMA MaxAndMin ==
  ASSUME NEW T, IsFiniteSet(T), T # {}, T \subseteq Int
  PROVE  /\ Max(T) \in T /\ \A x \in T : x <= Max(T)
         /\ Min(T) \in T /\ \A x \in T : Min(T) <= x
<1>1. PICK least \in T, greatest \in T : \A x \in T : least <= x /\ x <= greatest
  BY NumbersAreOrdered
<1>2. \E x \in T : \A y \in T : x >= y
  BY <1>1
<1>3. \E x \in T : \A y \in T : x <= y
  BY <1>1
<1>4. Max(T) \in T /\ \A y \in T : Max(T) >= y
  BY <1>2 DEF Max
<1>5. Min(T) \in T /\ \A y \in T : Min(T) <= y
  BY <1>3 DEF Min
<1> QED
  BY <1>4, <1>5

LEMMA MaxIs ==
  ASSUME NEW T, T \subseteq Int, NEW m \in T, \A x \in T : x <= m
  PROVE  Max(T) = m
<1>1. \E x \in T : \A y \in T : x >= y
  OBVIOUS
<1>2. Max(T) \in T /\ \A y \in T : Max(T) >= y
  BY <1>1 DEF Max
<1>3. Max(T) \in Int /\ m \in Int /\ Max(T) <= m /\ Max(T) >= m
  BY <1>2
<1> QED
  BY <1>3

LEMMA ImageIsFinite ==
  ASSUME NEW S, IsFiniteSet(S), NEW f, DOMAIN f = S
  PROVE  IsFiniteSet({f[x] : x \in S})
<1> DEFINE T == {f[x] : x \in S}
           g == [x \in S |-> f[x]]
<1>1. g \in Surjection(S, T)
  BY Fun_IsSurj
<1> QED
  BY <1>1, FS_Surjection

----------------------------------------------------------------------------
(* Numbers one after the other *)

LEMMA Induction ==
  ASSUME NEW S, 0 \in S, \A n \in Nat : n \in S => n + 1 \in S
  PROVE  Nat \subseteq S
<1> SUFFICES ASSUME Nat \ S # {}
             PROVE  FALSE
  OBVIOUS
<1>1. PICK x \in Nat \ S : \A y \in Nat \ S : ~(<<y, x>> \in OpToRel(<, Nat))
  BY NatLessThanWellFounded, WFMin
<1>2. x # 0 /\ x - 1 \in Nat /\ x - 1 < x /\ x = (x - 1) + 1
  OBVIOUS
<1>3. x - 1 \in S
  BY <1>1, <1>2 DEF OpToRel
<1> QED
  BY <1>2, <1>3

(* The values a, step[1][a], ... up to the n-th. *)
Follows(f, n, V, a, step) ==
  f \in [0 .. n -> V] /\ f[0] = a /\ \A i \in 1 .. n : f[i] = step[i][f[i - 1]]

(***************************************************************************)
(* A function that is defined from its value one step before exists.       *)
(***************************************************************************)
LEMMA StepByStep ==
  ASSUME NEW V, NEW a, a \in V, NEW step, step \in [Nat -> [V -> V]], NEW n, n \in Nat
  PROVE  \E f : Follows(f, n, V, a, step)
<1> DEFINE S == {m \in Nat : \E f : Follows(f, m, V, a, step)}
<1>1. 0 \in S
  <2>1. Follows([i \in 0 .. 0 |-> a], 0, V, a, step)
    BY DEF Follows
  <2> QED
    BY <2>1
<1>2. ASSUME NEW m \in Nat, m \in S
      PROVE  m + 1 \in S
  <2>1. PICK f : Follows(f, m, V, a, step)
    BY <1>2
  <2> DEFINE g == [i \in 0 .. m + 1 |-> IF i \in 0 .. m THEN f[i] ELSE step[m + 1][f[m]]]
  <2>2. f[m] \in V /\ step[m + 1][f[m]] \in V
    BY <2>1 DEF Follows
  <2>3. g \in [0 .. m + 1 -> V] /\ g[0] = a
    BY <2>1, <2>2 DEF Follows
  <2>4. \A i \in 1 .. m + 1 : g[i] = step[i][g[i - 1]]
    <3> TAKE i \in 1 .. m + 1
    <3>1. CASE i = m + 1
      BY <3>1
    <3>2. CASE i \in 1 .. m
      BY <2>1, <3>2 DEF Follows
    <3> QED
      BY <3>1, <3>2
  <2>5. Follows(g, m + 1, V, a, step)
    BY <2>3, <2>4 DEF Follows
  <2> HIDE DEF g
  <2>6. \E h : Follows(h, m + 1, V, a, step)
    BY <2>5
  <2> QED
    BY <2>6
<1> HIDE DEF S
<1>3. n \in S
  BY <1>1, <1>2, Induction
<1> QED
  BY <1>3 DEF S

(* SumOf, one element after the other. *)
LEMMA SumsUp ==
  ASSUME NEW s \in Seq(Int)
  PROVE  \E f \in [0 .. Len(s) -> Int] :
           /\ f[0] = 0 /\ \A i \in 1 .. Len(s) : f[i] = f[i - 1] + s[i]
           /\ SumOf(s) = f[Len(s)]
<1> DEFINE n == Len(s)
           step == [i \in Nat |-> [v \in Int |-> IF i \in 1 .. n THEN v + s[i] ELSE 0]]
           Fits(f) == f = [i \in 0 .. n |-> IF i = 0 THEN 0 ELSE f[i - 1] + s[i]]
<1>1. n \in Nat /\ \A i \in 1 .. n : s[i] \in Int
  OBVIOUS
<1>2. step \in [Nat -> [Int -> Int]]
  BY <1>1
<1>3. PICK f \in [0 .. n -> Int] :
        f[0] = 0 /\ \A i \in 1 .. n : f[i] = step[i][f[i - 1]]
  <2>1. 0 \in Int
    OBVIOUS
  <2> HIDE DEF step, n
  <2>2. \E f : Follows(f, n, Int, 0, step)
    BY <1>1, <1>2, <2>1, StepByStep
  <2> QED
    BY <2>2 DEF Follows
<1>4. \A i \in 1 .. n : f[i] = f[i - 1] + s[i] /\ i - 1 \in 0 .. n
  <2> TAKE i \in 1 .. n
  <2>1. i \in Nat /\ i - 1 \in 0 .. n /\ i \in 0 .. n /\ i # 0 /\ f[i - 1] \in Int
    BY <1>1
  <2>2. f[i] = step[i][f[i - 1]]
    BY <1>3, <2>1
  <2> QED
    BY <2>1, <2>2
<1>5. Fits(f)
  <2>1. \A i \in 0 .. n : f[i] = IF i = 0 THEN 0 ELSE f[i - 1] + s[i]
    <3> TAKE i \in 0 .. n
    <3>1. CASE i = 0
      BY <1>3, <3>1
    <3>2. CASE i # 0
      BY <1>1, <1>4, <3>2
    <3> QED
      BY <3>1, <3>2
  <2>2. f = [i \in 0 .. n |-> f[i]]
    OBVIOUS
  <2> QED
    BY <2>1, <2>2
<1>6. SumOf(s) = (CHOOSE g : Fits(g))[n]
  BY DEF SumOf
<1> DEFINE g == CHOOSE h : Fits(h)
<1>7. Fits(g)
  <2> HIDE DEF Fits
  <2> QED
    BY <1>5
<1>8. \A i \in 0 .. n : g[i] = f[i]
  <2> DEFINE S == {i \in Nat : i \in 0 .. n => g[i] = f[i]}
  <2>1. 0 \in S
    BY <1>1, <1>3, <1>7
  <2>2. ASSUME NEW i \in Nat, i \in S
        PROVE  i + 1 \in S
    <3> SUFFICES ASSUME i + 1 \in 0 .. n
                 PROVE  g[i + 1] = f[i + 1]
      OBVIOUS
    <3>1. i + 1 \in 1 .. n /\ i \in 0 .. n /\ i + 1 # 0 /\ (i + 1) - 1 = i
      BY <1>1
    <3>2. g[i + 1] = g[i] + s[i + 1]
      BY <1>7, <3>1
    <3>3. f[i + 1] = f[i] + s[i + 1]
      BY <1>4, <3>1
    <3> QED
      BY <2>2, <3>1, <3>2, <3>3
  <2> HIDE DEF S
  <2>3. Nat \subseteq S
    BY <2>1, <2>2, Induction
  <2> QED
    BY <2>3 DEF S
<1>9. SumOf(s) = f[n]
  <2>1. n \in 0 .. n
    BY <1>1
  <2> HIDE DEF n
  <2> QED
    BY <1>6, <1>8, <2>1
<1> QED
  BY <1>3, <1>4, <1>9

(* A sum of smaller numbers is smaller. *)
LEMMA SumsCompare ==
  ASSUME NEW s \in Seq(Int), NEW t \in Seq(Int), Len(s) = Len(t),
         \A i \in 1 .. Len(s) : s[i] <= t[i]
  PROVE  SumOf(s) \in Int /\ SumOf(t) \in Int /\ SumOf(s) <= SumOf(t)
<1> DEFINE n == Len(s)
<1>1. n \in Nat /\ n = Len(t) /\ \A i \in 1 .. n : s[i] \in Int /\ t[i] \in Int
  OBVIOUS
<1>2. PICK f \in [0 .. n -> Int] :
        f[0] = 0 /\ (\A i \in 1 .. n : f[i] = f[i - 1] + s[i]) /\ SumOf(s) = f[n]
  BY SumsUp
<1>3. PICK g \in [0 .. n -> Int] :
        g[0] = 0 /\ (\A i \in 1 .. n : g[i] = g[i - 1] + t[i]) /\ SumOf(t) = g[n]
  BY <1>1, SumsUp
<1> HIDE DEF n
<1> DEFINE S == {i \in Nat : i \in 0 .. n => f[i] <= g[i]}
<1>4. 0 \in S
  BY <1>1, <1>2, <1>3
<1>5. ASSUME NEW i \in Nat, i \in S
      PROVE  i + 1 \in S
  <2> SUFFICES ASSUME i + 1 \in 0 .. n
               PROVE  f[i + 1] <= g[i + 1]
    OBVIOUS
  <2>1. i + 1 \in 1 .. n /\ i \in 0 .. n /\ (i + 1) - 1 = i
    BY <1>1
  <2>2. f[i + 1] = f[i] + s[i + 1] /\ g[i + 1] = g[i] + t[i + 1]
    BY <1>2, <1>3, <2>1
  <2>3. /\ f[i] \in Int /\ g[i] \in Int /\ s[i + 1] \in Int /\ t[i + 1] \in Int
        /\ f[i] <= g[i]
    BY <1>1, <1>2, <1>3, <1>5, <2>1
  <2>4. s[i + 1] <= t[i + 1]
    BY <2>1 DEF n
  <2> QED
    BY <2>2, <2>3, <2>4
<1> HIDE DEF S
<1>6. Nat \subseteq S
  BY <1>4, <1>5, Induction
<1>7. f[n] <= g[n] /\ f[n] \in Int /\ g[n] \in Int
  BY <1>1, <1>2, <1>3, <1>6 DEF S
<1> QED
  BY <1>2, <1>3, <1>7

(* A sum of n numbers of which none is greater than c. *)
LEMMA SumIsBounded ==
  ASSUME NEW s \in Seq(Int), NEW c \in Int, \A i \in 1 .. Len(s) : s[i] <= c
  PROVE  SumOf(s) \in Int /\ SumOf(s) <= c * Len(s)
<1> DEFINE n == Len(s)
<1>1. n \in Nat /\ \A i \in 1 .. n : s[i] \in Int /\ s[i] <= c
  OBVIOUS
<1>2. PICK f \in [0 .. n -> Int] :
        f[0] = 0 /\ (\A i \in 1 .. n : f[i] = f[i - 1] + s[i]) /\ SumOf(s) = f[n]
  BY SumsUp
<1> HIDE DEF n
<1> DEFINE S == {i \in Nat : i \in 0 .. n => f[i] <= c * i}
<1>3. 0 \in S
  BY <1>2
<1>4. ASSUME NEW i \in Nat, i \in S
      PROVE  i + 1 \in S
  <2> SUFFICES ASSUME i + 1 \in 0 .. n
               PROVE  f[i + 1] <= c * (i + 1)
    OBVIOUS
  <2>1. i + 1 \in 1 .. n /\ i \in 0 .. n /\ (i + 1) - 1 = i
    BY <1>1
  <2>2. f[i + 1] = f[i] + s[i + 1] /\ s[i + 1] \in Int /\ s[i + 1] <= c
    BY <1>1, <1>2, <2>1
  <2>3. f[i] \in Int /\ f[i] <= c * i
    BY <1>2, <1>4, <2>1
  <2>4. c * (i + 1) = c * i + c /\ c * i \in Int
    OBVIOUS
  <2> QED
    BY <2>2, <2>3, <2>4
<1> HIDE DEF S
<1>5. Nat \subseteq S
  BY <1>3, <1>4, Induction
<1>6. f[n] \in Int /\ f[n] <= c * n
  BY <1>1, <1>2, <1>5 DEF S
<1> QED
  BY <1>2, <1>6 DEF n

(***************************************************************************)
(* The steps between neighbours of T in an ascending list: their sum is no *)
(* more than the distance from the least to the greatest of T.             *)
(***************************************************************************)
LEMMA StepsWithinSpan ==
  ASSUME NEW n \in Nat, NEW t \in [1 .. n -> Int],
         \A i, j \in 1 .. n : i < j => t[i] <= t[j],
         NEW T \in SUBSET (1 .. n), T # {}
  PROVE  /\ Min(T) \in T /\ Max(T) \in T
         /\ SumOf([i \in 1 .. n |-> IF {i - 1, i} \subseteq T THEN t[i] - t[i - 1] ELSE 0])
              <= t[Max(T)] - t[Min(T)]
<1> DEFINE s == [i \in 1 .. n |-> IF {i - 1, i} \subseteq T THEN t[i] - t[i - 1] ELSE 0]
           a == Min(T)
           b == Max(T)
<1>1. /\ a \in T /\ b \in T /\ \A x \in T : a <= x /\ x <= b
  <2>1. IsFiniteSet(1 .. n)
    BY FS_Interval
  <2>2. IsFiniteSet(T)
    BY <2>1, FS_Subset
  <2>3. T \subseteq Int
    OBVIOUS
  <2> QED
    BY <2>2, <2>3, MaxAndMin
<1>2. a \in 1 .. n /\ b \in 1 .. n /\ a <= b
  BY <1>1
<1> HIDE DEF a, b
<1>3. \A i \in 1 .. n :
        /\ s[i] \in Int
        /\ i <= a \/ i > b => s[i] = 0
        /\ i - 1 \in 1 .. n => s[i] <= t[i] - t[i - 1]
  <2> TAKE i \in 1 .. n
  <2>1. {i - 1, i} \subseteq T => i - 1 \in 1 .. n /\ a <= i - 1 /\ i <= b
    BY <1>1
  <2>2. /\ {i - 1, i} \subseteq T => s[i] = t[i] - t[i - 1]
        /\ ~({i - 1, i} \subseteq T) => s[i] = 0
    OBVIOUS
  <2>3. i - 1 \in 1 .. n => t[i - 1] <= t[i] /\ t[i - 1] \in Int /\ t[i] \in Int
    OBVIOUS
  <2> HIDE DEF s
  <2>4. CASE {i - 1, i} \subseteq T
    BY <1>2, <2>1, <2>2, <2>3, <2>4
  <2>5. CASE ~({i - 1, i} \subseteq T)
    BY <2>2, <2>3, <2>5
  <2> QED
    BY <2>4, <2>5
<1>4. s \in Seq(Int) /\ Len(s) = n
  <2>1. s = [i \in 1 .. n |-> s[i]]
    OBVIOUS
  <2> HIDE DEF s
  <2> QED
    BY <1>3, <2>1
<1> HIDE DEF s
<1>5. PICK f \in [0 .. n -> Int] :
        f[0] = 0 /\ (\A i \in 1 .. n : f[i] = f[i - 1] + s[i]) /\ SumOf(s) = f[n]
  BY <1>4, SumsUp
<1> DEFINE P(i) == /\ i <= a => f[i] <= 0
                   /\ a < i /\ i <= b => f[i] <= t[i] - t[a]
                   /\ b < i => f[i] <= t[b] - t[a]
           S == {i \in Nat : i \in 0 .. n => P(i)}
<1>6. 0 \in S
  BY <1>2, <1>5
<1>7. ASSUME NEW i \in Nat, i \in S
      PROVE  i + 1 \in S
  <2> SUFFICES ASSUME i + 1 \in 0 .. n
               PROVE  P(i + 1)
    OBVIOUS
  <2>1. i + 1 \in 1 .. n /\ i \in 0 .. n /\ (i + 1) - 1 = i
    OBVIOUS
  <2>2. P(i)
    BY <1>7, <2>1
  <2>3. f[i + 1] = f[i] + s[i + 1] /\ f[i] \in Int /\ s[i + 1] \in Int
    BY <1>3, <1>5, <2>1
  <2>4. t[a] \in Int /\ t[b] \in Int /\ t[i + 1] \in Int /\ a \in Int /\ b \in Int /\ a <= b
    BY <1>2, <2>1
  <2>5. i \in 1 .. n => t[i] \in Int /\ s[i + 1] <= t[i + 1] - t[i]
    BY <1>3, <2>1
  <2>6. i + 1 <= a \/ i + 1 > b => s[i + 1] = 0
    BY <1>3, <2>1
  <2>7. CASE i + 1 <= a
    BY <2>2, <2>3, <2>4, <2>6, <2>7
  <2>8. CASE a < i + 1 /\ i + 1 <= b
    <3>1. i \in 1 .. n /\ (a = i \/ a < i) /\ i <= b
      BY <1>2, <2>1, <2>8
    <3>2. CASE a = i
      <4>1. f[i] <= 0
        BY <2>2, <3>2
      <4>2. t[i] = t[a]
        BY <3>2
      <4> QED
        BY <2>3, <2>4, <2>5, <2>8, <3>1, <4>1, <4>2
    <3>3. CASE a < i
      <4>1. f[i] <= t[i] - t[a]
        BY <2>2, <3>1, <3>3
      <4>2. t[i] \in Int /\ s[i + 1] <= t[i + 1] - t[i]
        BY <2>5, <3>1
      <4>3. f[i + 1] <= t[i + 1] - t[a]
        <5>1. \A x, d, u, v, w \in Int : x <= u - w /\ d <= v - u => x + d <= v - w
          OBVIOUS
        <5>2. f[i] \in Int /\ s[i + 1] \in Int /\ t[i + 1] \in Int /\ t[a] \in Int
          BY <2>3, <2>4
        <5>3. f[i] + s[i + 1] <= t[i + 1] - t[a]
          BY <4>1, <4>2, <5>1, <5>2
        <5> QED
          BY <2>3, <5>3
      <4> QED
        BY <2>1, <2>4, <2>8, <4>3
    <3> QED
      BY <3>1, <3>2, <3>3
  <2>9. CASE b < i + 1
    <3>1. i = b \/ b < i
      BY <2>4, <2>9
    <3>2. CASE i = b
      <4>1. a < i => f[i] <= t[b] - t[a]
        BY <2>2, <3>2
      <4>2. a = i => f[i] <= t[b] - t[a]
        BY <2>2, <2>4, <3>2
      <4> QED
        BY <2>3, <2>4, <2>6, <2>9, <3>2, <4>1, <4>2
    <3>3. CASE b < i
      BY <2>2, <2>3, <2>4, <2>6, <2>9, <3>3
    <3> QED
      BY <3>1, <3>2, <3>3
  <2> QED
    BY <2>4, <2>7, <2>8, <2>9
<1> HIDE DEF S
<1>8. Nat \subseteq S
  BY <1>6, <1>7, Induction
<1>9. P(n)
  BY <1>8 DEF S
<1>10. t[a] \in Int /\ t[b] \in Int /\ f[n] \in Int /\ t[a] <= t[b]
  <2>1. a = b \/ a < b
    BY <1>2
  <2>2. a < b => t[a] <= t[b]
    BY <1>2
  <2> QED
    BY <1>2, <1>5, <2>1, <2>2
<1>11. f[n] <= t[b] - t[a]
  <2>1. n <= a => n = a /\ n = b
    BY <1>2
  <2>2. n <= b => n = b
    BY <1>2
  <2> QED
    BY <1>2, <1>9, <1>10, <2>1, <2>2
<1> QED
  BY <1>1, <1>5, <1>11 DEF a, b, s

----------------------------------------------------------------------------
(* Quiet readings *)

(* The sums behind the average of readings that all stay below two limits. *)
LEMMA SumsOfReadings ==
  ASSUME NEW chunk \in Seq(Reading), NEW A \in Int, NEW P \in Int,
         \A j \in 1 .. Len(chunk) : chunk[j].rms <= A /\ chunk[j].peak <= P
  PROVE  LET n    == Len(chunk)
             rms  == SumOf([j \in 1 .. n |-> chunk[j].rms])
             peak == SumOf([j \in 1 .. n |-> chunk[j].peak])
         IN  rms \in Int /\ peak \in Int /\ rms <= A * n /\ peak <= P * n
<1> DEFINE n == Len(chunk)
           rms == [j \in 1 .. n |-> chunk[j].rms]
           peak == [j \in 1 .. n |-> chunk[j].peak]
<1>1. n \in Nat /\ \A j \in 1 .. n : chunk[j].rms \in Int /\ chunk[j].peak \in Int
  <2>1. n \in Nat /\ \A j \in 1 .. n : chunk[j] \in Reading
    OBVIOUS
  <2> QED
    BY <2>1 DEF Reading
<1>2. SumOf(rms) \in Int /\ SumOf(rms) <= A * n
  <2>1. rms \in Seq(Int) /\ Len(rms) = n /\ \A j \in 1 .. n : rms[j] <= A
    BY <1>1
  <2> HIDE DEF rms
  <2> QED
    BY <2>1, SumIsBounded
<1>3. SumOf(peak) \in Int /\ SumOf(peak) <= P * n
  <2>1. peak \in Seq(Int) /\ Len(peak) = n /\ \A j \in 1 .. n : peak[j] <= P
    BY <1>1
  <2> HIDE DEF peak
  <2> QED
    BY <2>1, SumIsBounded
<1> QED
  BY <1>2, <1>3

(* A reading in which neither value reaches its limit for motion. *)
Calm(r) == r.rms < MOTION_ACTIVE_RMS_MG /\ r.peak < MOTION_ACTIVE_PEAK_MG

(* No average of calm readings is active. *)
LEMMA CalmAverage ==
  ASSUME NEW chunk \in Seq(Reading), chunk # <<>>, \A j \in 1 .. Len(chunk) : Calm(chunk[j])
  PROVE  ChunkPhase(chunk) # "active"
<1> DEFINE A == MOTION_ACTIVE_RMS_MG
           P == MOTION_ACTIVE_PEAK_MG
           n == Len(chunk)
           u == SumOf([j \in 1 .. n |-> chunk[j].rms])
           v == SumOf([j \in 1 .. n |-> chunk[j].peak])
<1>1. A \in Nat /\ P \in Nat /\ n \in Nat \ {0}
  BY ClassifierAssumption
<1>2. \A j \in 1 .. n : chunk[j].rms <= A - 1 /\ chunk[j].peak <= P - 1
  <2> TAKE j \in 1 .. n
  <2>1. chunk[j] \in Reading
    OBVIOUS
  <2>2. chunk[j].rms \in Nat /\ chunk[j].peak \in Nat
    BY <2>1 DEF Reading
  <2>3. chunk[j].rms < A /\ chunk[j].peak < P
    BY DEF Calm
  <2> HIDE DEF A, P
  <2> QED
    BY <1>1, <2>2, <2>3
<1>3. u \in Int /\ v \in Int /\ u <= (A - 1) * n /\ v <= (P - 1) * n
  <2>1. A - 1 \in Int /\ P - 1 \in Int
    BY <1>1
  <2> HIDE DEF A, P
  <2> QED
    BY <1>2, <2>1, SumsOfReadings
<1>4. ChunkPhase(chunk) = ClassifySums(u, v, n)
  BY DEF ChunkPhase
<1>5. ~(u >= A * n) /\ ~(v >= P * n)
  <2> HIDE DEF u, v, A, P, n
  <2>1. (A - 1) * n = A * n - n /\ (P - 1) * n = P * n - n
    BY <1>1
  <2>2. A * n \in Int /\ P * n \in Int
    BY <1>1
  <2> QED
    BY <1>1, <1>3, <2>1, <2>2
<1> QED
  BY <1>4, <1>5 DEF ClassifySums

LEMMA QuietIsCalm ==
  ASSUME NEW r \in Reading, RawPhase(r) = "quiet"
  PROVE  /\ Calm(r) /\ r.rms <= MOTION_QUIET_RMS_MG
         /\ r.rms <= HANDLING_RMS_MG /\ r.peak <= HANDLING_PEAK_MG
<1>1. r.rms \in Nat /\ r.peak \in Nat
  BY DEF Reading
<1>2. ClassifySums(r.rms, r.peak, 1) = "quiet"
  BY DEF RawPhase
<1> QED
  BY <1>1, <1>2, ClassifierAssumption DEF ClassifySums, Calm

(* Quiet readings are quiet on average. *)
LEMMA QuietAverage ==
  ASSUME NEW chunk \in Seq(Reading), chunk # <<>>,
         \A j \in 1 .. Len(chunk) : RawPhase(chunk[j]) = "quiet"
  PROVE  ChunkPhase(chunk) = "quiet"
<1> DEFINE n == Len(chunk)
           u == SumOf([j \in 1 .. n |-> chunk[j].rms])
           v == SumOf([j \in 1 .. n |-> chunk[j].peak])
<1>1. \A j \in 1 .. n : /\ Calm(chunk[j]) /\ chunk[j].rms <= MOTION_QUIET_RMS_MG
                        /\ chunk[j].rms <= HANDLING_RMS_MG
                        /\ chunk[j].peak <= HANDLING_PEAK_MG
  BY QuietIsCalm
<1>2. ChunkPhase(chunk) = ClassifySums(u, v, n) /\ ChunkPhase(chunk) # "active"
  BY <1>1, CalmAverage DEF ChunkPhase
<1>3. /\ u \in Int /\ v \in Int
      /\ u <= HANDLING_RMS_MG * n /\ v <= HANDLING_PEAK_MG * n
      /\ u <= MOTION_QUIET_RMS_MG * n
  <2> DEFINE H == HANDLING_RMS_MG
             K == HANDLING_PEAK_MG
             Q == MOTION_QUIET_RMS_MG
  <2>1. H \in Int /\ K \in Int /\ Q \in Int
    BY ClassifierAssumption
  <2>2. /\ \A j \in 1 .. Len(chunk) : chunk[j].rms <= H /\ chunk[j].peak <= K
        /\ \A j \in 1 .. Len(chunk) : chunk[j].rms <= Q /\ chunk[j].peak <= K
    BY <1>1
  <2> HIDE DEF H, K, Q
  <2>3. u \in Int /\ v \in Int /\ u <= H * n /\ v <= K * n
    BY <2>1, <2>2, SumsOfReadings
  <2>4. u <= Q * n
    BY <2>1, <2>2, SumsOfReadings
  <2> QED
    BY <2>3, <2>4 DEF H, K, Q
<1> HIDE DEF u, v, n
<1>4. n \in Nat
  BY DEF n
<1>6. HANDLING_RMS_MG * n \in Int /\ HANDLING_PEAK_MG * n \in Int
  BY <1>4, ClassifierAssumption
<1>7. ~(v > HANDLING_PEAK_MG * n \/ u > HANDLING_RMS_MG * n)
  BY <1>3, <1>6
<1> QED
  BY <1>2, <1>3, <1>7 DEF ClassifySums

(* How far an average reaches back, and that it reaches over evidence only. *)
LEMMA ChunkReach ==
  ASSUME NEW readings \in Seq(Reading), NEW i \in 1 .. Len(readings)
  PROVE  /\ ChunkStart(readings, i) \in 1 .. i
         /\ i < ChunkStart(readings, i) + SERVER_CLASSIFIER_SMOOTHING_SAMPLES
         /\ \A j \in ChunkStart(readings, i) .. i - 1 : ~NoEvidence(readings[j])
         /\ \/ ChunkStart(readings, i) = 1
            \/ ChunkStart(readings, i) = i - SERVER_CLASSIFIER_SMOOTHING_SAMPLES + 1
            \/ NoEvidence(readings[ChunkStart(readings, i) - 1])
<1> DEFINE K == SERVER_CLASSIFIER_SMOOTHING_SAMPLES
           J == {j + 1 : j \in {k \in 1 .. i - 1 : NoEvidence(readings[k])}}
           T == {1, i - K + 1} \cup J
           c == ChunkStart(readings, i)
<1>1. i \in Nat \ {0} /\ K \in Nat \ {0}
  BY ClassifierAssumption
<1>2. c = Max(T)
  BY DEF ChunkStart
<1>3. J \subseteq 2 .. i
  BY <1>1
<1>4. IsFiniteSet(T) /\ T \subseteq Int /\ \A x \in T : x <= i
  <2>1. IsFiniteSet(1 .. i) /\ 1 \in 1 .. i /\ J \subseteq 1 .. i
    <3>1. IsFiniteSet(1 .. i)
      BY <1>1, FS_Interval
    <3> HIDE DEF J
    <3> QED
      BY <1>1, <1>3, <3>1
  <2>2. IsFiniteSet((1 .. i) \cup {i - K + 1})
    BY <2>1, FS_AddElement
  <2>3. T \subseteq (1 .. i) \cup {i - K + 1}
    BY <2>1
  <2>4. i - K + 1 \in Int /\ i - K + 1 <= i
    BY <1>1
  <2>5. \A x \in (1 .. i) \cup {i - K + 1} : x \in Int /\ x <= i
    BY <1>1, <2>4
  <2> HIDE DEF T
  <2> QED
    BY <2>2, <2>3, <2>5, FS_Subset
<1>5. 1 \in T /\ i - K + 1 \in T
  OBVIOUS
<1>6. c \in T /\ \A x \in T : x <= c
  <2> HIDE DEF T, c
  <2> QED
    BY <1>2, <1>4, <1>5, MaxAndMin
<1> HIDE DEF c
<1>7. \A j \in c .. i - 1 : ~NoEvidence(readings[j])
  <2> SUFFICES ASSUME NEW j \in c .. i - 1, NoEvidence(readings[j])
               PROVE  FALSE
    OBVIOUS
  <2>1. c \in Int /\ 1 <= c
    BY <1>4, <1>5, <1>6
  <2>2. j \in 1 .. i - 1 /\ c < j + 1
    BY <1>1, <2>1
  <2>3. j + 1 \in T /\ j \in Int
    BY <2>2
  <2>4. j + 1 <= c
    <3> HIDE DEF T
    <3> QED
      BY <1>6, <2>3
  <2> HIDE DEF T
  <2> QED
    BY <2>1, <2>2, <2>3, <2>4
<1>8. c = 1 \/ c = i - K + 1 \/ NoEvidence(readings[c - 1])
  <2>1. c \in J => \E k \in 1 .. i - 1 : NoEvidence(readings[k]) /\ c = k + 1
    OBVIOUS
  <2>2. \A k \in 1 .. i - 1 : (k + 1) - 1 = k
    OBVIOUS
  <2>3. c \in J => NoEvidence(readings[c - 1])
    BY <2>1, <2>2
  <2> HIDE DEF J
  <2> QED
    BY <1>6, <2>3
<1> HIDE DEF T, K
<1>9. c \in Int /\ 1 <= c /\ c <= i /\ i - K + 1 <= c
  BY <1>4, <1>5, <1>6
<1>10. c \in 1 .. i /\ i < c + K
  BY <1>1, <1>9
<1> QED
  BY <1>7, <1>10, <1>8 DEF c, K

(* A reading that counts for an average and is not calm is motion. *)
LEMMA MotionIsNotCalm ==
  ASSUME NEW r \in Reading, ~NoEvidence(r), ~Calm(r)
  PROVE  RawPhase(r) = "active"
<1>1. r.rms \in Nat /\ r.peak \in Nat
  BY DEF Reading
<1>2. /\ RawPhase(r) = ClassifySums(r.rms, r.peak, 1)
      /\ RawPhase(r) # "handling"
  BY DEF NoEvidence, RawPhase
<1>3. r.rms >= MOTION_ACTIVE_RMS_MG \/ r.peak >= MOTION_ACTIVE_PEAK_MG
  BY <1>1, ClassifierAssumption DEF Calm
<1> QED
  BY <1>1, <1>2, <1>3, ClassifierAssumption DEF ClassifySums

(* An average that is active reaches back to motion. *)
LEMMA ActiveAverage ==
  ASSUME NEW readings \in Seq(Reading), NEW i \in 1 .. Len(readings),
         SmoothedPhase(readings, i) = "active"
  PROVE  \E k \in 1 .. i : /\ i < k + SERVER_CLASSIFIER_SMOOTHING_SAMPLES
                           /\ RawPhase(readings[k]) = "active"
<1> DEFINE from == ChunkStart(readings, i)
           c == SubSeq(readings, from, i)
<1>1. /\ from \in 1 .. i /\ i < from + SERVER_CLASSIFIER_SMOOTHING_SAMPLES
      /\ \A j \in from .. i - 1 : ~NoEvidence(readings[j])
  BY ChunkReach
<1>2. ~NoEvidence(readings[i]) /\ ChunkPhase(c) = "active"
  BY DEF SmoothedPhase, NoEvidence
<1> HIDE DEF from
<1>3. /\ c \in Seq(Reading) /\ Len(c) = i - from + 1 /\ Len(c) \in Nat \ {0}
      /\ \A j \in 1 .. Len(c) : c[j] = readings[from + j - 1]
  BY <1>1
<1> HIDE DEF c
<1>4. PICK j \in 1 .. Len(c) : ~Calm(c[j])
  <2>1. c # <<>>
    BY <1>3
  <2> QED
    BY <1>2, <1>3, <2>1, CalmAverage
<1> DEFINE k == from + j - 1
<1>5. k \in from .. i /\ k \in 1 .. i /\ k \in 1 .. Len(readings) /\ (k = i \/ k \in from .. i - 1)
  BY <1>1, <1>3
<1>6. i < k + SERVER_CLASSIFIER_SMOOTHING_SAMPLES
  BY <1>1, <1>5, ClassifierAssumption
<1>7. readings[k] \in Reading /\ ~NoEvidence(readings[k]) /\ ~Calm(readings[k])
  <2>1. readings[k] = c[j]
    BY <1>3
  <2> HIDE DEF k
  <2> QED
    BY <1>1, <1>2, <1>4, <1>5, <2>1
<1> HIDE DEF k
<1> QED
  BY <1>5, <1>6, <1>7, MotionIsNotCalm

(* No average of quiet readings is active, however far it reaches back. *)
LEMMA QuietIsNotActive ==
  ASSUME NEW readings \in Seq(Reading), \A j \in 1 .. Len(readings) : RawPhase(readings[j]) = "quiet",
         NEW i \in 1 .. Len(readings)
  PROVE  SmoothedPhase(readings, i) # "active"
BY ActiveAverage

----------------------------------------------------------------------------
(* One element more *)

(* Elements with equally many below them are one. *)
LEMMA RanksDiffer ==
  ASSUME NEW S, IsFiniteSet(S), NEW R, StrictOrder(R, S), NEW x \in S, NEW y \in S,
         Cardinality(Below(R, S, x)) = Cardinality(Below(R, S, y))
  PROVE  x = y
<1>1. /\ Cardinality(Below(R, S, x)) \in Int /\ Cardinality(Below(R, S, y)) \in Int
      /\ Cardinality(S) \in Int
  BY RanksFill
<1>2. <<x, y>> \in R => Cardinality(Below(R, S, x)) < Cardinality(Below(R, S, y))
  BY RankGrows
<1>3. <<y, x>> \in R => Cardinality(Below(R, S, y)) < Cardinality(Below(R, S, x))
  BY RankGrows
<1>4. x = y \/ <<x, y>> \in R \/ <<y, x>> \in R
  BY DEF StrictOrder
<1> QED
  BY <1>1, <1>2, <1>3, <1>4

(* An element above all others comes last, and the others stay where they are. *)
LEMMA GreatestIsLast ==
  ASSUME NEW S, IsFiniteSet(S), NEW x, x \notin S, NEW R, StrictOrder(R, S \cup {x}),
         \A y \in S : <<y, x>> \in R
  PROVE  Ranked(R, S \cup {x}) = Append(Ranked(R, S), x)
<1> DEFINE T == S \cup {x}
           n == Cardinality(S)
           s == Ranked(R, S)
           t == Ranked(R, T)
<1>1. n \in Nat /\ IsFiniteSet(T) /\ Cardinality(T) = n + 1
  BY FS_CardinalityType, FS_AddElement
<1>2. StrictOrder(R, S)
  BY DEF StrictOrder
<1>3. /\ s \in [1 .. n -> S]
      /\ \A i \in 1 .. n : Cardinality(Below(R, S, s[i])) = i - 1
  BY <1>2, RankedInOrder
<1>4. /\ t \in [1 .. n + 1 -> T]
      /\ \A i \in 1 .. n + 1 : Cardinality(Below(R, T, t[i])) = i - 1
  BY <1>1, RankedInOrder
<1>5. \A y \in S : Below(R, T, y) = Below(R, S, y)
  BY DEF StrictOrder, Below
<1>6. Below(R, T, x) = S
  BY DEF StrictOrder, Below
<1> HIDE DEF T, s, t, n
<1>7. \A i \in 1 .. n : t[i] = s[i]
  <2> TAKE i \in 1 .. n
  <2>1. i \in 1 .. n + 1 /\ s[i] \in S /\ s[i] \in T /\ t[i] \in T
    BY <1>1, <1>3, <1>4 DEF T
  <2>2. Cardinality(Below(R, T, s[i])) = Cardinality(Below(R, T, t[i]))
    BY <1>3, <1>4, <1>5, <2>1
  <2> QED
    BY <1>1, <2>1, <2>2, RanksDiffer DEF T
<1>8. t[n + 1] = x
  <2>1. n + 1 \in 1 .. n + 1 /\ t[n + 1] \in T /\ x \in T /\ (n + 1) - 1 = n
    BY <1>1, <1>4 DEF T
  <2>2. Cardinality(Below(R, T, t[n + 1])) = n
    BY <1>4, <2>1
  <2>3. Cardinality(Below(R, T, t[n + 1])) = Cardinality(Below(R, T, x))
    BY <1>6, <2>2 DEF n
  <2> QED
    BY <1>1, <2>1, <2>3, RanksDiffer DEF T
<1>9. /\ s \in Seq(T) /\ Len(s) = n /\ t \in Seq(T) /\ Len(t) = n + 1 /\ x \in T
  BY <1>1, <1>3, <1>4 DEF T
<1>10. /\ Append(s, x) \in Seq(T) /\ Len(Append(s, x)) = n + 1
       /\ \A i \in 1 .. n + 1 : Append(s, x)[i] = t[i]
  BY <1>1, <1>7, <1>8, <1>9
<1>11. t = Append(s, x)
  BY <1>9, <1>10, SeqEqual
<1> QED
  BY <1>11 DEF T, s, t

(* A longer sum. *)
LEMMA SumGrows ==
  ASSUME NEW s \in Seq(Int), NEW d \in Int
  PROVE  SumOf(s) \in Int /\ SumOf(Append(s, d)) = SumOf(s) + d
<1> DEFINE n == Len(s)
           t == Append(s, d)
<1>1. n \in Nat /\ t \in Seq(Int) /\ Len(t) = n + 1 /\ t[n + 1] = d
      /\ \A i \in 1 .. n : t[i] = s[i] /\ s[i] \in Int
  OBVIOUS
<1>2. PICK f \in [0 .. n -> Int] :
        f[0] = 0 /\ (\A i \in 1 .. n : f[i] = f[i - 1] + s[i]) /\ SumOf(s) = f[n]
  BY SumsUp
<1> HIDE DEF n, t
<1>3. PICK g \in [0 .. n + 1 -> Int] :
        g[0] = 0 /\ (\A i \in 1 .. n + 1 : g[i] = g[i - 1] + t[i]) /\ SumOf(t) = g[n + 1]
  BY <1>1, SumsUp
<1> DEFINE S == {i \in Nat : i \in 0 .. n => g[i] = f[i]}
<1>4. 0 \in S
  BY <1>2, <1>3
<1>5. ASSUME NEW i \in Nat, i \in S
      PROVE  i + 1 \in S
  <2> SUFFICES ASSUME i + 1 \in 0 .. n
               PROVE  g[i + 1] = f[i + 1]
    OBVIOUS
  <2>1. i + 1 \in 1 .. n /\ i + 1 \in 1 .. n + 1 /\ i \in 0 .. n /\ (i + 1) - 1 = i
    BY <1>1
  <2>2. f[i + 1] = f[i] + s[i + 1] /\ g[i + 1] = g[i] + t[i + 1]
    BY <1>2, <1>3, <2>1
  <2> QED
    BY <1>1, <1>5, <2>1, <2>2
<1> HIDE DEF S
<1>6. Nat \subseteq S
  BY <1>4, <1>5, Induction
<1>7. g[n] = f[n] /\ f[n] \in Int
  BY <1>1, <1>2, <1>6 DEF S
<1>8. g[n + 1] = g[n] + d
  <2>1. n + 1 \in 1 .. n + 1 /\ (n + 1) - 1 = n
    BY <1>1
  <2> QED
    BY <1>1, <1>3, <2>1
<1> QED
  BY <1>2, <1>3, <1>7, <1>8 DEF t

----------------------------------------------------------------------------
(* The next reading *)

(* How far the average of the next reading reaches back. *)
LEMMA NextChunk ==
  ASSUME NEW readings \in Seq(Reading)
  PROVE  /\ ChunkStart(readings, Len(readings) + 1) \in 1 .. Len(readings) + 1
         /\ Len(readings) + 1 - ChunkStart(readings, Len(readings) + 1)
              <= SERVER_CLASSIFIER_SMOOTHING_SAMPLES - 1
<1> DEFINE n == Len(readings)
           K == SERVER_CLASSIFIER_SMOOTHING_SAMPLES
           J == {j + 1 : j \in {k \in 1 .. n : NoEvidence(readings[k])}}
           T == {1, (n + 1) - K + 1} \cup J
<1>1. n \in Nat /\ K \in Nat \ {0} /\ (n + 1) - 1 = n
  BY ClassifierAssumption
<1>2. ChunkStart(readings, n + 1) = Max(T)
  BY <1>1 DEF ChunkStart
<1>3. T \subseteq Int /\ \A x \in T : x <= n + 1
  <2> HIDE DEF K
  <2>1. J \subseteq 2 .. n + 1
    BY <1>1
  <2> QED
    BY <1>1, <2>1
<1>4. IsFiniteSet(T)
  <2>1. J \subseteq 1 .. n + 1
    BY <1>1
  <2>2. IsFiniteSet(1 .. n + 1) /\ 1 \in 1 .. n + 1
    BY <1>1, FS_Interval
  <2>3. IsFiniteSet((1 .. n + 1) \cup {(n + 1) - K + 1})
    BY <2>2, FS_AddElement
  <2>4. T \subseteq (1 .. n + 1) \cup {(n + 1) - K + 1}
    BY <2>1, <2>2
  <2> HIDE DEF T
  <2> QED
    BY <2>3, <2>4, FS_Subset
<1>5. Max(T) \in T /\ \A x \in T : x <= Max(T)
  <2>1. 1 \in T
    OBVIOUS
  <2> HIDE DEF T
  <2> QED
    BY <1>3, <1>4, <2>1, MaxAndMin
<1>6. 1 \in T /\ (n + 1) - K + 1 \in T
  OBVIOUS
<1> DEFINE m == Max(T)
<1>7. m \in Int /\ 1 <= m /\ m <= n + 1 /\ (n + 1) - K + 1 <= m
  <2> HIDE DEF T
  <2> QED
    BY <1>3, <1>5, <1>6
<1> HIDE DEF T, n, K, m
<1>8. m \in 1 .. n + 1 /\ n + 1 - m <= K - 1
  BY <1>1, <1>7
<1> QED
  BY <1>2, <1>8 DEF m, n, K

(***************************************************************************)
(* A later average reaches back as far as the one before, unless that is   *)
(* farther than the smoothing length allows or the reading in between is   *)
(* no evidence.                                                            *)
(***************************************************************************)
LEMMA ChunkAfterNext ==
  ASSUME NEW readings \in Seq(Reading), NEW r \in Reading
  PROVE  LET n == Len(readings)
             c == ChunkStart(readings, n + 1)
             w == n + 3 - SERVER_CLASSIFIER_SMOOTHING_SAMPLES
         IN  ChunkStart(Append(readings, r), n + 2) =
               IF NoEvidence(r) THEN n + 2 ELSE IF c < w THEN w ELSE c
<1> DEFINE n == Len(readings)
           K == SERVER_CLASSIFIER_SMOOTHING_SAMPLES
           next == Append(readings, r)
           J == {j + 1 : j \in {k \in 1 .. n : NoEvidence(readings[k])}}
           I == {j + 1 : j \in {k \in 1 .. n + 1 : NoEvidence(next[k])}}
           c == ChunkStart(readings, n + 1)
           w == n + 3 - K
           m == IF NoEvidence(r) THEN n + 2 ELSE IF c < w THEN w ELSE c
<1>1. n \in Nat /\ K \in Nat \ {0} /\ (n + 1) - 1 = n /\ (n + 2) - 1 = n + 1
      /\ (n + 1) - K + 1 = w - 1 /\ (n + 2) - K + 1 = w
  BY ClassifierAssumption
<1>2. c \in 1 .. n + 1 /\ n + 1 - c <= K - 1
  BY NextChunk
<1>3. c = Max({1, w - 1} \cup J)
  <2>1. c = Max({1, (n + 1) - K + 1}
                  \cup {j + 1 : j \in {k \in 1 .. (n + 1) - 1 : NoEvidence(readings[k])}})
    BY DEF ChunkStart
  <2>2. {k \in 1 .. (n + 1) - 1 : NoEvidence(readings[k])}
          = {k \in 1 .. n : NoEvidence(readings[k])}
    BY <1>1
  <2>3. (n + 1) - K + 1 = w - 1
    BY <1>1
  <2> QED
    BY <2>1, <2>2, <2>3, Zenon
<1>4. ChunkStart(next, n + 2) = Max({1, w} \cup I)
  <2>1. ChunkStart(next, n + 2) =
          Max({1, (n + 2) - K + 1}
                \cup {j + 1 : j \in {k \in 1 .. (n + 2) - 1 : NoEvidence(next[k])}})
    BY DEF ChunkStart
  <2>2. {k \in 1 .. (n + 2) - 1 : NoEvidence(next[k])}
          = {k \in 1 .. n + 1 : NoEvidence(next[k])}
    BY <1>1
  <2>3. (n + 2) - K + 1 = w
    BY <1>1
  <2> QED
    BY <2>1, <2>2, <2>3, Zenon
<1>5. \A k \in 1 .. n : next[k] = readings[k]
  OBVIOUS
<1>6. next[n + 1] = r
  OBVIOUS
<1>7. I = J \cup (IF NoEvidence(r) THEN {n + 2} ELSE {})
  <2> HIDE DEF next, n
  <2>1. \A k \in 1 .. n + 1 : k \in 1 .. n \/ k = n + 1
    BY <1>1
  <2>2. 1 .. n \subseteq 1 .. n + 1 /\ n + 1 \in 1 .. n + 1 /\ (n + 1) + 1 = n + 2
    BY <1>1
  <2>3. {k \in 1 .. n + 1 : NoEvidence(next[k])} =
          {k \in 1 .. n : NoEvidence(readings[k])} \cup (IF NoEvidence(r) THEN {n + 1} ELSE {})
    BY <1>5, <1>6, <2>1, <2>2
  <2> QED
    BY <2>2, <2>3
<1>8. J \subseteq 1 .. n + 1
  <2> HIDE DEF n
  <2> QED
    BY <1>1
<1> DEFINE T == {1, w - 1} \cup J
<1>9. IsFiniteSet(T) /\ T # {} /\ T \subseteq Int
  <2>1. 1 \in 1 .. n + 1 /\ w - 1 \in Int
    BY <1>1
  <2>2. T \subseteq (1 .. n + 1) \cup {w - 1}
    BY <1>8, <2>1
  <2>3. IsFiniteSet(1 .. n + 1)
    BY FS_Interval, <1>1
  <2>4. IsFiniteSet((1 .. n + 1) \cup {w - 1})
    BY <2>3, FS_AddElement
  <2>5. (1 .. n + 1) \cup {w - 1} \subseteq Int
    BY <1>1, <2>1
  <2> HIDE DEF w, J, n
  <2> QED
    BY <2>2, <2>4, <2>5, FS_Subset
<1>10. c \in T /\ \A x \in T : x <= c
  <2> HIDE DEF T, c
  <2> QED
    BY <1>3, <1>9, MaxAndMin DEF T
<1> HIDE DEF n, K, J, I, next, w, c
<1>11. \A x \in J : x \in Int /\ x <= c
  BY <1>8, <1>10
<1>12. /\ {1, w} \cup I \subseteq Int /\ m \in {1, w} \cup I
       /\ \A x \in {1, w} \cup I : x <= m
  <2>1. c \in Int /\ 1 <= c /\ c <= n + 1 /\ w \in Int /\ w <= n + 2
    BY <1>1, <1>2 DEF w
  <2>2. CASE NoEvidence(r)
    <3>1. I = J \cup {n + 2} /\ m = n + 2
      BY <1>7, <2>2
    <3> QED
      BY <1>1, <1>11, <2>1, <3>1
  <2>3. CASE ~NoEvidence(r)
    <3>1. I = J /\ m = IF c < w THEN w ELSE c
      BY <1>7, <2>3
    <3>2. c \in {1, w - 1} \/ c \in J
      BY <1>10
    <3>3. c = w - 1 => m = w
      BY <2>1, <3>1
    <3>4. m \in {1, w} \cup I
      BY <3>1, <3>2, <3>3
    <3>5. \A x \in {1, w} \cup I : x \in Int /\ x <= m
      BY <1>11, <2>1, <3>1
    <3> QED
      BY <3>4, <3>5
  <2> QED
    BY <2>2, <2>3
<1> HIDE DEF m
<1>13. Max({1, w} \cup I) = m
  BY <1>12, MaxIs
<1> QED
  BY <1>4, <1>13 DEF m, c, w, n, next, K

(* _smoothed_events looks back only: a new reading changes no earlier phase. *)
LEMMA PhasesStay ==
  ASSUME NEW readings \in Seq(Reading), NEW r \in Reading, NEW i \in 1 .. Len(readings)
  PROVE  SmoothedPhase(Append(readings, r), i) = SmoothedPhase(readings, i)
<1> DEFINE n == Len(readings)
           next == Append(readings, r)
           c == ChunkStart(readings, i)
<1>1. n \in Nat /\ next \in Seq(Reading) /\ Len(next) = n + 1
      /\ \A k \in 1 .. n : next[k] = readings[k]
  OBVIOUS
<1>2. ChunkStart(next, i) = c
  <2>1. \A k \in 1 .. i - 1 : k \in 1 .. n
    OBVIOUS
  <2> HIDE DEF next, n
  <2>2. {k \in 1 .. i - 1 : NoEvidence(next[k])} = {k \in 1 .. i - 1 : NoEvidence(readings[k])}
    BY <1>1, <2>1
  <2> QED
    BY <2>2 DEF ChunkStart
<1>3. c \in Int /\ 1 <= c
  <2> DEFINE w == i - SERVER_CLASSIFIER_SMOOTHING_SAMPLES + 1
             T == {1, w} \cup {j + 1 : j \in {k \in 1 .. i - 1 : NoEvidence(readings[k])}}
  <2>1. w \in Int /\ T \subseteq (1 .. n) \cup {w} /\ i \in Nat
    <3>1. w \in Int /\ i \in Nat /\ 1 \in 1 .. n
      BY <1>1, ClassifierAssumption
    <3>2. \A k \in 1 .. i - 1 : k + 1 \in 1 .. n
      BY <1>1
    <3> HIDE DEF w, n
    <3> QED
      BY <3>1, <3>2 DEF T
  <2>2. IsFiniteSet((1 .. n) \cup {w})
    <3>1. IsFiniteSet(1 .. n)
      BY <1>1, FS_Interval
    <3> QED
      BY <3>1, FS_AddElement
  <2>3. 1 \in T /\ T \subseteq Int /\ IsFiniteSet(T)
    <3>1. (1 .. n) \cup {w} \subseteq Int
      BY <1>1, <2>1
    <3>2. 1 \in T
      OBVIOUS
    <3> HIDE DEF T, w
    <3> QED
      BY <2>1, <2>2, <3>1, <3>2, FS_Subset
  <2>4. c = Max(T)
    BY DEF ChunkStart
  <2> HIDE DEF T, c
  <2>5. c \in T /\ \A x \in T : x <= c
    BY <2>3, <2>4, MaxAndMin
  <2> QED
    BY <2>3, <2>5
<1> HIDE DEF c
<1>4. SubSeq(next, c, i) = SubSeq(readings, c, i)
  <2>1. \A k \in c .. i : k \in 1 .. n
    BY <1>3
  <2>2. i \in Int
    OBVIOUS
  <2> HIDE DEF next
  <2>3. \A k \in c .. i : next[k] \in Reading /\ readings[k] \in Reading
    BY <1>1, <2>1
  <2>4. /\ SubSeq(next, c, i) \in Seq(Reading) /\ SubSeq(readings, c, i) \in Seq(Reading)
        /\ Len(SubSeq(next, c, i)) = Len(SubSeq(readings, c, i))
        /\ Len(SubSeq(next, c, i)) = IF c <= i THEN i - c + 1 ELSE 0
        /\ \A j \in 1 .. i - c + 1 : /\ SubSeq(next, c, i)[j] = next[c + j - 1]
                                      /\ SubSeq(readings, c, i)[j] = readings[c + j - 1]
    BY <1>3, <2>2, <2>3, SubSeqProperties
  <2>5. \A j \in 1 .. Len(SubSeq(next, c, i)) : j \in 1 .. i - c + 1 /\ c + j - 1 \in 1 .. n
    BY <1>1, <1>3, <2>2, <2>4
  <2>6. \A j \in 1 .. Len(SubSeq(next, c, i)) : SubSeq(next, c, i)[j] = SubSeq(readings, c, i)[j]
    BY <1>1, <2>4, <2>5
  <2> QED
    BY <2>4, <2>6, SeqEqual
<1>5. next[i] = readings[i]
  BY <1>1
<1> QED
  BY <1>2, <1>4, <1>5 DEF SmoothedPhase, c

----------------------------------------------------------------------------
(* The same elements in two lists *)

(* The elements from y up to x, without x. *)
Between(R, S, y, x) == {r \in S : (r = y \/ <<y, r>> \in R) /\ <<r, x>> \in R}

LEMMA RankDistance ==
  ASSUME NEW S, IsFiniteSet(S), NEW R, StrictOrder(R, S), NEW x \in S, NEW y \in S,
         y = x \/ <<y, x>> \in R
  PROVE  /\ Cardinality(Between(R, S, y, x)) \in Nat /\ Cardinality(Below(R, S, y)) \in Nat
         /\ Cardinality(Below(R, S, x))
              = Cardinality(Below(R, S, y)) + Cardinality(Between(R, S, y, x))
<1> DEFINE B == Below(R, S, y)
           D == Between(R, S, y, x)
<1>1. IsFiniteSet(B) /\ IsFiniteSet(D)
  BY FS_Subset DEF Below, Between
<1>2. Below(R, S, x) = B \cup D
  BY DEF Below, Between, StrictOrder
<1>3. B \cap D = {}
  BY DEF Below, Between, StrictOrder
<1>4. /\ Cardinality(B) \in Nat /\ Cardinality(D) \in Nat
      /\ Cardinality(B \cup D) = Cardinality(B) + Cardinality(D) - Cardinality({})
  BY <1>1, <1>3, FS_CardinalityType, FS_Union
<1>5. Cardinality({}) = 0
  BY FS_EmptySet
<1> QED
  BY <1>2, <1>4, <1>5

LEMMA SameDistance ==
  ASSUME NEW S, IsFiniteSet(S), NEW T, IsFiniteSet(T), NEW R,
         StrictOrder(R, S), StrictOrder(R, T),
         NEW x, x \in S, x \in T, NEW y, y \in S, y \in T, y = x \/ <<y, x>> \in R,
         \A r \in S \cup T : (r = y \/ <<y, r>> \in R) /\ <<r, x>> \in R => r \in S /\ r \in T
  PROVE  Cardinality(Below(R, S, x)) - Cardinality(Below(R, S, y))
           = Cardinality(Below(R, T, x)) - Cardinality(Below(R, T, y))
<1>1. Between(R, S, y, x) = Between(R, T, y, x)
  BY DEF Between
<1>2. /\ Cardinality(Between(R, S, y, x)) \in Nat /\ Cardinality(Below(R, S, y)) \in Nat
      /\ Cardinality(Below(R, S, x))
           = Cardinality(Below(R, S, y)) + Cardinality(Between(R, S, y, x))
  BY RankDistance
<1>3. /\ Cardinality(Between(R, T, y, x)) \in Nat /\ Cardinality(Below(R, T, y)) \in Nat
      /\ Cardinality(Below(R, T, x))
           = Cardinality(Below(R, T, y)) + Cardinality(Between(R, T, y, x))
  BY RankDistance
<1> QED
  BY <1>1, <1>2, <1>3

(***************************************************************************)
(* Two sets in order: if they have the same elements between two of them,  *)
(* these stand next to each other in both lists alike.                     *)
(***************************************************************************)
LEMMA SameNeighbours ==
  ASSUME NEW S, IsFiniteSet(S), NEW T, IsFiniteSet(T), NEW R,
         StrictOrder(R, S), StrictOrder(R, T),
         NEW s, s = Ranked(R, S), NEW t, t = Ranked(R, T),
         NEW i \in 1 .. Cardinality(S), NEW j \in 1 .. Cardinality(T), s[i] = t[j],
         NEW k \in 1 .. i, s[k] \in T,
         \A r \in S \cup T :
           (r = s[k] \/ <<s[k], r>> \in R) /\ <<r, s[i]>> \in R => r \in S /\ r \in T
  PROVE  \A m \in k .. i :
           j - (i - m) \in 1 .. Cardinality(T) /\ t[j - (i - m)] = s[m]
<1>1. /\ Cardinality(S) \in Nat
      /\ s \in [1 .. Cardinality(S) -> S]
      /\ \A p \in 1 .. Cardinality(S) : Cardinality(Below(R, S, s[p])) = p - 1
      /\ \A p, q \in 1 .. Cardinality(S) : <<s[p], s[q]>> \in R <=> p < q
  BY RankedInOrder
<1>2. /\ Cardinality(T) \in Nat
      /\ t \in [1 .. Cardinality(T) -> T]
      /\ \A p \in 1 .. Cardinality(T) : Cardinality(Below(R, T, t[p])) = p - 1
      /\ \A x \in T : \E p \in 1 .. Cardinality(T) : t[p] = x
  BY RankedInOrder, Z3
<1> SUFFICES ASSUME NEW m \in k .. i
             PROVE  j - (i - m) \in 1 .. Cardinality(T) /\ t[j - (i - m)] = s[m]
  OBVIOUS
<1> DEFINE x == s[i]
           y == s[m]
           a == s[k]
<1>3. m \in 1 .. Cardinality(S) /\ k \in 1 .. Cardinality(S) /\ m <= i /\ k <= m
  BY <1>1
<1>4. /\ x \in S /\ x \in T /\ y \in S /\ a \in S /\ a \in T
      /\ y = x \/ <<y, x>> \in R
      /\ y = a \/ <<a, y>> \in R
  <2>1. x \in S /\ y \in S /\ a \in S
    BY <1>1, <1>3
  <2>2. x \in T /\ a \in T
    BY <1>2
  <2>3. m = i \/ m < i
    BY <1>3
  <2>4. m = k \/ k < m
    BY <1>3
  <2>5. y = x \/ <<y, x>> \in R
    BY <1>1, <1>3, <2>3
  <2>6. y = a \/ <<a, y>> \in R
    BY <1>1, <1>3, <2>4
  <2> QED
    BY <2>1, <2>2, <2>5, <2>6
<1>5. \A r \in S \cup T : (r = a \/ <<a, r>> \in R) /\ <<r, x>> \in R => r \in S /\ r \in T
  OBVIOUS
<1>6. Cardinality(Below(R, S, x)) = i - 1 /\ Cardinality(Below(R, S, y)) = m - 1
  BY <1>1, <1>3
<1>7. Cardinality(Below(R, T, x)) = j - 1
  BY <1>2
<1> HIDE DEF x, y, a
<1>8. y \in T
  BY <1>4, <1>5
<1>9. \A r \in S \cup T : (r = y \/ <<y, r>> \in R) /\ <<r, x>> \in R => r \in S /\ r \in T
  <2>1. \A r \in S : (r = y \/ <<y, r>> \in R) => r = a \/ <<a, r>> \in R
    BY <1>4 DEF StrictOrder
  <2>2. \A r \in T : (r = y \/ <<y, r>> \in R) => r = a \/ <<a, r>> \in R
    BY <1>4, <1>8 DEF StrictOrder
  <2> QED
    BY <1>5, <2>1, <2>2
<1>10. PICK p \in 1 .. Cardinality(T) : t[p] = y
  BY <1>2, <1>8
<1>11. Cardinality(Below(R, T, y)) = p - 1
  BY <1>2, <1>10
<1>12. Cardinality(Below(R, S, x)) - Cardinality(Below(R, S, y))
         = Cardinality(Below(R, T, x)) - Cardinality(Below(R, T, y))
  BY <1>4, <1>8, <1>9, SameDistance
<1>13. p = j - (i - m)
  BY <1>2, <1>3, <1>6, <1>7, <1>11, <1>12
<1> QED
  BY <1>10, <1>13 DEF y

(* Half of the next lemma: the second average reaches back no farther. *)
LEMMA AsFarBack ==
  ASSUME NEW readings \in Seq(Reading), NEW i \in 1 .. Len(readings),
         NEW others \in Seq(Reading), NEW j \in 1 .. Len(others),
         SERVER_CLASSIFIER_SMOOTHING_SAMPLES <= i,
         \A m \in 0 .. SERVER_CLASSIFIER_SMOOTHING_SAMPLES - 1 : readings[i - m] = others[j - m]
  PROVE  j - ChunkStart(others, j) <= i - ChunkStart(readings, i)
<1> DEFINE K == SERVER_CLASSIFIER_SMOOTHING_SAMPLES
           c == ChunkStart(readings, i)
           d == ChunkStart(others, j)
<1>1. /\ c \in 1 .. i /\ i < c + K
      /\ c = 1 \/ c = i - K + 1 \/ NoEvidence(readings[c - 1])
  BY ChunkReach
<1>2. /\ d \in 1 .. j /\ j < d + K
      /\ \A m \in d .. j - 1 : ~NoEvidence(others[m])
  BY ChunkReach
<1>3. K \in Nat /\ i \in Nat /\ j \in Nat
  BY ClassifierAssumption
<1> HIDE DEF c, d, K
<1> SUFFICES ASSUME i - c < j - d
             PROVE  FALSE
  BY <1>1, <1>2, <1>3 DEF c, d
<1>4. c # 1 /\ c # i - K + 1
  BY <1>1, <1>2, <1>3 DEF K
<1>5. (i - c) + 1 \in 0 .. K - 1 /\ i - ((i - c) + 1) = c - 1
  BY <1>1, <1>2, <1>3
<1>6. readings[c - 1] = others[j - ((i - c) + 1)]
  BY <1>5 DEF K
<1>7. j - ((i - c) + 1) \in d .. j - 1
  BY <1>1, <1>2, <1>3
<1> QED
  BY <1>1, <1>2, <1>4, <1>6, <1>7

(***************************************************************************)
(* _smoothed_events: the phase of a reading is a matter of the readings    *)
(* within the smoothing length, wherever in a list these are.              *)
(***************************************************************************)
LEMMA PhaseOfLatest ==
  ASSUME NEW readings \in Seq(Reading), NEW i \in 1 .. Len(readings),
         NEW others \in Seq(Reading), NEW j \in 1 .. Len(others),
         SERVER_CLASSIFIER_SMOOTHING_SAMPLES <= i, SERVER_CLASSIFIER_SMOOTHING_SAMPLES <= j,
         \A m \in 0 .. SERVER_CLASSIFIER_SMOOTHING_SAMPLES - 1 : readings[i - m] = others[j - m]
  PROVE  SmoothedPhase(readings, i) = SmoothedPhase(others, j)
<1> DEFINE K == SERVER_CLASSIFIER_SMOOTHING_SAMPLES
           c == ChunkStart(readings, i)
           d == ChunkStart(others, j)
<1>1. c \in 1 .. i /\ i < c + K /\ d \in 1 .. j
  BY ChunkReach
<1>2. K \in Nat \ {0} /\ i \in Nat /\ j \in Nat
  BY ClassifierAssumption
<1>3. i - c = j - d
  <2>1. j - d <= i - c
    BY AsFarBack
  <2>2. \A m \in 0 .. K - 1 : others[j - m] = readings[i - m]
    OBVIOUS
  <2>3. i - c <= j - d
    BY <2>2, AsFarBack
  <2> HIDE DEF c, d
  <2> QED
    BY <1>1, <1>2, <2>1, <2>3
<1> HIDE DEF c, d
<1>4. readings[i] = others[j]
  <2>1. 0 \in 0 .. K - 1 /\ i - 0 = i /\ j - 0 = j
    BY <1>2
  <2>2. readings[i - 0] = others[j - 0]
    BY <2>1
  <2> QED
    BY <2>1, <2>2
<1>5. SubSeq(readings, c, i) = SubSeq(others, d, j)
  <2> DEFINE left == SubSeq(readings, c, i)
             right == SubSeq(others, d, j)
  <2>1. \A m \in c .. i : readings[m] \in Reading
    BY <1>1
  <2>2. \A m \in d .. j : others[m] \in Reading
    BY <1>1
  <2>3. /\ left \in Seq(Reading) /\ Len(left) = i - c + 1
        /\ \A m \in 1 .. i - c + 1 : left[m] = readings[c + m - 1]
    BY <1>1, <1>2, <2>1, SubSeqProperties
  <2>4. /\ right \in Seq(Reading) /\ Len(right) = j - d + 1
        /\ \A m \in 1 .. j - d + 1 : right[m] = others[d + m - 1]
    BY <1>1, <1>2, <2>2, SubSeqProperties
  <2>5. ASSUME NEW m \in 1 .. i - c + 1
        PROVE  left[m] = right[m]
    <3>1. /\ i - (c + m - 1) \in 0 .. K - 1
          /\ i - (i - (c + m - 1)) = c + m - 1 /\ j - (i - (c + m - 1)) = d + m - 1
      BY <1>1, <1>2, <1>3
    <3>2. readings[c + m - 1] = others[d + m - 1]
      BY <3>1
    <3> QED
      BY <1>3, <2>3, <2>4, <3>2
  <2> HIDE DEF left, right
  <2>6. \A m \in 1 .. Len(left) : left[m] = right[m]
    BY <2>3, <2>5
  <2>7. left = right
    BY <1>3, <2>3, <2>4, <2>6, SeqEqual
  <2> QED
    BY <2>7 DEF left, right
<1> QED
  BY <1>4, <1>5 DEF SmoothedPhase, c, d
=============================================================================
